--------------------------- MODULE BridgeProofs ---------------------------
(***************************************************************************)
(* What holds of the serial bridge for every alphabet, script, buffer size *)
(* and budget: the line gets the data a client meant, the client reads the *)
(* line's bytes and no data in a reply, no sink is overrun, and both       *)
(* buffers hold.                                                           *)
(*                                                                         *)
(* Payloads and scripts have any length, so the proofs need induction over *)
(* them.  Climb is induction on the naturals for a set: it follows from    *)
(* the pigeonhole principle for finite sets.                               *)
(***************************************************************************)
EXTENDS SerialBridge, FiniteSetTheorems, FunctionTheorems, SequenceTheorems, TLAPS

(***************************************************************************)
(* Numbers.                                                                *)
(***************************************************************************)
\* A set that holds 0 and is closed under successor holds every natural number:
\* below one it lacks, the successor would map a finite set into itself, injective
\* and so onto, but never to 0.
LEMMA Climb ==
  ASSUME NEW G, 0 \in G, \A i \in Nat : i \in G => i + 1 \in G
  PROVE  \A m \in Nat : m \in G
<1> SUFFICES ASSUME NEW m \in Nat, m \notin G PROVE FALSE
  OBVIOUS
<1> DEFINE T == {i \in 0 .. m : i < m /\ i \in G}
           f == [i \in T |-> i + 1]
<1>1. IsFiniteSet(T)
  BY FS_Interval, FS_Subset, m \in Int, 0 \in Int, T \subseteq 0 .. m
<1>2. \A i \in T : i + 1 \in T /\ i \in Nat
  OBVIOUS
<1>3. f \in Injection(T, T)
  BY <1>2 DEF Injection, IsInjective
<1>4. f \in Surjection(T, T)
  BY <1>1, <1>3, FS_Injection
<1>5. 0 \in T
  OBVIOUS
<1>6. PICK i \in T : f[i] = 0
  BY <1>4, <1>5 DEF Surjection
<1> QED BY <1>2, <1>6
\* A set of numbers that is not empty has a least one.
LEMMA Least ==
  ASSUME NEW S \in SUBSET Nat, S # {}
  PROVE  \E k \in S : \A j \in S : k <= j
<1> SUFFICES ASSUME \A k \in S : \E j \in S : ~(k <= j) PROVE FALSE
  OBVIOUS
<1> DEFINE G == {m \in Nat : \A j \in S : m <= j}
<1>1. 0 \in G
  OBVIOUS
<1>2. ASSUME NEW m \in Nat, m \in G PROVE m + 1 \in G
  <2>1. \A j \in S : m <= j /\ j \in Nat
    BY <1>2
  <2>2. m \notin S
    BY <2>1
  <2>3. \A j \in S : m + 1 <= j
    BY <2>1, <2>2
  <2> QED BY <2>3
<1> HIDE DEF G
<1>3. \A m \in Nat : m \in G
  BY <1>1, <1>2, Climb
<1>4. PICK j \in S : TRUE
  OBVIOUS
<1>5. j + 1 \in G
  BY <1>3
<1> QED BY <1>5 DEF G

\* A bounded one has a greatest one.
LEMMA Greatest ==
  ASSUME NEW m \in Nat, NEW S \in SUBSET (0 .. m), S # {}
  PROVE  \E k \in S : \A j \in S : j <= k
<1> DEFINE T == {i \in 0 .. m : m - i \in S}
<1>1. PICK j \in S : TRUE
  OBVIOUS
<1>2. m - j \in T
  BY m - (m - j) = j, m - j \in 0 .. m
<1>3. PICK i \in T : \A k \in T : i <= k
  BY <1>2, Least, T \subseteq Nat
<1>4. \A k \in S : m - k \in T
  BY \A k \in S : m - (m - k) = k /\ m - k \in 0 .. m
<1>5. m - i \in S /\ i \in 0 .. m
  OBVIOUS
<1> HIDE DEF T
<1>6. ASSUME NEW k \in S PROVE k <= m - i
  <2>1. k \in Nat /\ i \in Nat /\ i <= m - k
    BY <1>3, <1>4, <1>5
  <2> QED BY <2>1
<1> QED BY <1>5, <1>6

(***************************************************************************)
(* Sequences.                                                              *)
(***************************************************************************)
\* Short tuples, and two sequences in a row.
LEMMA One ==
  ASSUME NEW T, NEW a \in T
  PROVE  <<a>> \in Seq(T) /\ Len(<<a>>) = 1 /\ <<a>>[1] = a
OBVIOUS

LEMMA Two ==
  ASSUME NEW T, NEW a \in T, NEW b \in T
  PROVE  <<a, b>> \in Seq(T) /\ Len(<<a, b>>) = 2 /\ <<a, b>>[1] = a /\ <<a, b>>[2] = b
OBVIOUS

LEMMA Four ==
  ASSUME NEW T, NEW a \in T, NEW b \in T, NEW c \in T, NEW d \in T
  PROVE  /\ <<a, b, c, d>> \in Seq(T) /\ Len(<<a, b, c, d>>) = 4
         /\ <<a, b, c, d>>[1] = a /\ <<a, b, c, d>>[2] = b /\ <<a, b, c, d>>[3] = c /\ <<a, b, c, d>>[4] = d
OBVIOUS

LEMMA Appended ==
  ASSUME NEW T, NEW q \in Seq(T), NEW a \in T
  PROVE  /\ Append(q, a) \in Seq(T) /\ Len(Append(q, a)) = Len(q) + 1 /\ Append(q, a)[Len(q) + 1] = a
         /\ \A i \in 1 .. Len(q) : Append(q, a)[i] = q[i]
OBVIOUS

LEMMA Glued ==
  ASSUME NEW T, NEW q \in Seq(T), NEW r \in Seq(T)
  PROVE  /\ q \o r \in Seq(T) /\ Len(q \o r) = Len(q) + Len(r) /\ Len(q) \in Nat /\ Len(r) \in Nat
         /\ \A i \in 1 .. Len(q) : (q \o r)[i] = q[i]
         /\ \A i \in 1 .. Len(r) : (q \o r)[Len(q) + i] = r[i]
OBVIOUS

LEMMA Regroup ==
  \A q, r, t \in Seq(Byte) : (q \o r) \o t = q \o (r \o t)
  BY ConcatAssociative

LEMMA NoData == <<>> \o <<>> = <<>>
  OBVIOUS

\* The first elements of a sequence, one more.
LEMMA PrefixStep ==
  ASSUME NEW T, NEW p \in Seq(T), NEW j \in 0 .. Len(p) - 1
  PROVE  /\ SubSeq(p, 1, j) \in Seq(T) /\ p[j + 1] \in T
         /\ SubSeq(p, 1, j + 1) = Append(SubSeq(p, 1, j), p[j + 1])
<1> DEFINE n == Len(p)
<1>1. n \in Nat /\ j \in 0 .. n - 1 /\ \A i \in 1 .. n : p[i] \in T
  OBVIOUS
<1>2. SubSeq(p, 1, j) = [i \in 1 .. j |-> p[i]] /\ SubSeq(p, 1, j + 1) = [i \in 1 .. j + 1 |-> p[i]]
  OBVIOUS
<1> HIDE DEF n
<1> DEFINE a == [i \in 1 .. j |-> p[i]]
<1>3. a \in Seq(T) /\ Len(a) = j
  BY <1>1
<1>4. Append(a, p[j + 1]) = [i \in 1 .. j + 1 |-> p[i]]
  BY <1>1, <1>3
<1> QED BY <1>1, <1>2, <1>3, <1>4

LEMMA PrefixEnds ==
  ASSUME NEW T, NEW p \in Seq(T)
  PROVE  SubSeq(p, 1, 0) = <<>> /\ SubSeq(p, 1, Len(p)) = p
OBVIOUS

\* f is the running concatenation of the first n sequences of q.
Running(f, q, n, S) ==
  /\ f \in [0 .. n -> Seq(S)] /\ f[0] = <<>>
  /\ \A i \in 0 .. n - 1 : f[i + 1] = f[i] \o q[i + 1]

LEMMA RunningExists ==
  ASSUME NEW S, NEW q \in Seq(Seq(S))
  PROVE  \E f : Running(f, q, Len(q), S)
<1> DEFINE G == {n \in Nat : n <= Len(q) => \E f : Running(f, q, n, S)}
<1>1. 0 \in G
  <2>1. Running([i \in 0 .. 0 |-> <<>>], q, 0, S)
    BY <<>> \in Seq(S) DEF Running
  <2> QED BY <2>1
<1>2. ASSUME NEW n \in Nat, n \in G PROVE n + 1 \in G
  <2> SUFFICES ASSUME n + 1 <= Len(q) PROVE \E g : Running(g, q, n + 1, S)
    OBVIOUS
  <2>1. Len(q) \in Nat /\ n <= Len(q)
    OBVIOUS
  <2>2. PICK f : Running(f, q, n, S)
    BY <1>2, <2>1
  <2> DEFINE t == f[n] \o q[n + 1]
             g == [i \in 0 .. n + 1 |-> IF i <= n THEN f[i] ELSE t]
  <2>3. q[n + 1] \in Seq(S) /\ f[n] \in Seq(S)
    BY <2>1, <2>2 DEF Running
  <2>4. t \in Seq(S)
    BY <2>3
  <2>a. t = f[n] \o q[n + 1]
    OBVIOUS
  <2> HIDE DEF t
  <2>b. f \in [0 .. n -> Seq(S)] /\ f[0] = <<>>
    BY <2>2 DEF Running
  <2>c. \A i \in 0 .. n - 1 : f[i + 1] = f[i] \o q[i + 1]
    BY <2>2 DEF Running
  <2>5. g \in [0 .. n + 1 -> Seq(S)]
    BY <2>b, <2>4
  <2>6. ASSUME NEW i \in 0 .. n PROVE g[i + 1] = g[i] \o q[i + 1]
    <3>1. CASE i < n
      <4>1. g[i + 1] = f[i + 1] /\ g[i] = f[i]
        BY <3>1
      <4>2. f[i + 1] = f[i] \o q[i + 1]
        BY <2>c, <3>1, i \in 0 .. n - 1
      <4> QED BY <4>1, <4>2
    <3>2. CASE i = n
      <4>1. g[n + 1] = t /\ g[n] = f[n]
        OBVIOUS
      <4> QED BY <2>a, <3>2, <4>1
    <3>3. i < n \/ i = n
      OBVIOUS
    <3> QED BY <3>1, <3>2, <3>3
  <2>7. g[0] = <<>>
    BY <2>b
  <2> HIDE DEF g
  <2>8. Running(g, q, n + 1, S)
    BY <2>5, <2>6, <2>7, (n + 1) - 1 = n DEF Running
  <2> QED BY <2>8
<1> HIDE DEF G
<1>3. \A n \in Nat : n \in G
  BY <1>1, <1>2, Climb
<1> QED BY <1>3, Len(q) \in Nat DEF G

\* Two running concatenations of the same start agree on it.
LEMMA RunningAgree ==
  ASSUME NEW S, NEW q, NEW r, NEW n \in Nat, NEW m \in Nat, n <= m,
         \A i \in 1 .. n : q[i] = r[i],
         NEW f, NEW g, Running(f, q, n, S), Running(g, r, m, S)
  PROVE  f[n] = g[n]
<1> DEFINE G == {i \in Nat : i <= n => f[i] = g[i]}
<1>1. 0 \in G
  BY DEF Running
<1>2. ASSUME NEW i \in Nat, i \in G PROVE i + 1 \in G
  <2> SUFFICES ASSUME i + 1 <= n PROVE f[i + 1] = g[i + 1]
    OBVIOUS
  <2>1. i \in 0 .. n - 1 /\ i \in 0 .. m - 1 /\ f[i] = g[i] /\ q[i + 1] = r[i + 1]
    BY <1>2
  <2>2. f[i + 1] = f[i] \o q[i + 1]
    BY <2>1 DEF Running
  <2>3. g[i + 1] = g[i] \o r[i + 1]
    BY <2>1 DEF Running
  <2> QED BY <2>1, <2>2, <2>3
<1> HIDE DEF G
<1>3. n \in G
  BY <1>1, <1>2, Climb
<1> QED BY <1>3 DEF G

LEMMA FlattenRuns ==
  ASSUME NEW S, NEW q \in Seq(Seq(S)), NEW g, Running(g, q, Len(q), S)
  PROVE  FlattenSeq(q) = g[Len(q)]
<1>0. Len(q) \in Nat
  OBVIOUS
<1>1. CASE Len(q) = 0
  <2>1. q = <<>>
    BY <1>1
  <2>2. FlattenSeq(q) = <<>>
    BY <1>1, <2>1 DEF FlattenSeq
  <2> QED BY <1>1, <2>2 DEF Running
<1>2. CASE Len(q) # 0
  <2> DEFINE n == Len(q)
             E(f) == [i \in 1 .. n |-> IF i = 1 THEN q[i] ELSE f[i - 1] \o q[i]]
             h == CHOOSE f : f = E(f)
             k == [i \in 1 .. n |-> g[i]]
  <2>1. FlattenSeq(q) = h[n]
    BY <1>2 DEF FlattenSeq
  <2>2. \A i \in 1 .. n : q[i] \in Seq(S)
    OBVIOUS
  <2>3. n \in Nat \ {0} /\ Running(g, q, n, S)
    BY <1>0, <1>2
  <2> HIDE DEF n
  <2>4. g[0] = <<>> /\ \A i \in 0 .. n - 1 : g[i + 1] = g[i] \o q[i + 1]
    BY <2>3 DEF Running
  <2>5. k = E(k)
    <3>1. ASSUME NEW i \in 1 .. n PROVE g[i] = IF i = 1 THEN q[i] ELSE k[i - 1] \o q[i]
      <4>1. PICK j \in 0 .. n - 1 : i = j + 1
        BY <2>3, i - 1 \in 0 .. n - 1, i = (i - 1) + 1
      <4>2. g[i] = g[j] \o q[i]
        BY <2>4, <4>1
      <4>3. CASE j = 0
        <5>1. i = 1 /\ g[j] = <<>> /\ q[i] \in Seq(S)
          BY <2>2, <2>4, <4>1, <4>3
        <5>2. <<>> \o q[i] = q[i]
          BY <5>1
        <5> QED BY <4>2, <5>1, <5>2
      <4>4. CASE j # 0
        <5>1. i - 1 = j /\ i # 1 /\ j \in 1 .. n
          BY <2>3, <4>1, <4>4
        <5>2. k[j] = g[j]
          BY <5>1
        <5> QED BY <4>2, <5>1, <5>2
      <4> QED BY <4>3, <4>4
    <3> QED BY <3>1
  <2>6. h = E(h)
    BY <2>5
  <2> HIDE DEF h
  <2> DEFINE G == {i \in Nat : i + 1 <= n => h[i + 1] = g[i + 1]}
  <2>7. 0 \in G
    <3>1. 1 \in 1 .. n /\ 0 \in 0 .. n - 1 /\ 0 + 1 = 1
      BY <2>3
    <3>2. h[1] = q[1]
      BY <2>6, <3>1
    <3>3. g[1] = <<>> \o q[1]
      BY <2>4, <3>1
    <3>4. q[1] \in Seq(S)
      BY <2>2, <3>1
    <3>5. <<>> \o q[1] = q[1]
      BY <3>4
    <3> QED BY <3>1, <3>2, <3>3, <3>5
  <2>8. ASSUME NEW i \in Nat, i \in G PROVE i + 1 \in G
    <3> SUFFICES ASSUME i + 2 <= n PROVE h[i + 2] = g[i + 2]
      BY (i + 1) + 1 = i + 2
    <3>1. h[i + 1] = g[i + 1] /\ i + 1 \in 0 .. n - 1 /\ (i + 1) + 1 = i + 2 /\ i + 2 \in 1 .. n
          /\ i + 2 # 1 /\ (i + 2) - 1 = i + 1
      BY <2>8, <2>3
    <3>2. g[i + 2] = g[i + 1] \o q[i + 2]
      BY <2>4, <3>1
    <3>3. h[i + 2] = h[i + 1] \o q[i + 2]
      BY <2>6, <3>1
    <3> QED BY <3>1, <3>2, <3>3
  <2> HIDE DEF G
  <2>9. \A i \in Nat : i \in G
    BY <2>7, <2>8, Climb
  <2>10. n - 1 \in G /\ (n - 1) + 1 = n
    BY <2>3, <2>9
  <2>11. h[n] = g[n]
    BY <2>3, <2>10 DEF G
  <2> QED BY <2>1, <2>11 DEF n
<1> QED BY <1>1, <1>2

LEMMA FlattenEmpty == FlattenSeq(<<>>) = <<>>
  BY DEF FlattenSeq

LEMMA FlattenAppend ==
  ASSUME NEW S, NEW q \in Seq(Seq(S)), NEW t \in Seq(S)
  PROVE  /\ FlattenSeq(q) \in Seq(S)
         /\ FlattenSeq(Append(q, t)) = FlattenSeq(q) \o t
<1> DEFINE r == Append(q, t)
           n == Len(q)
<1>0. r \in Seq(Seq(S)) /\ n \in Nat /\ Len(r) = n + 1 /\ r[n + 1] = t /\ \A i \in 1 .. n : q[i] = r[i]
  OBVIOUS
<1> HIDE DEF r
<1>1. PICK f : Running(f, q, n, S)
  BY RunningExists
<1>2. PICK g : Running(g, r, Len(r), S)
  BY <1>0, RunningExists
<1>3. FlattenSeq(q) = f[n]
  BY <1>1, FlattenRuns
<1>4. FlattenSeq(r) = g[n + 1]
  BY <1>0, <1>2, FlattenRuns
<1> HIDE DEF n
<1>5. f[n] = g[n]
  BY <1>0, <1>1, <1>2, RunningAgree
<1>6. g[n + 1] = g[n] \o t
  BY <1>0, <1>2, n \in 0 .. (n + 1) - 1 DEF Running
<1>7. f[n] \in Seq(S)
  BY <1>0, <1>1 DEF Running
<1> QED BY <1>3, <1>4, <1>5, <1>6, <1>7 DEF r

\* What the elements of q stand for, in a row.
Spelled(F, q) == FlattenSeq([i \in DOMAIN q |-> F[q[i]]])

LEMMA SpelledEmpty ==
  ASSUME NEW F
  PROVE  Spelled(F, <<>>) = <<>>
<1>1. [i \in DOMAIN <<>> |-> F[(<<>>)[i]]] = <<>>
  OBVIOUS
<1> QED BY <1>1, FlattenEmpty DEF Spelled

\* One element more adds what it stands for.
Grows(F, p, b, S) == Spelled(F, p) \in Seq(S) /\ Spelled(F, Append(p, b)) = Spelled(F, p) \o F[b]

LEMMA SpelledAppend ==
  ASSUME NEW S, NEW U, NEW F \in [U -> Seq(S)], NEW p \in Seq(U), NEW b \in U
  PROVE  Grows(F, p, b, S)
<1> DEFINE q == [i \in DOMAIN p |-> F[p[i]]]
           r == [i \in DOMAIN Append(p, b) |-> F[Append(p, b)[i]]]
           n == Len(p)
           e == F[b]
           pb == Append(p, b)
<1>0. n \in Nat /\ DOMAIN p = 1 .. n /\ DOMAIN pb = 1 .. n + 1 /\ pb[n + 1] = b
  OBVIOUS
<1>a. \A i \in 1 .. n : pb[i] = p[i] /\ p[i] \in U
  OBVIOUS
<1> HIDE DEF n, pb
<1>1. \A i \in 1 .. n : F[p[i]] \in Seq(S)
  BY <1>0, <1>a
<1>2. q \in Seq(Seq(S)) /\ Len(q) = n /\ \A i \in 1 .. n : q[i] = F[p[i]]
  BY <1>0, <1>1
<1>3. e \in Seq(S)
  OBVIOUS
<1> HIDE DEF q, e
<1>4. r = Append(q, e)
  <2> DEFINE s == Append(q, e)
  <2>1. s \in Seq(Seq(S)) /\ Len(s) = n + 1 /\ s[n + 1] = e /\ \A i \in 1 .. n : s[i] = q[i]
    BY <1>0, <1>2, <1>3, Appended
  <2> HIDE DEF s
  <2>2. DOMAIN s = 1 .. n + 1 /\ s = [i \in 1 .. n + 1 |-> s[i]]
    BY <2>1
  <2>3. ASSUME NEW i \in 1 .. n + 1 PROVE s[i] = F[pb[i]]
    <3>1. CASE i = n + 1
      BY <2>1, <3>1, <1>0 DEF e
    <3>2. CASE i \in 1 .. n
      BY <1>0, <1>a, <1>2, <2>1, <3>2
    <3> QED BY <1>0, <3>1, <3>2
  <2>4. r = [i \in 1 .. n + 1 |-> F[pb[i]]]
    BY <1>0 DEF pb
  <2>5. s = r
    BY <2>2, <2>3, <2>4
  <2> QED BY <2>5 DEF s
<1>5. Spelled(F, p) = FlattenSeq(q) /\ Spelled(F, Append(p, b)) = FlattenSeq(r)
  BY DEF Spelled, q
<1> HIDE DEF r
<1> QED BY <1>2, <1>3, <1>4, <1>5, FlattenAppend DEF Grows, e

(***************************************************************************)
(* Escaped payloads and the reply's buffer.                                *)
(***************************************************************************)
LEMMA NamedBytes == \A b \in Named : b \in Byte
  BY BridgeBounds

LEMMA EscapeBytes ==
  ASSUME NEW b \in Byte
  PROVE  Escape(b) \in Seq(Byte) /\ Len(Escape(b)) \in {1, 2}
<1>0. "IAC" \in Byte
  BY NamedBytes DEF Named
<1>1. <<b>> \in Seq(Byte) /\ Len(<<b>>) = 1
  BY One
<1>2. <<"IAC", "IAC">> \in Seq(Byte) /\ Len(<<"IAC", "IAC">>) = 2
  BY <1>0, Two
<1>3. CASE b = "IAC"
  <2>1. Escape(b) = <<"IAC", "IAC">>
    BY <1>3 DEF Escape
  <2> QED BY <1>2, <2>1
<1>4. CASE b # "IAC"
  <2>1. Escape(b) = <<b>>
    BY <1>4 DEF Escape
  <2> QED BY <1>1, <2>1
<1> QED BY <1>3, <1>4

\* Escaping a payload one symbol further.
LEMMA DoubledAppend ==
  ASSUME NEW p \in Seq(Byte), NEW b \in Byte
  PROVE  /\ Doubled(p) \in Seq(Byte)
         /\ Doubled(Append(p, b)) = Doubled(p) \o Escape(b)
<1> DEFINE F == [c \in Byte |-> Escape(c)]
<1>1. F \in [Byte -> Seq(Byte)] /\ F[b] = Escape(b)
  BY EscapeBytes
<1>2. ASSUME NEW q \in Seq(Byte) PROVE Doubled(q) = Spelled(F, q)
  <2>1. \A i \in DOMAIN q : q[i] \in Byte
    OBVIOUS
  <2>2. [i \in DOMAIN q |-> F[q[i]]] = [i \in DOMAIN q |-> Escape(q[i])]
    BY <2>1
  <2> QED BY <2>2 DEF Doubled, Spelled
<1> HIDE DEF F
<1>3. Append(p, b) \in Seq(Byte)
  OBVIOUS
<1>4. Grows(F, p, b, Byte)
  BY <1>1, SpelledAppend
<1>5. Doubled(p) = Spelled(F, p) /\ Doubled(Append(p, b)) = Spelled(F, Append(p, b))
  BY <1>2, <1>3
<1> QED BY <1>1, <1>4, <1>5 DEF Grows

LEMMA DoubledEmpty == Doubled(<<>>) = <<>>
<1>1. [i \in DOMAIN <<>> |-> Escape((<<>>)[i])] = <<>>
  OBVIOUS
<1> QED BY <1>1, FlattenEmpty DEF Doubled

\* One symbol more of a payload.
LEMMA DoubledStep ==
  ASSUME NEW p \in Seq(Byte), NEW j \in 0 .. Len(p) - 1
  PROVE  /\ p[j + 1] \in Byte /\ Doubled(SubSeq(p, 1, j)) \in Seq(Byte)
         /\ Doubled(SubSeq(p, 1, j + 1)) = Doubled(SubSeq(p, 1, j)) \o Escape(p[j + 1])
<1>1. /\ SubSeq(p, 1, j) \in Seq(Byte) /\ p[j + 1] \in Byte
      /\ SubSeq(p, 1, j + 1) = Append(SubSeq(p, 1, j), p[j + 1])
  BY PrefixStep
<1> QED BY <1>1, DoubledAppend

LEMMA PrefixSpelled ==
  ASSUME NEW p \in Seq(Byte), NEW l \in 0 .. Len(p)
  PROVE  Doubled(SubSeq(p, 1, l)) \in Seq(Byte)
<1>1. SubSeq(p, 1, l) \in Seq(Byte)
  OBVIOUS
<1>2. "IAC" \in Byte
  BY NamedBytes DEF Named
<1> QED BY <1>1, <1>2, DoubledAppend

\* The symbols of a payload a reply takes.
Kept(p) == CHOOSE k \in Taken(p) : \A j \in Taken(p) : j <= k

LEMMA KeptTaken ==
  ASSUME NEW p \in Seq(Byte)
  PROVE  Kept(p) \in Taken(p) /\ Kept(p) \in 0 .. Len(p)
<1>1. Len(p) \in Nat /\ Taken(p) \in SUBSET (0 .. Len(p))
  BY DEF Taken
<1>2. 0 \in Taken(p)
  BY <1>1 DEF Taken
<1>3. \E k \in Taken(p) : \A j \in Taken(p) : j <= k
  BY <1>1, <1>2, Greatest
<1>4. Kept(p) \in Taken(p)
  BY <1>3 DEF Kept
<1> QED BY <1>1, <1>4

LEMMA AckIs ==
  ASSUME NEW cmd, NEW p
  PROVE  tn_comport_ack(cmd, p) = <<"IAC", "SB", "44", Code[cmd]>> \o Doubled(SubSeq(p, 1, Kept(p))) \o <<"IAC", "SE">>
  BY DEF tn_comport_ack, Kept

LEMMA OneMoreFits ==
  ASSUME NEW d \in Seq(Byte), NEW e \in Seq(Byte), Len(e) \in {1, 2}, 4 + Len(d) < ACK_MAX - 3
  PROVE  d \o e \in Seq(Byte) /\ 6 + Len(d \o e) <= ACK_MAX
<1>0. ACK_MAX \in Nat
  BY BridgeBounds
<1>1. Len(d) \in Nat /\ Len(e) \in Nat /\ (Len(e) = 1 \/ Len(e) = 2)
  OBVIOUS
<1>2. d \o e \in Seq(Byte) /\ Len(d \o e) = Len(d) + Len(e)
  BY Glued
<1>3. ASSUME NEW x \in Nat, NEW y \in Nat, y = 1 \/ y = 2, 4 + x < ACK_MAX - 3 PROVE 6 + (x + y) <= ACK_MAX
  BY <1>0, <1>3
<1>4. 6 + (Len(d) + Len(e)) <= ACK_MAX
  BY <1>1, <1>3
<1> QED BY <1>2, <1>4

LEMMA Framed ==
  ASSUME NEW c \in Byte, NEW d \in Seq(Byte)
  PROVE  /\ <<"IAC", "SB", "44", c>> \o d \o <<"IAC", "SE">> \in Seq(Byte)
         /\ Len(<<"IAC", "SB", "44", c>> \o d \o <<"IAC", "SE">>) = 6 + Len(d)
<1>1. ASSUME NEW h \in Seq(Byte), Len(h) = 4, NEW t \in Seq(Byte), Len(t) = 2
      PROVE  (h \o d) \o t \in Seq(Byte) /\ Len((h \o d) \o t) = 6 + Len(d)
  <2>1. h \o d \in Seq(Byte) /\ Len(h \o d) = Len(h) + Len(d) /\ Len(d) \in Nat
    BY Glued
  <2>2. (h \o d) \o t \in Seq(Byte) /\ Len((h \o d) \o t) = Len(h \o d) + Len(t)
    BY <2>1, Glued
  <2> QED BY <1>1, <2>1, <2>2
<1>2. <<"IAC", "SB", "44", c>> \in Seq(Byte) /\ Len(<<"IAC", "SB", "44", c>>) = 4
  BY NamedBytes, Four DEF Named
<1>3. <<"IAC", "SE">> \in Seq(Byte) /\ Len(<<"IAC", "SE">>) = 2
  BY NamedBytes, Two DEF Named
<1> QED BY <1>1, <1>2, <1>3

\* A reply fits the buffer it is put together in.
LEMMA AckFits ==
  ASSUME NEW cmd \in Byte, NEW p \in Seq(Byte)
  PROVE  tn_comport_ack(cmd, p) \in Seq(Byte) /\ Len(tn_comport_ack(cmd, p)) <= ACK_MAX
<1>0. ACK_MAX \in Nat /\ ACK_MAX >= 7
  BY BridgeBounds
<1>1. PICK n \in 0 .. Len(p) : n = Kept(p) /\ n \in Taken(p) /\ Len(p) \in Nat
  BY KeptTaken
<1>2. PICK d : d = Doubled(SubSeq(p, 1, n))
  OBVIOUS
<1>3. d \in Seq(Byte) /\ 6 + Len(d) <= ACK_MAX
  <2>1. CASE n = 0
    <3>1. SubSeq(p, 1, 0) = <<>>
      OBVIOUS
    <3>2. d = <<>>
      BY <1>2, <2>1, <3>1, DoubledEmpty
    <3> QED BY <1>0, <3>2, <<>> \in Seq(Byte), Len(<<>>) = 0
  <2>2. CASE n # 0
    <3>1. PICK j \in 0 .. Len(p) - 1 : n = j + 1 /\ j \in 0 .. n - 1
      BY <1>1, <2>2, n - 1 \in 0 .. Len(p) - 1, n = (n - 1) + 1
    <3>2. /\ p[n] \in Byte /\ Doubled(SubSeq(p, 1, j)) \in Seq(Byte)
          /\ d = Doubled(SubSeq(p, 1, j)) \o Escape(p[n])
      BY <1>2, <3>1, DoubledStep
    <3>3. Escape(p[n]) \in Seq(Byte) /\ Len(Escape(p[n])) \in {1, 2}
      BY <3>2, EscapeBytes
    <3>4. 4 + Len(Doubled(SubSeq(p, 1, j))) < ACK_MAX - 3
      BY <1>1, <3>1 DEF Taken
    <3> QED BY <3>2, <3>3, <3>4, OneMoreFits
  <2> QED BY <2>1, <2>2
<1>4. tn_comport_ack(cmd, p) = <<"IAC", "SB", "44", Code[cmd]>> \o d \o <<"IAC", "SE">>
  BY <1>1, <1>2, AckIs
<1>5. Code[cmd] \in Byte
  BY BridgeBounds
<1> QED BY <1>3, <1>4, <1>5, Framed

(***************************************************************************)
(* The parser as a reader of bytes.                                        *)
(***************************************************************************)
States == {"DATA", "IAC", "VERB", "SB", "SB_IAC"}

\* Where the parser goes on a byte, and what it gives the line.
Goes(s, b) ==
  CASE s = "DATA"   -> IF b = "IAC" THEN "IAC" ELSE "DATA"
    [] s = "IAC"    -> IF b = "SB" THEN "SB" ELSE IF b \in Verbs THEN "VERB" ELSE "DATA"
    [] s = "VERB"   -> "DATA"
    [] s = "SB"     -> IF b = "IAC" THEN "SB_IAC" ELSE "SB"
    [] s = "SB_IAC" -> IF b = "IAC" THEN "SB" ELSE "DATA"
Emits(s, b) == IF (s = "DATA" /\ b # "IAC") \/ (s = "IAC" /\ b = "IAC") THEN <<b>> ELSE <<>>

\* The parser's states along n bytes, and what is left for the line after each.
Passes(s, w, bytes, n) ==
  /\ s \in [0 .. n -> States] /\ w \in [0 .. n -> Seq(Byte)] /\ w[n] = <<>>
  /\ \A i \in 0 .. n - 1 : s[i + 1] = Goes(s[i], bytes[i + 1]) /\ w[i] = Emits(s[i], bytes[i + 1]) \o w[i + 1]

\* From s0 the parser reads data in the bytes, and is in s1 after them.
Reads(s0, bytes, data, s1) ==
  \E s, w : Passes(s, w, bytes, Len(bytes)) /\ s[0] = s0 /\ s[Len(bytes)] = s1 /\ w[0] = data

LEMMA GoesOn ==
  ASSUME NEW s \in States, NEW b \in Byte
  PROVE  Goes(s, b) \in States /\ Emits(s, b) \in Seq(Byte)
<1>1. Goes(s, b) \in States
  BY DEF Goes, States
<1>2. <<b>> \in Seq(Byte) /\ <<>> \in Seq(Byte)
  BY One
<1> QED BY <1>1, <1>2 DEF Emits

LEMMA ReadsEmpty ==
  ASSUME NEW s0 \in States
  PROVE  Reads(s0, <<>>, <<>>, s0)
<1> DEFINE s == [i \in 0 .. 0 |-> s0]
           w == [i \in 0 .. 0 |-> <<>>]
<1>1. s \in [0 .. 0 -> States] /\ s[0] = s0
  OBVIOUS
<1>2. w \in [0 .. 0 -> Seq(Byte)] /\ w[0] = <<>>
  BY <<>> \in Seq(Byte)
<1> HIDE DEF s, w
<1>3. Passes(s, w, <<>>, 0)
  BY <1>1, <1>2 DEF Passes
<1> QED BY <1>1, <1>2, <1>3, Len(<<>>) = 0 DEF Reads

LEMMA ReadsOne ==
  ASSUME NEW s0 \in States, NEW b \in Byte
  PROVE  Reads(s0, <<b>>, Emits(s0, b), Goes(s0, b))
<1> DEFINE s1 == Goes(s0, b)
           e == Emits(s0, b)
           s == [i \in 0 .. 1 |-> IF i = 0 THEN s0 ELSE s1]
           w == [i \in 0 .. 1 |-> IF i = 0 THEN e ELSE <<>>]
<1>0. s1 \in States /\ e \in Seq(Byte) /\ s1 = Goes(s0, b) /\ e = Emits(s0, b) /\ e \o <<>> = e
  BY GoesOn
<1> HIDE DEF s1, e
<1>1. s \in [0 .. 1 -> States] /\ s[0] = s0 /\ s[1] = s1
  BY <1>0
<1>2. w \in [0 .. 1 -> Seq(Byte)] /\ w[0] = e /\ w[1] = <<>>
  BY <1>0, <<>> \in Seq(Byte)
<1> HIDE DEF s, w
<1>3. ASSUME NEW i \in 0 .. 0
      PROVE  s[i + 1] = Goes(s[i], <<b>>[i + 1]) /\ w[i] = Emits(s[i], <<b>>[i + 1]) \o w[i + 1]
  <2>1. i = 0 /\ i + 1 = 1 /\ <<b>>[1] = b
    BY One
  <2> QED BY <1>0, <1>1, <1>2, <2>1
<1>4. Passes(s, w, <<b>>, 1)
  BY <1>1, <1>2, <1>3, 1 - 1 = 0 DEF Passes
<1>5. Len(<<b>>) = 1
  BY One
<1> QED BY <1>0, <1>1, <1>2, <1>4, <1>5 DEF Reads, s1, e

\* What is read in two writes in a row.
LEMMA ReadsJoin ==
  ASSUME NEW a \in Seq(Byte), NEW b \in Seq(Byte), NEW x, NEW y, NEW s0, NEW s1, NEW s2,
         Reads(s0, a, x, s1), Reads(s1, b, y, s2)
  PROVE  Reads(s0, a \o b, x \o y, s2)
<1> DEFINE c == a \o b
           m == Len(a)
           n == Len(b)
<1>0. c \in Seq(Byte) /\ Len(c) = m + n /\ m \in Nat /\ n \in Nat
  BY Glued
<1>1. \A i \in 1 .. m : c[i] = a[i]
  BY Glued
<1>2. \A i \in 1 .. n : c[m + i] = b[i]
  BY Glued
<1>3. PICK s, w : Passes(s, w, a, m) /\ s[0] = s0 /\ s[m] = s1 /\ w[0] = x
  BY DEF Reads
<1>4. PICK t, v : Passes(t, v, b, n) /\ t[0] = s1 /\ t[n] = s2 /\ v[0] = y
  BY DEF Reads
<1> HIDE DEF c, m, n
<1> DEFINE st == [i \in 0 .. m + n |-> IF i <= m THEN s[i] ELSE t[i - m]]
           wt == [i \in 0 .. m + n |-> IF i <= m THEN w[i] \o y ELSE v[i - m]]
<1>5. /\ s \in [0 .. m -> States] /\ w \in [0 .. m -> Seq(Byte)] /\ w[m] = <<>>
      /\ t \in [0 .. n -> States] /\ v \in [0 .. n -> Seq(Byte)] /\ v[n] = <<>>
  BY <1>3, <1>4 DEF Passes
<1>6. \A i \in 0 .. m - 1 : s[i + 1] = Goes(s[i], a[i + 1]) /\ w[i] = Emits(s[i], a[i + 1]) \o w[i + 1]
  BY <1>3 DEF Passes
<1>7. \A i \in 0 .. n - 1 : t[i + 1] = Goes(t[i], b[i + 1]) /\ v[i] = Emits(t[i], b[i + 1]) \o v[i + 1]
  BY <1>4 DEF Passes
<1>8. y \in Seq(Byte) /\ \A i \in 0 .. m : w[i] \in Seq(Byte) /\ w[i] \o y \in Seq(Byte)
  BY <1>0, <1>4, <1>5
<1>9. st \in [0 .. m + n -> States] /\ wt \in [0 .. m + n -> Seq(Byte)]
  <2>1. \A i \in 0 .. m + n : i <= m => i \in 0 .. m
    BY <1>0
  <2>2. \A i \in 0 .. m + n : ~(i <= m) => i - m \in 0 .. n
    BY <1>0
  <2>3. \A i \in 0 .. m + n : (IF i <= m THEN s[i] ELSE t[i - m]) \in States
    BY <1>5, <2>1, <2>2
  <2>4. \A i \in 0 .. m + n : (IF i <= m THEN w[i] \o y ELSE v[i - m]) \in Seq(Byte)
    BY <1>5, <1>8, <2>1, <2>2
  <2> QED BY <2>3, <2>4
<1>10. \A i \in 0 .. m : st[i] = s[i] /\ wt[i] = w[i] \o y
  BY <1>0
<1>11. \A i \in 0 .. n : st[m + i] = t[i] /\ wt[m + i] = v[i]
  <2> SUFFICES ASSUME NEW i \in 0 .. n PROVE st[m + i] = t[i] /\ wt[m + i] = v[i]
    OBVIOUS
  <2>1. CASE i = 0
    <3>1. m + i = m /\ m \in 0 .. m /\ <<>> \o y = y
      BY <1>0, <1>8, <2>1
    <3> QED BY <1>3, <1>4, <1>5, <1>10, <2>1, <3>1
  <2>2. CASE i # 0
    <3>1. m + i \in 0 .. m + n /\ ~(m + i <= m) /\ (m + i) - m = i
      BY <1>0, <2>2
    <3> QED BY <3>1
  <2> QED BY <2>1, <2>2
<1> HIDE DEF st, wt
<1>12. ASSUME NEW i \in 0 .. (m + n) - 1
       PROVE  st[i + 1] = Goes(st[i], c[i + 1]) /\ wt[i] = Emits(st[i], c[i + 1]) \o wt[i + 1]
  <2>1. CASE i < m
    <3>1. i \in 0 .. m - 1 /\ i \in 0 .. m /\ i + 1 \in 0 .. m /\ i + 1 \in 1 .. m
      BY <1>0, <2>1
    <3> DEFINE e == Emits(s[i], a[i + 1])
    <3>2. e \in Seq(Byte)
      <4>1. a[i + 1] \in Byte
        BY <3>1 DEF m
      <4>2. s[i] \in States
        BY <1>5, <3>1
      <4> QED BY <4>1, <4>2, GoesOn
    <3>3. w[i] = e \o w[i + 1] /\ w[i + 1] \in Seq(Byte)
      BY <1>6, <1>8, <3>1
    <3>4. st[i + 1] = s[i + 1] /\ st[i] = s[i] /\ wt[i] = w[i] \o y /\ wt[i + 1] = w[i + 1] \o y
      BY <1>10, <3>1
    <3>5. c[i + 1] = a[i + 1] /\ s[i + 1] = Goes(s[i], a[i + 1])
      BY <1>1, <1>6, <3>1
    <3> HIDE DEF e
    <3>6. (e \o w[i + 1]) \o y = e \o (w[i + 1] \o y)
      <4>1. y \in Seq(Byte) /\ w[i + 1] \in Seq(Byte)
        BY <1>8, <3>3
      <4>2. \A r \in Seq(Byte) : (e \o r) \o y = e \o (r \o y)
        BY <3>2, <4>1, Regroup, Zenon
      <4> QED BY <4>1, <4>2
    <3> QED BY <3>3, <3>4, <3>5, <3>6 DEF e
  <2>2. CASE ~(i < m)
    <3>1. PICK j \in 0 .. n - 1 : i = m + j
      BY <1>0, <2>2, i - m \in 0 .. n - 1, i = m + (i - m)
    <3>2. i + 1 = m + (j + 1) /\ j \in 0 .. n /\ j + 1 \in 0 .. n /\ j + 1 \in 1 .. n
      BY <1>0, <3>1
    <3>3. st[i + 1] = t[j + 1] /\ st[i] = t[j] /\ wt[i] = v[j] /\ wt[i + 1] = v[j + 1]
      BY <1>11, <3>1, <3>2
    <3>4. c[i + 1] = b[j + 1]
      BY <1>2, <3>2
    <3> QED BY <1>7, <3>1, <3>3, <3>4
  <2> QED BY <2>1, <2>2
<1>13. st[0] = s0 /\ wt[0] = x \o y
  BY <1>0, <1>3, <1>10, 0 \in 0 .. m
<1>14. st[m + n] = s2 /\ wt[m + n] = <<>>
  BY <1>0, <1>4, <1>5, <1>11, n \in 0 .. n
<1>15. Passes(st, wt, c, m + n)
  BY <1>9, <1>12, <1>14 DEF Passes
<1> QED BY <1>0, <1>13, <1>14, <1>15 DEF Reads, c

\* The next byte: what it gives the line comes first in what is read.
LEMMA ReadsStep ==
  ASSUME NEW s0, NEW bytes \in Seq(Byte), bytes # <<>>, NEW data, NEW s1, Reads(s0, bytes, data, s1)
  PROVE  /\ s0 \in States
         /\ \E rest \in Seq(Byte) :
              data = Emits(s0, Head(bytes)) \o rest /\ Reads(Goes(s0, Head(bytes)), Tail(bytes), rest, s1)
<1> DEFINE n == Len(bytes)
           c == Tail(bytes)
           b == Head(bytes)
<1>0. n \in Nat /\ n # 0
  OBVIOUS
<1>1. c \in Seq(Byte) /\ Len(c) = n - 1 /\ \A i \in 1 .. n - 1 : c[i] = bytes[i + 1]
  OBVIOUS
<1>2. b = bytes[1]
  OBVIOUS
<1> HIDE DEF n, c, b
<1>3. PICK s, w : Passes(s, w, bytes, n) /\ s[0] = s0 /\ s[n] = s1 /\ w[0] = data
  BY DEF Reads, n
<1>4. s \in [0 .. n -> States] /\ w \in [0 .. n -> Seq(Byte)] /\ w[n] = <<>>
  BY <1>3 DEF Passes
<1>5. \A i \in 0 .. n - 1 : s[i + 1] = Goes(s[i], bytes[i + 1]) /\ w[i] = Emits(s[i], bytes[i + 1]) \o w[i + 1]
  BY <1>3 DEF Passes
<1>6. s0 \in States /\ w[1] \in Seq(Byte)
  BY <1>0, <1>3, <1>4
<1>7. s[1] = Goes(s0, b) /\ data = Emits(s0, b) \o w[1]
  BY <1>0, <1>2, <1>3, <1>5, 0 \in 0 .. n - 1, 0 + 1 = 1
<1> DEFINE t == [i \in 0 .. n - 1 |-> s[i + 1]]
           v == [i \in 0 .. n - 1 |-> w[i + 1]]
<1>8. t \in [0 .. n - 1 -> States] /\ v \in [0 .. n - 1 -> Seq(Byte)]
  BY <1>0, <1>4
<1>9. t[0] = s[1] /\ v[0] = w[1] /\ t[n - 1] = s[n] /\ v[n - 1] = w[n]
  BY <1>0, 0 \in 0 .. n - 1, n - 1 \in 0 .. n - 1, (n - 1) + 1 = n, 0 + 1 = 1
<1>10. ASSUME NEW i \in 0 .. (n - 1) - 1
       PROVE  t[i + 1] = Goes(t[i], c[i + 1]) /\ v[i] = Emits(t[i], c[i + 1]) \o v[i + 1]
  <2>1. i \in 0 .. n - 1 /\ i + 1 \in 0 .. n - 1 /\ i + 1 \in 1 .. n - 1
    BY <1>0
  <2>2. t[i + 1] = s[(i + 1) + 1] /\ t[i] = s[i + 1] /\ v[i] = w[i + 1] /\ v[i + 1] = w[(i + 1) + 1]
    BY <2>1
  <2>3. c[i + 1] = bytes[(i + 1) + 1]
    BY <1>1, <2>1
  <2> HIDE DEF t, v
  <2> QED BY <1>5, <2>1, <2>2, <2>3
<1> HIDE DEF t, v
<1>11. Passes(t, v, c, n - 1)
  BY <1>4, <1>8, <1>9, <1>10 DEF Passes
<1>12. Reads(Goes(s0, b), c, w[1], s1)
  BY <1>1, <1>3, <1>7, <1>9, <1>11 DEF Reads
<1> QED BY <1>6, <1>7, <1>12 DEF b, c

\* When no byte is left nothing is.
LEMMA ReadsNothing ==
  ASSUME NEW s0, NEW data, NEW s1, Reads(s0, <<>>, data, s1)
  PROVE  data = <<>> /\ s0 = s1
  BY Len(<<>>) = 0 DEF Reads, Passes

LEMMA Written ==
  ASSUME NEW a \in Byte, NEW b \in Byte, NEW c \in Byte
  PROVE  /\ <<a>> \o <<b>> = <<a, b>> /\ <<a, b>> \o <<c>> = <<a, b, c>>
         /\ <<a, b, c>> \in Seq(Byte)
<1>1. <<a>> \in Seq(Byte) /\ <<b>> \in Seq(Byte) /\ <<c>> \in Seq(Byte)
  BY One
<1>2. <<a, b>> \in Seq(Byte) /\ <<a, b, c>> \in Seq(Byte)
  OBVIOUS
<1>5. ASSUME NEW s \in Seq(Byte), NEW t \in Seq(Byte), Len(s) = 2, Len(t) = 2, s[1] = t[1], s[2] = t[2]
      PROVE  s = t
  BY <1>5, SeqEqual, \A i \in 1 .. 2 : i = 1 \/ i = 2
<1>6. ASSUME NEW s \in Seq(Byte), NEW t \in Seq(Byte), Len(s) = 3, Len(t) = 3,
             s[1] = t[1], s[2] = t[2], s[3] = t[3]
      PROVE  s = t
  BY <1>6, SeqEqual, \A i \in 1 .. 3 : i = 1 \/ i = 2 \/ i = 3
<1>3. <<a>> \o <<b>> = <<a, b>>
  <2>1. <<a>> \o <<b>> \in Seq(Byte) /\ Len(<<a>> \o <<b>>) = 2
    BY <1>1, Glued, One
  <2>2. (<<a>> \o <<b>>)[1] = a /\ (<<a>> \o <<b>>)[2] = b
    OBVIOUS
  <2>3. Len(<<a, b>>) = 2 /\ <<a, b>>[1] = a /\ <<a, b>>[2] = b
    OBVIOUS
  <2> QED BY <1>2, <1>5, <2>1, <2>2, <2>3
<1>4. <<a, b>> \o <<c>> = <<a, b, c>>
  <2>1. <<a, b>> \o <<c>> \in Seq(Byte) /\ Len(<<a, b>> \o <<c>>) = 3
    BY <1>1, <1>2, Glued, One, Two
  <2>2. (<<a, b>> \o <<c>>)[1] = a /\ (<<a, b>> \o <<c>>)[2] = b /\ (<<a, b>> \o <<c>>)[3] = c
    OBVIOUS
  <2>3. Len(<<a, b, c>>) = 3 /\ <<a, b, c>>[1] = a /\ <<a, b, c>>[2] = b /\ <<a, b, c>>[3] = c
    OBVIOUS
  <2> QED BY <1>2, <1>6, <2>1, <2>2, <2>3
<1> QED BY <1>2, <1>3, <1>4

\* Two bytes in a row.
LEMMA ReadsTwo ==
  ASSUME NEW s0 \in States, NEW b \in Byte, NEW c \in Byte
  PROVE  Reads(s0, <<b, c>>, Emits(s0, b) \o Emits(Goes(s0, b), c), Goes(Goes(s0, b), c))
<1>1. Goes(s0, b) \in States
  BY GoesOn
<1>2. Reads(s0, <<b>>, Emits(s0, b), Goes(s0, b))
  BY ReadsOne
<1>3. Reads(Goes(s0, b), <<c>>, Emits(Goes(s0, b), c), Goes(Goes(s0, b), c))
  BY <1>1, ReadsOne
<1>4. <<b>> \in Seq(Byte) /\ <<c>> \in Seq(Byte) /\ <<b>> \o <<c>> = <<b, c>>
  BY One, Written
<1> QED BY <1>2, <1>3, <1>4, ReadsJoin

\* An escaped byte: data where data is read, nothing inside a subnegotiation.
LEMMA ReadsEscape ==
  ASSUME NEW b \in Byte
  PROVE  Reads("DATA", Escape(b), <<b>>, "DATA") /\ Reads("SB", Escape(b), <<>>, "SB")
<1>0. "DATA" \in States /\ "SB" \in States /\ "IAC" \in Byte
  BY NamedBytes DEF Named, States
<1>1. CASE b # "IAC"
  <2>1. Escape(b) = <<b>> /\ Emits("DATA", b) = <<b>> /\ Goes("DATA", b) = "DATA"
        /\ Emits("SB", b) = <<>> /\ Goes("SB", b) = "SB"
    BY <1>1 DEF Escape, Emits, Goes
  <2>2. Reads("DATA", <<b>>, Emits("DATA", b), Goes("DATA", b)) /\ Reads("SB", <<b>>, Emits("SB", b), Goes("SB", b))
    BY <1>0, ReadsOne
  <2> QED BY <2>1, <2>2
<1>2. CASE b = "IAC"
  <2>1. /\ Emits("DATA", b) = <<>> /\ Goes("DATA", b) = "IAC" /\ Emits("IAC", b) = <<b>> /\ Goes("IAC", b) = "DATA"
        /\ Emits("SB", b) = <<>> /\ Goes("SB", b) = "SB_IAC" /\ Emits("SB_IAC", b) = <<>> /\ Goes("SB_IAC", b) = "SB"
        /\ Escape(b) = <<b, b>>
    BY <1>2 DEF Escape, Emits, Goes, Verbs
  <2>2. Reads("DATA", <<b, b>>, <<>> \o <<b>>, "DATA")
    BY <1>0, <2>1, ReadsTwo
  <2>3. Reads("SB", <<b, b>>, <<>> \o <<>>, "SB")
    BY <1>0, <2>1, ReadsTwo
  <2>4. <<>> \o <<b>> = <<b>>
    OBVIOUS
  <2> QED BY <2>1, <2>2, <2>3, <2>4, NoData
<1> QED BY <1>1, <1>2

\* The payload of a subnegotiation.
LEMMA ReadsPayload ==
  ASSUME NEW p \in Seq(Byte)
  PROVE  Doubled(p) \in Seq(Byte) /\ Reads("SB", Doubled(p), <<>>, "SB")
<1> DEFINE D(j) == Doubled(SubSeq(p, 1, j))
           G == {j \in Nat : j <= Len(p) => D(j) \in Seq(Byte) /\ Reads("SB", D(j), <<>>, "SB")}
<1>1. 0 \in G
  <2>1. D(0) = <<>>
    BY PrefixEnds, DoubledEmpty
  <2>2. Reads("SB", <<>>, <<>>, "SB")
    BY ReadsEmpty DEF States
  <2> QED BY <2>1, <2>2, <<>> \in Seq(Byte)
<1>2. ASSUME NEW j \in Nat, j \in G PROVE j + 1 \in G
  <2> SUFFICES ASSUME j + 1 <= Len(p) PROVE D(j + 1) \in Seq(Byte) /\ Reads("SB", D(j + 1), <<>>, "SB")
    OBVIOUS
  <2>1. j \in 0 .. Len(p) - 1 /\ D(j) \in Seq(Byte) /\ Reads("SB", D(j), <<>>, "SB")
    BY <1>2
  <2>2. p[j + 1] \in Byte /\ D(j + 1) = D(j) \o Escape(p[j + 1])
    BY <2>1, PrefixStep, DoubledAppend
  <2>3. Reads("SB", Escape(p[j + 1]), <<>>, "SB") /\ Escape(p[j + 1]) \in Seq(Byte)
    BY <2>2, ReadsEscape, EscapeBytes
  <2> HIDE DEF D
  <2>4. Reads("SB", D(j) \o Escape(p[j + 1]), <<>> \o <<>>, "SB")
    BY <2>1, <2>3, ReadsJoin
  <2>5. D(j) \o Escape(p[j + 1]) \in Seq(Byte)
    BY <2>1, <2>3, Glued
  <2> QED BY <2>2, <2>4, <2>5, NoData
<1> HIDE DEF G
<1>3. \A j \in Nat : j \in G
  BY <1>1, <1>2, Climb
<1>4. Len(p) \in G /\ Len(p) \in Nat
  BY <1>3
<1>5. D(Len(p)) = Doubled(p)
  BY PrefixEnds
<1> HIDE DEF D
<1> QED BY <1>4, <1>5 DEF G

\* A unit of the client, read from its first byte to its last.
LEMMA ReadsUnit ==
  ASSUME NEW u \in Units
  PROVE  Telnet(u) \in Seq(Byte) /\ Meaning(u) \in Seq(Byte) /\ Reads("DATA", Telnet(u), Meaning(u), "DATA")
<1>0. "IAC" \in Byte /\ "SB" \in Byte /\ "SE" \in Byte /\ Verbs \subseteq Byte /\ "data" \notin Verbs /\ "SB" \notin Verbs
  BY NamedBytes DEF Named, Verbs
<1>s. "DATA" \in States /\ "SB" \in States /\ "IAC" \in States /\ "VERB" \in States
  BY DEF States
<1>1. CASE u \in {"data"} \X Byte
  <2>1. u[1] = "data" /\ u[2] \in Byte
    BY <1>1
  <2>2. Telnet(u) = Escape(u[2]) /\ Meaning(u) = <<u[2]>>
    BY <1>0, <2>1 DEF Telnet, Meaning
  <2> QED BY <2>1, <2>2, ReadsEscape, EscapeBytes, One
<1>2. CASE u \in Verbs \X Byte
  <2>1. u[1] \in Verbs /\ u[2] \in Byte /\ u[1] # "data" /\ u[1] # "SB" /\ u[1] # "IAC"
    BY <1>2 DEF Verbs
  <2>2. Telnet(u) = <<"IAC", u[1], u[2]>> /\ Meaning(u) = <<>>
    BY <2>1 DEF Telnet, Meaning
  <2>3. /\ Emits("DATA", "IAC") = <<>> /\ Goes("DATA", "IAC") = "IAC"
        /\ Emits("IAC", u[1]) = <<>> /\ Goes("IAC", u[1]) = "VERB"
        /\ Emits("VERB", u[2]) = <<>> /\ Goes("VERB", u[2]) = "DATA"
    BY <2>1 DEF Emits, Goes
  <2>4. Reads("DATA", <<"IAC", u[1]>>, <<>> \o <<>>, "VERB")
    BY <1>0, <1>s, <2>1, <2>3, ReadsTwo
  <2>5. Reads("VERB", <<u[2]>>, <<>>, "DATA")
    BY <1>s, <2>1, <2>3, ReadsOne
  <2>6. u[1] \in Byte /\ <<"IAC", u[1]>> \in Seq(Byte) /\ <<u[2]>> \in Seq(Byte)
    BY <1>0, <2>1, One, Two
  <2>7. Reads("DATA", <<"IAC", u[1]>> \o <<u[2]>>, <<>> \o <<>>, "DATA")
    BY <2>4, <2>5, <2>6, ReadsJoin, NoData
  <2>8. ASSUME NEW v \in Byte, NEW o \in Byte PROVE <<"IAC", v>> \o <<o>> = <<"IAC", v, o>> /\ <<"IAC", v, o>> \in Seq(Byte)
    BY <1>0, Written, Zenon
  <2> QED BY <2>1, <2>2, <2>6, <2>7, <2>8, NoData, <<>> \in Seq(Byte)
<1>3. CASE u \in {"SB"} \X Seq(Byte)
  <2>1. u[1] = "SB" /\ u[2] \in Seq(Byte)
    BY <1>3
  <2>2. Telnet(u) = <<"IAC", "SB">> \o Doubled(u[2]) \o <<"IAC", "SE">> /\ Meaning(u) = <<>>
    BY <1>0, <2>1 DEF Telnet, Meaning
  <2>3. /\ Emits("DATA", "IAC") = <<>> /\ Goes("DATA", "IAC") = "IAC"
        /\ Emits("IAC", "SB") = <<>> /\ Goes("IAC", "SB") = "SB"
        /\ Emits("SB", "IAC") = <<>> /\ Goes("SB", "IAC") = "SB_IAC"
        /\ Emits("SB_IAC", "SE") = <<>> /\ Goes("SB_IAC", "SE") = "DATA"
    BY DEF Emits, Goes
  <2>4. Reads("DATA", <<"IAC", "SB">>, <<>> \o <<>>, "SB")
    BY <1>0, <1>s, <2>3, ReadsTwo
  <2>5. Reads("SB", <<"IAC", "SE">>, <<>> \o <<>>, "DATA")
    BY <1>0, <1>s, <2>3, ReadsTwo
  <2>6. Reads("SB", Doubled(u[2]), <<>>, "SB") /\ Doubled(u[2]) \in Seq(Byte)
    BY <2>1, ReadsPayload
  <2>7. <<"IAC", "SB">> \in Seq(Byte) /\ <<"IAC", "SE">> \in Seq(Byte)
    BY <1>0, Two
  <2>8. Reads("DATA", <<"IAC", "SB">> \o Doubled(u[2]), <<>> \o <<>>, "SB")
    BY <2>4, <2>6, <2>7, ReadsJoin, NoData
  <2>9. <<"IAC", "SB">> \o Doubled(u[2]) \in Seq(Byte)
    BY <2>6, <2>7, Glued
  <2>10. Reads("DATA", (<<"IAC", "SB">> \o Doubled(u[2])) \o <<"IAC", "SE">>, <<>> \o <<>>, "DATA")
    BY <2>5, <2>7, <2>8, <2>9, ReadsJoin, NoData
  <2>11. (<<"IAC", "SB">> \o Doubled(u[2])) \o <<"IAC", "SE">> \in Seq(Byte)
    BY <2>7, <2>9, Glued
  <2> QED BY <2>2, <2>10, <2>11, NoData, <<>> \in Seq(Byte)
<1> QED BY <1>1, <1>2, <1>3 DEF Units

\* What a client sends, and the data it means.
Sent(q) == FlattenSeq([i \in DOMAIN q |-> Telnet(q[i])])
Meant(q) == FlattenSeq([i \in DOMAIN q |-> Meaning(q[i])])

LEMMA ScriptStep ==
  ASSUME NEW q \in Seq(Units), NEW u \in Units
  PROVE  /\ Sent(q) \in Seq(Byte) /\ Sent(Append(q, u)) = Sent(q) \o Telnet(u)
         /\ Meant(q) \in Seq(Byte) /\ Meant(Append(q, u)) = Meant(q) \o Meaning(u)
<1> DEFINE F == [v \in Units |-> Telnet(v)]
           H == [v \in Units |-> Meaning(v)]
           r == Append(q, u)
<1>1. F \in [Units -> Seq(Byte)] /\ F[u] = Telnet(u) /\ H \in [Units -> Seq(Byte)] /\ H[u] = Meaning(u)
  BY ReadsUnit
<1>2. ASSUME NEW p \in Seq(Units) PROVE Sent(p) = Spelled(F, p) /\ Meant(p) = Spelled(H, p)
  <2>1. \A i \in DOMAIN p : p[i] \in Units
    OBVIOUS
  <2>2. [i \in DOMAIN p |-> F[p[i]]] = [i \in DOMAIN p |-> Telnet(p[i])]
    BY <2>1
  <2>3. [i \in DOMAIN p |-> H[p[i]]] = [i \in DOMAIN p |-> Meaning(p[i])]
    BY <2>1
  <2> QED BY <2>2, <2>3 DEF Sent, Meant, Spelled
<1>3. r \in Seq(Units)
  OBVIOUS
<1> HIDE DEF F, H
<1>4. Grows(F, q, u, Byte)
  BY <1>1, SpelledAppend
<1>5. Grows(H, q, u, Byte)
  BY <1>1, SpelledAppend
<1> HIDE DEF r
<1>6. Sent(q) = Spelled(F, q) /\ Sent(r) = Spelled(F, r) /\ Meant(q) = Spelled(H, q) /\ Meant(r) = Spelled(H, r)
  BY <1>2, <1>3
<1> QED BY <1>1, <1>4, <1>5, <1>6 DEF Grows, r

LEMMA ReadsScript ==
  ASSUME NEW p \in Seq(Units)
  PROVE  Sent(p) \in Seq(Byte) /\ Meant(p) \in Seq(Byte) /\ Reads("DATA", Sent(p), Meant(p), "DATA")
<1> DEFINE P(q) == Sent(q) \in Seq(Byte) /\ Meant(q) \in Seq(Byte) /\ Reads("DATA", Sent(q), Meant(q), "DATA")
           G == {j \in Nat : j <= Len(p) => P(SubSeq(p, 1, j))}
<1>1. 0 \in G
  <2>1. Sent(<<>>) = <<>> /\ Meant(<<>>) = <<>>
    <3>1. [i \in DOMAIN <<>> |-> Telnet((<<>>)[i])] = <<>> /\ [i \in DOMAIN <<>> |-> Meaning((<<>>)[i])] = <<>>
      OBVIOUS
    <3> QED BY <3>1, FlattenEmpty DEF Sent, Meant
  <2>2. Reads("DATA", <<>>, <<>>, "DATA")
    BY ReadsEmpty DEF States
  <2>3. P(<<>>)
    BY <2>1, <2>2, <<>> \in Seq(Byte)
  <2> HIDE DEF P
  <2> QED BY <2>3, PrefixEnds
<1>2. ASSUME NEW j \in Nat, j \in G PROVE j + 1 \in G
  <2> SUFFICES ASSUME j + 1 <= Len(p) PROVE P(SubSeq(p, 1, j + 1))
    OBVIOUS
  <2>1. j \in 0 .. Len(p) - 1 /\ P(SubSeq(p, 1, j))
    BY <1>2
  <2>2. PICK q, u : q = SubSeq(p, 1, j) /\ u = p[j + 1]
    OBVIOUS
  <2>3. q \in Seq(Units) /\ u \in Units /\ SubSeq(p, 1, j + 1) = Append(q, u)
    BY <2>1, <2>2, PrefixStep
  <2>4. P(q)
    BY <2>1, <2>2
  <2>5. Sent(Append(q, u)) = Sent(q) \o Telnet(u) /\ Meant(Append(q, u)) = Meant(q) \o Meaning(u)
    BY <2>3, ScriptStep
  <2>6. Telnet(u) \in Seq(Byte) /\ Meaning(u) \in Seq(Byte) /\ Reads("DATA", Telnet(u), Meaning(u), "DATA")
    BY <2>3, ReadsUnit
  <2>7. Reads("DATA", Sent(q) \o Telnet(u), Meant(q) \o Meaning(u), "DATA")
    BY <2>4, <2>6, ReadsJoin
  <2>8. Sent(q) \o Telnet(u) \in Seq(Byte) /\ Meant(q) \o Meaning(u) \in Seq(Byte)
    BY <2>4, <2>6, Glued
  <2>9. P(Append(q, u))
    BY <2>5, <2>7, <2>8
  <2> HIDE DEF P
  <2> QED BY <2>3, <2>9
<1> HIDE DEF G, P
<1>3. \A j \in Nat : j \in G
  BY <1>1, <1>2, Climb
<1>4. Len(p) \in G /\ Len(p) \in Nat
  BY <1>3
<1>5. P(SubSeq(p, 1, Len(p)))
  BY <1>4 DEF G
<1>6. P(p)
  BY <1>5, PrefixEnds
<1> QED BY <1>6 DEF P

(***************************************************************************)
(* A telnet client as a reader of bytes.                                   *)
(***************************************************************************)
\* u is q and then r.
Joined(u, q, r) ==
  /\ u \in Seq(Byte) /\ Len(u) = Len(q) + Len(r) /\ Len(q) \in Nat /\ Len(r) \in Nat
  /\ \A i \in 1 .. Len(q) : u[i] = q[i]
  /\ \A i \in 1 .. Len(r) : u[Len(q) + i] = r[i]

LEMMA JoinIs ==
  ASSUME NEW q \in Seq(Byte), NEW r \in Seq(Byte), NEW u, u = q \o r
  PROVE  Joined(u, q, r)
  BY Glued DEF Joined

\* f reads on from every place of d, which goes to nxt from there.
Parses(f, d, nxt, m, n) ==
  /\ f = [i \in m .. n + 1 |-> f[i]] /\ f[n + 1] = <<>>
  /\ \A i \in m .. n : f[i] = d[i] \o f[nxt[i]]

LEMMA ParseExists ==
  ASSUME NEW n \in Nat, NEW d, NEW nxt, \A i \in 1 .. n : nxt[i] \in i + 1 .. n + 1
  PROVE  \E f : Parses(f, d, nxt, 1, n)
<1> DEFINE G == {k \in Nat : k <= n => \E f : Parses(f, d, nxt, (n + 1) - k, n)}
<1>1. 0 \in G
  <2> DEFINE g == [i \in n + 1 .. n + 1 |-> <<>>]
  <2>1. g = [i \in n + 1 .. n + 1 |-> g[i]] /\ g[n + 1] = <<>>
    OBVIOUS
  <2> HIDE DEF g
  <2>2. Parses(g, d, nxt, n + 1, n)
    BY <2>1, \A i \in n + 1 .. n : FALSE DEF Parses
  <2> QED BY <2>2, (n + 1) - 0 = n + 1
<1>2. ASSUME NEW k \in Nat, k \in G PROVE k + 1 \in G
  <2> SUFFICES ASSUME k + 1 <= n PROVE \E g : Parses(g, d, nxt, (n + 1) - (k + 1), n)
    OBVIOUS
  <2>1. PICK f : Parses(f, d, nxt, (n + 1) - k, n)
    BY <1>2
  <2> DEFINE m == n - k
             e == d[m] \o f[nxt[m]]
             g == [i \in m .. n + 1 |-> IF i = m THEN e ELSE f[i]]
  <2>2. m \in 1 .. n /\ (n + 1) - k = m + 1 /\ (n + 1) - (k + 1) = m
    OBVIOUS
  <2> HIDE DEF m
  <2>3. f[n + 1] = <<>> /\ \A i \in m + 1 .. n : f[i] = d[i] \o f[nxt[i]]
    BY <2>1, <2>2 DEF Parses
  <2>a. e = d[m] \o f[nxt[m]]
    OBVIOUS
  <2> HIDE DEF e
  <2>4. g[m] = e /\ \A i \in m + 1 .. n + 1 : g[i] = f[i]
    BY <2>2
  <2>5. g = [i \in m .. n + 1 |-> g[i]]
    OBVIOUS
  <2> HIDE DEF g
  <2>6. ASSUME NEW i \in m .. n PROVE g[i] = d[i] \o g[nxt[i]]
    <3>1. nxt[i] \in i + 1 .. n + 1 /\ nxt[i] \in m + 1 .. n + 1
      BY <2>2
    <3>2. g[nxt[i]] = f[nxt[i]]
      BY <2>4, <3>1
    <3>3. CASE i = m
      BY <2>a, <2>4, <3>2, <3>3
    <3>4. CASE i # m
      <4>1. i \in m + 1 .. n /\ i \in m + 1 .. n + 1
        BY <2>2, <3>4
      <4> QED BY <2>3, <2>4, <3>2, <4>1
    <3> QED BY <3>3, <3>4
  <2>7. g[n + 1] = <<>>
    BY <2>2, <2>3, <2>4, n + 1 \in m + 1 .. n + 1
  <2>8. Parses(g, d, nxt, m, n)
    BY <2>5, <2>6, <2>7 DEF Parses
  <2> QED BY <2>2, <2>8
<1> HIDE DEF G
<1>3. n \in G
  BY <1>1, <1>2, Climb
<1> QED BY <1>3, (n + 1) - n = 1 DEF G

\* The next unit starts later, and at most one past the end.
LEMMA UnitMoves ==
  ASSUME NEW bytes \in Seq(Byte), NEW i \in 1 .. Len(bytes)
  PROVE  Unit(bytes, i)[2] \in i + 1 .. Len(bytes) + 1
<1> DEFINE n == Len(bytes)
           ends == {k \in i + 2 .. n - 1 :
                      /\ bytes[k] = "IAC" /\ bytes[k + 1] = "SE"
                      /\ \E m \in i + 1 .. k - 1 :
                           /\ bytes[m] # "IAC" /\ (k - m) % 2 = 1
                           /\ \A j \in m + 1 .. k - 1 : bytes[j] = "IAC"}
           last == CHOOSE k \in ends : \A j \in ends : k <= j
           U == Unit(bytes, i)
<1>1. \/ U = <<<<bytes[i]>>, i + 1>>
      \/ i < n /\ U = <<<<"IAC">>, i + 2>>
      \/ i + 1 < n /\ U = <<<<>>, i + 3>>
      \/ ends # {} /\ U = <<<<>>, last + 2>>
      \/ U = <<<<"?">>, n + 1>>
  <2>1. CASE bytes[i] # "IAC"
    BY <2>1 DEF Unit
  <2>2. CASE bytes[i] = "IAC" /\ i < n /\ bytes[i + 1] = "IAC"
    BY <2>2 DEF Unit, Verbs
  <2>3. CASE bytes[i] = "IAC" /\ i < n /\ bytes[i + 1] \in Verbs /\ bytes[i + 1] # "IAC" /\ bytes[i + 1] # "SB"
    BY <2>3 DEF Unit
  <2>4. CASE bytes[i] = "IAC" /\ i < n /\ bytes[i + 1] = "SB"
    BY <2>4 DEF Unit, Verbs
  <2>5. CASE bytes[i] = "IAC" /\ ~(i < n /\ bytes[i + 1] \in Verbs \cup {"IAC", "SB"})
    BY <2>5 DEF Unit
  <2> QED BY <2>1, <2>2, <2>3, <2>4, <2>5 DEF Verbs
<1>2. n \in Nat /\ i \in 1 .. n
  OBVIOUS
<1>3. ends \in SUBSET (i + 2 .. n - 1)
  OBVIOUS
<1> HIDE DEF ends, U, n
<1>4. ends # {} => last \in i + 2 .. n - 1
  <2>1. ends \in SUBSET Nat
    BY <1>2, <1>3
  <2>2. ends # {} => \E k \in ends : \A j \in ends : k <= j
    BY <2>1, Least
  <2>3. ends # {} => last \in ends
    BY <2>2
  <2> HIDE DEF last
  <2> QED BY <1>3, <2>3
<1> HIDE DEF last
<1>5. \/ U[2] = i + 1
      \/ i < n /\ U[2] = i + 2
      \/ i + 1 < n /\ U[2] = i + 3
      \/ ends # {} /\ U[2] = last + 2
      \/ U[2] = n + 1
  BY <1>1
<1>6. U[2] \in i + 1 .. n + 1
  BY <1>2, <1>4, <1>5
<1> QED BY <1>6 DEF U, n

\* The reading of a write, from each of its places.
LEMMA PlainFrom ==
  ASSUME NEW bytes \in Seq(Byte)
  PROVE  \E f : /\ Plain(bytes) = f[1] /\ f[Len(bytes) + 1] = <<>>
                /\ \A i \in 1 .. Len(bytes) : f[i] = Unit(bytes, i)[1] \o f[Unit(bytes, i)[2]]
<1> DEFINE n == Len(bytes)
           E(f) == [i \in 1 .. n + 1 |-> IF i > n THEN <<>> ELSE Unit(bytes, i)[1] \o f[Unit(bytes, i)[2]]]
           h == CHOOSE f : f = E(f)
           d == [i \in 1 .. n |-> Unit(bytes, i)[1]]
           nxt == [i \in 1 .. n |-> Unit(bytes, i)[2]]
<1>0. n \in Nat
  OBVIOUS
<1>1. Plain(bytes) = h[1]
  BY DEF Plain
<1>2. \A i \in 1 .. n : nxt[i] \in i + 1 .. n + 1
  BY UnitMoves
<1>3. \A i \in 1 .. n : d[i] = Unit(bytes, i)[1] /\ nxt[i] = Unit(bytes, i)[2]
  OBVIOUS
<1> HIDE DEF n, d, nxt
<1>4. PICK g : Parses(g, d, nxt, 1, n)
  BY <1>0, <1>2, ParseExists
<1>5. g = E(g)
  <2>1. ASSUME NEW i \in 1 .. n + 1
        PROVE  g[i] = IF i > n THEN <<>> ELSE Unit(bytes, i)[1] \o g[Unit(bytes, i)[2]]
    <3>1. CASE i = n + 1
      BY <1>0, <1>4, <3>1 DEF Parses
    <3>2. CASE i # n + 1
      <4>1. i \in 1 .. n /\ ~(i > n)
        BY <1>0, <3>2
      <4> QED BY <1>3, <1>4, <4>1 DEF Parses
    <3> QED BY <3>1, <3>2
  <2>2. g = [i \in 1 .. n + 1 |-> g[i]]
    BY <1>4 DEF Parses
  <2> QED BY <2>1, <2>2
<1>6. h = E(h)
  BY <1>5
<1> HIDE DEF h
<1>7. h[n + 1] = <<>>
  BY <1>0, <1>6
<1>8. ASSUME NEW i \in 1 .. n PROVE h[i] = Unit(bytes, i)[1] \o h[Unit(bytes, i)[2]]
  <2>1. i \in 1 .. n + 1 /\ ~(i > n)
    BY <1>0
  <2>2. h[i] = E(h)[i]
    BY <1>6
  <2> QED BY <2>1, <2>2
<1> QED BY <1>1, <1>7, <1>8 DEF n

\* Before place k of w, from a on, there is an even number of IACs in a row.
EvenRun(w, k, a) ==
  \E m \in a .. k - 1 : /\ w[m] # "IAC" /\ (k - m) % 2 = 1
                        /\ \A j \in m + 1 .. k - 1 : w[j] = "IAC"

\* From a on every IAC of w is one of a pair.
Paired(w, n, a) ==
  /\ EvenRun(w, n + 1, a)
  /\ \A k \in a .. n : w[k] = "IAC" /\ EvenRun(w, k, a) => k < n /\ w[k + 1] = "IAC"

\* Two writes that agree up to a place have the same runs before it.
LEMMA SameRun ==
  ASSUME NEW w, NEW v, NEW a \in Nat, NEW n \in Nat, \A i \in 1 .. n : v[i] = w[i], a >= 1,
         NEW k \in 1 .. n + 1
  PROVE  EvenRun(v, k, a) <=> EvenRun(w, k, a)
<1>1. \A m \in a .. k - 1 : m \in 1 .. n /\ v[m] = w[m]
  OBVIOUS
<1>2. \A m \in a .. k - 1 : \A j \in m + 1 .. k - 1 : j \in 1 .. n /\ v[j] = w[j]
  OBVIOUS
<1> QED BY <1>1, <1>2 DEF EvenRun

LEMMA PairedByte ==
  ASSUME NEW w, NEW v, NEW a \in Nat, NEW n \in Nat, a >= 1, a <= n, \A i \in 1 .. n : v[i] = w[i],
         Paired(w, n, a), v[n + 1] # "IAC"
  PROVE  Paired(v, n + 1, a)
<1>1. EvenRun(v, (n + 1) + 1, a)
  <2>1. n + 1 \in a .. ((n + 1) + 1) - 1 /\ (((n + 1) + 1) - (n + 1)) % 2 = 1
    OBVIOUS
  <2>2. \A j \in (n + 1) + 1 .. ((n + 1) + 1) - 1 : FALSE
    OBVIOUS
  <2> QED BY <2>1, <2>2 DEF EvenRun
<1>2. ASSUME NEW k \in a .. n + 1, v[k] = "IAC", EvenRun(v, k, a) PROVE k < n + 1 /\ v[k + 1] = "IAC"
  <2>1. k \in a .. n /\ k \in 1 .. n + 1 /\ k \in 1 .. n
    BY <1>2
  <2>2. w[k] = "IAC" /\ EvenRun(w, k, a)
    BY <1>2, <2>1, SameRun
  <2>3. k < n /\ w[k + 1] = "IAC"
    BY <2>1, <2>2 DEF Paired
  <2> QED BY <2>1, <2>3
<1> QED BY <1>1, <1>2 DEF Paired

LEMMA PairedEscape ==
  ASSUME NEW w, NEW v, NEW a \in Nat, NEW n \in Nat, a >= 1, a <= n, \A i \in 1 .. n : v[i] = w[i],
         Paired(w, n, a), v[n + 1] = "IAC", v[n + 2] = "IAC"
  PROVE  Paired(v, n + 2, a)
<1>1. PICK m \in a .. n : w[m] # "IAC" /\ ((n + 1) - m) % 2 = 1 /\ \A j \in m + 1 .. n : w[j] = "IAC"
  BY (n + 1) - 1 = n DEF Paired, EvenRun
<1>2. v[m] # "IAC" /\ \A j \in m + 1 .. n + 2 : v[j] = "IAC"
  <2>1. m \in 1 .. n
    OBVIOUS
  <2>2. ASSUME NEW j \in m + 1 .. n + 2 PROVE v[j] = "IAC"
    <3>1. j \in m + 1 .. n \/ j = n + 1 \/ j = n + 2
      OBVIOUS
    <3>2. j \in m + 1 .. n => v[j] = w[j]
      OBVIOUS
    <3> QED BY <1>1, <3>1, <3>2
  <2> QED BY <1>1, <2>1, <2>2
<1>3. EvenRun(v, (n + 2) + 1, a)
  <2>1. m \in a .. ((n + 2) + 1) - 1 /\ ((n + 2) + 1) - 1 = n + 2 /\ (((n + 2) + 1) - m) % 2 = 1
    BY <1>1
  <2> QED BY <1>2, <2>1 DEF EvenRun
<1>4. ASSUME NEW k \in a .. n + 2, v[k] = "IAC", EvenRun(v, k, a) PROVE k < n + 2 /\ v[k + 1] = "IAC"
  <2>1. CASE k \in a .. n
    <3>1. k \in 1 .. n + 1 /\ k \in 1 .. n
      BY <2>1
    <3>2. w[k] = "IAC" /\ EvenRun(w, k, a)
      BY <1>4, <3>1, SameRun
    <3>3. k < n /\ w[k + 1] = "IAC"
      BY <2>1, <3>2 DEF Paired
    <3> QED BY <3>1, <3>3
  <2>2. CASE k = n + 1
    BY <2>2
  <2>3. CASE k = n + 2
    <3>1. PICK l \in a .. n + 1 : v[l] # "IAC" /\ ((n + 2) - l) % 2 = 1 /\ \A j \in l + 1 .. n + 1 : v[j] = "IAC"
      BY <1>4, <2>3, (n + 2) - 1 = n + 1 DEF EvenRun
    <3>2. l = m
      <4>1. ~(l < m)
        BY <1>2, <3>1
      <4>2. ~(m < l)
        BY <1>2, <3>1
      <4> QED BY <4>1, <4>2
    <3> QED BY <1>1, <3>1, <3>2
  <2> QED BY <2>1, <2>2, <2>3
<1> QED BY <1>3, <1>4 DEF Paired

\* v goes on from w, paired.
Continues(v, w, a) ==
  v \in Seq(Byte) /\ Paired(v, Len(v), a) /\ Len(w) <= Len(v) /\ \A i \in 1 .. Len(w) : v[i] = w[i]

LEMMA PairedPayload ==
  ASSUME NEW w \in Seq(Byte), NEW a \in Nat, a >= 1, a <= Len(w), Paired(w, Len(w), a),
         NEW p \in Seq(Byte), NEW l \in 0 .. Len(p)
  PROVE  Continues(w \o Doubled(SubSeq(p, 1, l)), w, a)
<1> DEFINE D(j) == Doubled(SubSeq(p, 1, j))
           Good(v) == Continues(v, w, a)
           G == {j \in Nat : j <= Len(p) => Good(w \o D(j))}
<1>0. Len(w) \in Nat
  OBVIOUS
<1>1. 0 \in G
  <2>1. D(0) = <<>>
    BY PrefixEnds, DoubledEmpty
  <2>3. w \o <<>> = w
    OBVIOUS
  <2>2. Good(w)
    BY <1>0 DEF Continues
  <2> HIDE DEF Good
  <2> QED BY <2>1, <2>2, <2>3
<1>2. ASSUME NEW j \in Nat, j \in G PROVE j + 1 \in G
  <2> SUFFICES ASSUME j + 1 <= Len(p) PROVE Good(w \o D(j + 1))
    OBVIOUS
  <2>1. j \in 0 .. Len(p) - 1
    OBVIOUS
  <2>2. PICK d, c : d = D(j) /\ c = p[j + 1]
    OBVIOUS
  <2>3. c \in Byte /\ d \in Seq(Byte) /\ D(j + 1) = d \o Escape(c)
    <3>1. /\ SubSeq(p, 1, j) \in Seq(Byte) /\ c \in Byte
          /\ SubSeq(p, 1, j + 1) = Append(SubSeq(p, 1, j), c)
      BY <2>1, <2>2, PrefixStep
    <3> QED BY <2>2, <3>1, DoubledAppend
  <2>4. PICK v : v = w \o d
    OBVIOUS
  <2>5. Good(v)
    BY <1>2, <2>1, <2>2, <2>4
  <2>a. v \in Seq(Byte) /\ Paired(v, Len(v), a) /\ Len(w) <= Len(v) /\ \A i \in 1 .. Len(w) : v[i] = w[i]
    BY <2>5 DEF Continues
  <2> HIDE DEF Good
  <2>6. PICK e : e = Escape(c)
    OBVIOUS
  <2>7. e \in Seq(Byte)
    BY <2>3, <2>6, EscapeBytes
  <2>8. w \o D(j + 1) = v \o e
    <3>1. w \o (d \o e) = (w \o d) \o e
      BY <2>3, <2>7, Regroup, Zenon
    <3> QED BY <2>3, <2>4, <2>6, <3>1
  <2> HIDE DEF D
  <2>9. PICK u : u = v \o e
    OBVIOUS
  <2>10. /\ u \in Seq(Byte) /\ Len(u) = Len(v) + Len(e) /\ Len(v) \in Nat
         /\ \A i \in 1 .. Len(v) : u[i] = v[i]
    <3>1. Joined(u, v, e)
      BY <2>a, <2>7, <2>9, JoinIs
    <3> QED BY <3>1 DEF Joined
  <2>11. \A i \in 1 .. Len(e) : u[Len(v) + i] = e[i]
    <3>1. Joined(u, v, e)
      BY <2>a, <2>7, <2>9, JoinIs
    <3> QED BY <3>1 DEF Joined
  <2>12. Paired(u, Len(u), a)
    <3>0. Paired(v, Len(v), a) /\ a <= Len(v)
      BY <1>0, <2>a, <2>10
    <3>1. CASE c = "IAC"
      <4>1. e = <<"IAC", "IAC">>
        BY <2>6, <3>1 DEF Escape
      <4>2. Len(e) = 2 /\ e[1] = "IAC" /\ e[2] = "IAC"
        BY <4>1
      <4>3. u[Len(v) + 1] = "IAC" /\ u[Len(v) + 2] = "IAC" /\ Len(u) = Len(v) + 2
        BY <2>10, <2>11, <4>2, 1 \in 1 .. 2, 2 \in 1 .. 2
      <4> QED BY <2>10, <3>0, <4>3, PairedEscape
    <3>2. CASE c # "IAC"
      <4>1. e = <<c>>
        BY <2>6, <3>2 DEF Escape
      <4>2. Len(e) = 1 /\ e[1] = c
        BY <4>1
      <4>3. u[Len(v) + 1] # "IAC" /\ Len(u) = Len(v) + 1
        BY <2>10, <2>11, <3>2, <4>2, 1 \in 1 .. 1
      <4> QED BY <2>10, <3>0, <4>3, PairedByte
    <3> QED BY <3>1, <3>2
  <2>13. Len(w) <= Len(u)
    <3>1. Len(e) \in Nat /\ Len(v) \in Nat /\ Len(w) <= Len(v)
      BY <2>a, <2>7
    <3> QED BY <1>0, <2>10, <3>1
  <2>14. \A i \in 1 .. Len(w) : u[i] = w[i]
    BY <1>0, <2>a, <2>10
  <2>15. Good(u)
    BY <2>10, <2>12, <2>13, <2>14 DEF Continues, Good
  <2> QED BY <2>8, <2>9, <2>15
<1> HIDE DEF G
<1>3. l \in G
  BY <1>1, <1>2, Climb, l \in Nat
<1>4. Good(w \o D(l))
  BY <1>3 DEF G
<1> QED BY <1>4

\* A subnegotiation ends where its last two bytes are.
LEMMA UnitReply ==
  ASSUME NEW w \in Seq(Byte), NEW i \in 1 .. Len(w), i + 2 <= Len(w), w[i] = "IAC", w[i + 1] = "SB",
         Paired(w, Len(w), i + 1)
  PROVE  Unit(w \o <<"IAC", "SE">>, i) = <<<<>>, Len(w) + 3>>
<1> DEFINE bytes == w \o <<"IAC", "SE">>
           n == Len(bytes)
           ends == {k \in i + 2 .. n - 1 :
                      /\ bytes[k] = "IAC" /\ bytes[k + 1] = "SE"
                      /\ \E m \in i + 1 .. k - 1 :
                           /\ bytes[m] # "IAC" /\ (k - m) % 2 = 1
                           /\ \A j \in m + 1 .. k - 1 : bytes[j] = "IAC"}
           last == CHOOSE k \in ends : \A j \in ends : k <= j
<1>1. <<"IAC", "SE">> \in Seq(Byte) /\ Len(<<"IAC", "SE">>) = 2 /\ <<"IAC", "SE">>[1] = "IAC" /\ <<"IAC", "SE">>[2] = "SE"
  BY NamedBytes, Two DEF Named
<1>2. /\ Len(w) \in Nat /\ n = Len(w) + 2
      /\ \A j \in 1 .. Len(w) : bytes[j] = w[j]
  BY <1>1, Glued
<1>3. bytes[Len(w) + 1] = "IAC" /\ bytes[Len(w) + 2] = "SE"
  BY <1>1, Glued, 1 \in 1 .. 2, 2 \in 1 .. 2
<1>4. ends = {k \in i + 2 .. n - 1 : bytes[k] = "IAC" /\ bytes[k + 1] = "SE" /\ EvenRun(bytes, k, i + 1)}
  BY DEF EvenRun
<1>5. bytes[i] = "IAC" /\ bytes[i + 1] = "SB" /\ i < n
  BY <1>2, i + 1 \in 1 .. Len(w)
<1>6. ends # {} => Unit(bytes, i) = <<<<>>, last + 2>>
  BY <1>5 DEF Unit, Verbs
<1> HIDE DEF bytes, n, ends
<1>7. \A k \in 1 .. Len(w) + 1 : EvenRun(bytes, k, i + 1) <=> EvenRun(w, k, i + 1)
  <2> SUFFICES ASSUME NEW k \in 1 .. Len(w) + 1 PROVE EvenRun(bytes, k, i + 1) <=> EvenRun(w, k, i + 1)
    OBVIOUS
  <2>1. Len(w) \in Nat /\ i + 1 \in Nat /\ i + 1 >= 1
    BY <1>2
  <2>2. \A j \in 1 .. Len(w) : bytes[j] = w[j]
    BY <1>2
  <2> QED BY <2>1, <2>2, SameRun
<1>8. Len(w) + 1 \in ends
  <2>1. EvenRun(w, Len(w) + 1, i + 1)
    BY DEF Paired
  <2> QED BY <1>2, <1>3, <1>4, <1>7, <2>1
<1>9. \A k \in ends : k = Len(w) + 1
  <2> SUFFICES ASSUME NEW k \in ends, k # Len(w) + 1 PROVE FALSE
    OBVIOUS
  <2>1. k \in i + 2 .. n - 1 /\ bytes[k] = "IAC" /\ bytes[k + 1] = "SE" /\ EvenRun(bytes, k, i + 1)
    BY <1>4
  <2>2. k \in 1 .. Len(w) /\ k \in i + 1 .. Len(w)
    BY <1>2, <2>1
  <2>3. w[k] = "IAC" /\ EvenRun(w, k, i + 1)
    BY <1>2, <1>7, <2>1, <2>2
  <2>4. k < Len(w) /\ w[k + 1] = "IAC"
    BY <2>2, <2>3 DEF Paired
  <2> QED BY <1>2, <2>1, <2>2, <2>4, k + 1 \in 1 .. Len(w)
<1>10. last = Len(w) + 1
  BY <1>2, <1>8, <1>9
<1> HIDE DEF last
<1>11. last + 2 = Len(w) + 3
  BY <1>2, <1>10
<1> QED BY <1>6, <1>8, <1>11 DEF bytes

\* An answer to a verb is passed over.
LEMMA UnitAnswer ==
  ASSUME NEW bytes \in Seq(Byte), Len(bytes) >= 3, bytes[1] = "IAC", bytes[2] \in Verbs
  PROVE  Unit(bytes, 1) = <<<<>>, 4>>
<1>1. bytes[2] # "IAC" /\ bytes[2] # "SB" /\ Len(bytes) \in Nat
  BY DEF Verbs
<1>2. 1 + 1 = 2 /\ 1 < Len(bytes) /\ 2 < Len(bytes) /\ 1 + 3 = 4
  BY <1>1
<1> QED BY <1>1, <1>2 DEF Unit

LEMMA PlainNothing == Plain(<<>>) = <<>>
<1>1. <<>> \in Seq(Byte) /\ Len(<<>>) = 0 /\ 0 + 1 = 1
  OBVIOUS
<1>2. PICK f : Plain(<<>>) = f[1] /\ f[Len(<<>>) + 1] = <<>>
  BY <1>1, PlainFrom
<1> QED BY <1>1, <1>2

\* The line's bytes, as a telnet client reads them.
LEMMA PlainEscape ==
  ASSUME NEW b \in Byte
  PROVE  Plain(Escape(b)) = <<b>>
<1>0. <<b>> \in Seq(Byte) /\ Len(<<b>>) = 1 /\ <<b>>[1] = b /\ <<b>> \o <<>> = <<b>>
  BY One
<1>1. CASE b # "IAC"
  <2>1. Escape(b) = <<b>>
    BY <1>1 DEF Escape
  <2>2. PICK f : /\ Plain(<<b>>) = f[1] /\ f[Len(<<b>>) + 1] = <<>>
                 /\ \A i \in 1 .. Len(<<b>>) : f[i] = Unit(<<b>>, i)[1] \o f[Unit(<<b>>, i)[2]]
    BY <1>0, PlainFrom
  <2>3. Unit(<<b>>, 1) = <<<<b>>, 2>>
    BY <1>0, <1>1 DEF Unit
  <2>4. Unit(<<b>>, 1)[1] = <<b>> /\ Unit(<<b>>, 1)[2] = 2
    BY <2>3
  <2>5. f[2] = <<>> /\ f[1] = <<b>> \o f[2]
    BY <1>0, <2>2, <2>4, 1 \in 1 .. 1, 1 + 1 = 2
  <2> QED BY <1>0, <2>1, <2>2, <2>5
<1>2. CASE b = "IAC"
  <2> DEFINE t == <<b, b>>
  <2>1. t \in Seq(Byte) /\ Len(t) = 2 /\ t[1] = b /\ t[2] = b
    BY Two
  <2>2. Escape(b) = t
    BY <1>2 DEF Escape
  <2> HIDE DEF t
  <2>3. PICK f : /\ Plain(t) = f[1] /\ f[Len(t) + 1] = <<>>
                 /\ \A i \in 1 .. Len(t) : f[i] = Unit(t, i)[1] \o f[Unit(t, i)[2]]
    BY <2>1, PlainFrom
  <2>4. Unit(t, 1) = <<<<b>>, 3>>
    BY <1>2, <2>1, 1 + 1 = 2 DEF Unit, Verbs
  <2>5. Unit(t, 1)[1] = <<b>> /\ Unit(t, 1)[2] = 3
    BY <2>4
  <2>6. f[3] = <<>> /\ f[1] = <<b>> \o f[3]
    BY <2>1, <2>3, <2>5, 1 \in 1 .. 2, 2 + 1 = 3
  <2> QED BY <1>0, <2>2, <2>3, <2>6
<1> QED BY <1>1, <1>2

\* What may come before an acknowledgement.
Answers == {<<>>} \cup {<<"IAC", v, o>> : v \in Verbs, o \in Byte}

LEMMA AnswerBytes ==
  ASSUME NEW pre \in Answers
  PROVE  /\ pre \in Seq(Byte) /\ Len(pre) \in {0, 3}
         /\ Len(pre) = 3 => pre[1] = "IAC" /\ pre[2] \in Verbs
<1>1. CASE pre = <<>>
  BY <1>1
<1>2. ASSUME NEW v \in Verbs, NEW o \in Byte, pre = <<"IAC", v, o>>
      PROVE  pre \in Seq(Byte) /\ Len(pre) = 3 /\ pre[1] = "IAC" /\ pre[2] \in Verbs
  <2>1. "IAC" \in Byte /\ v \in Byte
    BY NamedBytes DEF Named
  <2>2. <<"IAC", v, o>> \in Seq(Byte)
    BY <2>1, Written
  <2>3. Len(<<"IAC", v, o>>) = 3 /\ <<"IAC", v, o>>[1] = "IAC" /\ <<"IAC", v, o>>[2] = v
    OBVIOUS
  <2> QED BY <1>2, <2>2, <2>3
<1> QED BY <1>1, <1>2 DEF Answers

LEMMA PlainAnswer ==
  ASSUME NEW pre \in Answers
  PROVE  Plain(pre) = <<>>
<1>0. /\ pre \in Seq(Byte) /\ Len(pre) \in {0, 3}
      /\ Len(pre) = 3 => pre[1] = "IAC" /\ pre[2] \in Verbs
  BY AnswerBytes
<1>1. CASE Len(pre) = 0
  <2>1. pre = <<>>
    BY <1>0, <1>1
  <2> QED BY <2>1, PlainNothing
<1>2. CASE Len(pre) = 3
  <2>1. Unit(pre, 1) = <<<<>>, 4>>
    <3>1. pre \in Seq(Byte) /\ Len(pre) >= 3 /\ pre[1] = "IAC" /\ pre[2] \in Verbs
      BY <1>0, <1>2
    <3> QED BY <3>1, UnitAnswer
  <2>2. PICK f : /\ Plain(pre) = f[1] /\ f[Len(pre) + 1] = <<>>
                 /\ \A i \in 1 .. Len(pre) : f[i] = Unit(pre, i)[1] \o f[Unit(pre, i)[2]]
    BY <1>0, PlainFrom
  <2>4. Unit(pre, 1)[1] = <<>> /\ Unit(pre, 1)[2] = 4
    BY <2>1
  <2>3. f[4] = <<>> /\ f[1] = <<>> \o f[4]
    BY <1>2, <2>2, <2>4, 1 \in 1 .. 3, 3 + 1 = 4
  <2> QED BY <2>2, <2>3, NoData
<1> QED BY <1>0, <1>1, <1>2

\* No data in a reply, whatever it echoes, if its code is not IAC.
LEMMA PlainReply ==
  ASSUME NEW pre \in Answers, NEW cmd \in Byte, Code[cmd] # "IAC", NEW p \in Seq(Byte)
  PROVE  Plain(pre \o tn_comport_ack(cmd, p)) = <<>>
<1>0. /\ pre \in Seq(Byte) /\ Len(pre) \in {0, 3}
      /\ Len(pre) = 3 => pre[1] = "IAC" /\ pre[2] \in Verbs
  BY AnswerBytes
<1>b. PICK c \in Byte : c = Code[cmd] /\ c # "IAC"
  BY BridgeBounds
<1>1. PICK h, t : h = <<"IAC", "SB", "44", c>> /\ t = <<"IAC", "SE">>
  OBVIOUS
<1>2. h \in Seq(Byte) /\ Len(h) = 4 /\ h[1] = "IAC" /\ h[2] = "SB" /\ h[3] = "44" /\ h[4] = c
  BY <1>1, <1>b, NamedBytes, Four DEF Named
<1>3. t \in Seq(Byte) /\ Len(t) = 2
  BY <1>1, NamedBytes, Two DEF Named
<1>4. PICK l \in 0 .. Len(p) : l = Kept(p)
  BY KeptTaken
<1>5. PICK d : d = Doubled(SubSeq(p, 1, l)) 
  OBVIOUS
<1>6. tn_comport_ack(cmd, p) = h \o d \o t
  BY <1>1, <1>4, <1>5, <1>b, AckIs
<1>7. PICK i \in Nat : i = Len(pre) + 1
  BY <1>0
<1>8. PICK v : v = pre \o h
  OBVIOUS
<1>9. v \in Seq(Byte) /\ Len(v) = i + 3 /\ \A j \in 1 .. Len(pre) : v[j] = pre[j]
  <2>1. v \in Seq(Byte) /\ Len(v) = Len(pre) + Len(h) /\ \A j \in 1 .. Len(pre) : v[j] = pre[j]
    <3>1. Joined(v, pre, h)
      BY <1>0, <1>2, <1>8, JoinIs
    <3> QED BY <3>1 DEF Joined
  <2> QED BY <1>0, <1>2, <1>7, <2>1
<1>10. v[i] = "IAC" /\ v[i + 1] = "SB" /\ v[i + 2] = "44" /\ v[i + 3] = c
  <2>1. \A j \in 1 .. 4 : v[Len(pre) + j] = h[j]
    <3>1. Joined(v, pre, h)
      BY <1>0, <1>2, <1>8, JoinIs
    <3> QED BY <1>2, <3>1 DEF Joined
  <2>2. v[Len(pre) + 1] = h[1] /\ v[Len(pre) + 2] = h[2] /\ v[Len(pre) + 3] = h[3] /\ v[Len(pre) + 4] = h[4]
    BY <2>1, 1 \in 1 .. 4, 2 \in 1 .. 4, 3 \in 1 .. 4, 4 \in 1 .. 4
  <2>3. i + 1 = Len(pre) + 2 /\ i + 2 = Len(pre) + 3 /\ i + 3 = Len(pre) + 4
    BY <1>0, <1>7
  <2> QED BY <1>2, <1>7, <2>2, <2>3
<1>11. Paired(v, Len(v), i + 1)
  <2>1. EvenRun(v, (i + 3) + 1, i + 1)
    <3>1. i + 3 \in i + 1 .. ((i + 3) + 1) - 1 /\ (((i + 3) + 1) - (i + 3)) % 2 = 1
      OBVIOUS
    <3>2. \A j \in (i + 3) + 1 .. ((i + 3) + 1) - 1 : FALSE
      OBVIOUS
    <3> QED BY <1>10, <1>b, <3>1, <3>2 DEF EvenRun
  <2>2. \A k \in i + 1 .. i + 3 : v[k] # "IAC"
    BY <1>10, <1>b, \A k \in i + 1 .. i + 3 : k = i + 1 \/ k = i + 2 \/ k = i + 3
  <2> QED BY <1>9, <2>1, <2>2 DEF Paired
<1>12. PICK w : w = v \o d
  OBVIOUS
<1>13. /\ w \in Seq(Byte) /\ Paired(w, Len(w), i + 1) /\ Len(v) <= Len(w)
       /\ \A j \in 1 .. Len(v) : w[j] = v[j]
  <2>1. i + 1 \in Nat /\ i + 1 >= 1 /\ i + 1 <= Len(v)
    BY <1>9
  <2>2. Continues(w, v, i + 1)
    BY <1>4, <1>5, <1>9, <1>11, <1>12, <2>1, PairedPayload
  <2> QED BY <2>2 DEF Continues
<1>14. PICK bytes : bytes = w \o t
  OBVIOUS
<1>15. /\ bytes \in Seq(Byte) /\ Len(bytes) = Len(w) + 2 /\ Len(w) \in Nat
       /\ \A j \in 1 .. Len(w) : bytes[j] = w[j]
  <2>1. /\ bytes \in Seq(Byte) /\ Len(bytes) = Len(w) + Len(t) /\ Len(w) \in Nat
        /\ \A j \in 1 .. Len(w) : bytes[j] = w[j]
    <3>1. Joined(bytes, w, t)
      BY <1>3, <1>13, <1>14, JoinIs
    <3> QED BY <3>1 DEF Joined
  <2> QED BY <1>3, <2>1
<1>16. pre \o tn_comport_ack(cmd, p) = bytes
  <2>1. d \in Seq(Byte)
    BY <1>4, <1>5, PrefixSpelled
  <2>0. PICK g : g = h \o d
    OBVIOUS
  <2>2. g \in Seq(Byte)
    BY <1>2, <2>0, <2>1, Glued
  <2>a. pre \in Seq(Byte)
    BY <1>0
  <2>b. h \in Seq(Byte)
    BY <1>2
  <2>c. t \in Seq(Byte)
    BY <1>3
  <2>3. (pre \o g) \o t = pre \o (g \o t)
    BY <2>a, <2>c, <2>2, Regroup, Zenon
  <2>4. (pre \o h) \o d = pre \o (h \o d)
    BY <2>a, <2>b, <2>1, Regroup, Zenon
  <2> QED BY <1>6, <1>8, <1>12, <1>14, <2>0, <2>3, <2>4
<1>17. Unit(bytes, i) = <<<<>>, Len(bytes) + 1>>
  <2>1. i \in 1 .. Len(w) /\ i + 2 <= Len(w) /\ w[i] = "IAC" /\ w[i + 1] = "SB"
    <3>1. i >= 1
      BY <1>0, <1>7
    <3>2. i \in 1 .. Len(v) /\ i + 1 \in 1 .. Len(v) /\ i + 3 <= Len(w)
      BY <1>9, <1>13, <1>15, <3>1
    <3> QED BY <1>10, <1>13, <1>15, <3>1, <3>2
  <2>2. Unit(bytes, i) = <<<<>>, Len(w) + 3>>
    BY <1>1, <1>13, <1>14, <2>1, UnitReply
  <2>3. Len(w) + 3 = Len(bytes) + 1
    BY <1>15
  <2> QED BY <2>2, <2>3
<1>18. PICK f : /\ Plain(bytes) = f[1] /\ f[Len(bytes) + 1] = <<>>
                /\ \A j \in 1 .. Len(bytes) : f[j] = Unit(bytes, j)[1] \o f[Unit(bytes, j)[2]]
  BY <1>15, PlainFrom
<1>a. i + 3 <= Len(w)
  BY <1>9, <1>13
<1>19. f[i] = <<>>
  <2>1. i \in 1 .. Len(bytes)
    BY <1>0, <1>7, <1>15, <1>a
  <2>2. Unit(bytes, i)[1] = <<>> /\ Unit(bytes, i)[2] = Len(bytes) + 1
    BY <1>17
  <2> QED BY <1>18, <2>1, <2>2, NoData
<1>20. f[1] = <<>>
  <2>1. CASE Len(pre) = 0
    BY <1>7, <1>19, <2>1
  <2>2. CASE Len(pre) = 3
    <3>1. i = 4 /\ Len(bytes) >= 3 /\ Len(v) = 7 /\ 7 <= Len(w)
      BY <1>7, <1>9, <1>13, <1>15, <1>a, <2>2
    <3>2. bytes[1] = pre[1] /\ bytes[2] = pre[2]
      <4>1. v[1] = pre[1] /\ v[2] = pre[2]
        BY <1>9, <2>2
      <4>2. w[1] = v[1] /\ w[2] = v[2]
        BY <1>13, <3>1
      <4>3. bytes[1] = w[1] /\ bytes[2] = w[2]
        BY <1>15, <3>1, 1 \in 1 .. Len(w), 2 \in 1 .. Len(w)
      <4> QED BY <4>1, <4>2, <4>3
    <3>3. Unit(bytes, 1) = <<<<>>, 4>>
      BY <1>0, <1>15, <2>2, <3>1, <3>2, UnitAnswer
    <3>4. Unit(bytes, 1)[1] = <<>> /\ Unit(bytes, 1)[2] = 4
      BY <3>3
    <3>5. 1 \in 1 .. Len(bytes)
      BY <1>15, <3>1
    <3> QED BY <1>18, <1>19, <3>1, <3>4, <3>5, NoData
  <2> QED BY <1>0, <2>1, <2>2
<1> QED BY <1>16, <1>18, <1>20

(***************************************************************************)
(* The invariant.                                                          *)
(***************************************************************************)
Typed ==
  /\ client \in {"none", "raw", "telnet"} /\ coding \in Rates
  /\ rx \in Seq(Byte) /\ wire \in Seq(Byte) /\ owed \in Seq(Byte)
  /\ sb_buf \in Seq(Byte) /\ Len(sb_buf) <= SB_MAX
  /\ source \in [Sources -> Seq(Byte)]

\* What is owed to the line is what the parser will read in the bytes to come.
Faithful ==
  /\ client = "none" => rx = <<>> /\ wire = <<>> /\ owed = <<>>
  /\ client = "raw" => owed = rx \o wire
  /\ client = "telnet" => Reads(tn_state, rx \o wire, owed, "DATA")

BridgeInv == Typed /\ Faithful /\ ClientReadsTheLine

LEMMA InitSound == Init => BridgeInv
<1> SUFFICES ASSUME Init PROVE BridgeInv
  OBVIOUS
<1>1. SB_MAX \in Nat
  BY BridgeBounds
<1>2. <<>> \in Seq(Byte) /\ Len(<<>>) = 0
  OBVIOUS
<1>3. source \in [Sources -> Seq(Byte)]
  BY <1>2 DEF Init
<1>4. Typed
  BY <1>1, <1>2, <1>3 DEF Init, Typed, Rates
<1> QED BY <1>4 DEF Init, BridgeInv, Faithful, ClientReadsTheLine

\* The next byte comes off the front of what is still to come.
LEMMA FirstOff ==
  ASSUME NEW q \in Seq(Byte), NEW r \in Seq(Byte), q # <<>>
  PROVE  /\ Head(q) \in Byte /\ Tail(q) \in Seq(Byte) /\ q \o r \in Seq(Byte) /\ q \o r # <<>>
         /\ Head(q \o r) = Head(q) /\ Tail(q \o r) = Tail(q) \o r
<1>1. Len(q) \in Nat /\ Len(q) # 0 /\ Head(q) \in Byte /\ Tail(q) \in Seq(Byte)
  OBVIOUS
<1>2. q \o r \in Seq(Byte) /\ Len(q \o r) = Len(q) + Len(r) /\ Len(r) \in Nat
  BY Glued
<1>3. Len(q \o r) # 0
  BY <1>1, <1>2
<1>4. q \o r # <<>>
  BY <1>3
<1>5. Head(q \o r) = Head(q)
  BY <1>1
<1>6. Tail(q \o r) = Tail(q) \o r
  <2>1. q = <<Head(q)>> \o Tail(q)
    BY <1>1
  <2>2. ASSUME NEW h \in Byte, NEW s \in Seq(Byte) PROVE Tail(<<h>> \o s) = s
    OBVIOUS
  <2>3. (<<Head(q)>> \o Tail(q)) \o r = <<Head(q)>> \o (Tail(q) \o r)
    <3>1. <<Head(q)>> \in Seq(Byte)
      BY <1>1, One
    <3>2. Tail(q) \in Seq(Byte)
      BY <1>1
    <3> QED BY <3>1, <3>2, Regroup, Zenon
  <2>4. Tail(q) \o r \in Seq(Byte)
    BY <1>1, Glued
  <2> QED BY <1>1, <2>1, <2>2, <2>3, <2>4
<1> QED BY <1>1, <1>2, <1>4, <1>5, <1>6

LEMMA Peeled ==
  ASSUME NEW b \in Byte, NEW rest \in Seq(Byte)
  PROVE  <<b>> \o rest # <<>> /\ Head(<<b>> \o rest) = b /\ Tail(<<b>> \o rest) = rest
OBVIOUS

\* A byte goes to the line, or not, as the parser says.
LEMMA ProcessReads ==
  ASSUME NEW b \in Byte, tn_process(b), tn_state \in States,
         NEW rest \in Seq(Byte), owed = Emits(tn_state, b) \o rest
  PROVE  tn_state' = Goes(tn_state, b) /\ owed' = rest
<1>1. <<>> \o rest = rest
  OBVIOUS
<1>2. ASSUME ToLine(b), Emits(tn_state, b) = <<b>> PROVE owed' = rest
  <2>1. owed # <<>> /\ Head(owed) = b /\ Tail(owed) = rest
    BY <1>2, Peeled
  <2> QED BY <1>2, <2>1 DEF ToLine
<1>3. ASSUME UNCHANGED owed, Emits(tn_state, b) = <<>> PROVE owed' = rest
  BY <1>1, <1>3
<1>4. CASE tn_state = "DATA" /\ b = "IAC"
  <2>1. tn_state' = "IAC" /\ UNCHANGED owed
    BY <1>4 DEF tn_process, Enter
  <2> QED BY <1>3, <1>4, <2>1 DEF Goes, Emits
<1>5. CASE tn_state = "DATA" /\ b # "IAC"
  <2>1. tn_state' = tn_state /\ ToLine(b)
    BY <1>5 DEF tn_process, tn
  <2> QED BY <1>2, <1>5, <2>1 DEF Goes, Emits
<1>6. CASE tn_state = "IAC" /\ b = "IAC"
  <2>1. tn_state' = "DATA" /\ ToLine(b)
    BY <1>6 DEF tn_process, Verbs
  <2> QED BY <1>2, <1>6, <2>1 DEF Goes, Emits, Verbs
<1>7. CASE tn_state = "IAC" /\ b = "SB"
  <2>1. tn_state' = "SB" /\ UNCHANGED owed
    BY <1>7 DEF tn_process, Enter, Verbs
  <2> QED BY <1>3, <1>7, <2>1 DEF Goes, Emits
<1>8. CASE tn_state = "IAC" /\ b \in Verbs
  <2>1. b # "SB" /\ b # "IAC"
    BY <1>8 DEF Verbs
  <2>2. tn_state' = "VERB" /\ UNCHANGED owed
    BY <1>8, <2>1 DEF tn_process, Enter
  <2> QED BY <1>3, <1>8, <2>1, <2>2 DEF Goes, Emits
<1>9. CASE tn_state = "IAC" /\ b \notin Verbs \cup {"IAC", "SB"}
  <2>1. tn_state' = "DATA" /\ UNCHANGED owed
    BY <1>9 DEF tn_process, Enter
  <2> QED BY <1>3, <1>9, <2>1 DEF Goes, Emits
<1>10. CASE tn_state = "VERB"
  <2>1. tn_state' = "DATA" /\ UNCHANGED owed
    BY <1>10 DEF tn_process, Enter
  <2> QED BY <1>3, <1>10, <2>1 DEF Goes, Emits
<1>11. CASE tn_state = "SB"
  <2>1. tn_state' = (IF b = "IAC" THEN "SB_IAC" ELSE "SB") /\ UNCHANGED owed
    BY <1>11 DEF tn_process, Enter
  <2> QED BY <1>3, <1>11, <2>1 DEF Goes, Emits
<1>12. CASE tn_state = "SB_IAC"
  <2>1. tn_state' = (IF b = "IAC" THEN "SB" ELSE "DATA") /\ UNCHANGED owed
    BY <1>12 DEF tn_process, Enter, SbEnds
  <2> QED BY <1>3, <1>12, <2>1 DEF Goes, Emits
<1> QED BY <1>4, <1>5, <1>6, <1>7, <1>8, <1>9, <1>10, <1>11, <1>12 DEF States

\* The replies and the echoes hold no data.
LEMMA SendReads ==
  ASSUME ClientReadsTheLine, client = "telnet", NEW cmd, NEW reply, tn_send(cmd, reply),
         Code[cmd] # "IAC" => Plain(reply) = <<>>
  PROVE  ClientReadsTheLine'
  BY DEF tn_send, Misread, ClientReadsTheLine

LEMMA AckReads ==
  ASSUME NEW cmd \in Byte, Code[cmd] # "IAC", NEW p \in Seq(Byte)
  PROVE  Plain(tn_comport_ack(cmd, p)) = <<>>
<1>1. <<>> \in Answers
  BY DEF Answers
<1>2. Plain(<<>> \o tn_comport_ack(cmd, p)) = <<>>
  BY <1>1, PlainReply
<1>3. tn_comport_ack(cmd, p) \in Seq(Byte)
  BY AckFits
<1>4. <<>> \o tn_comport_ack(cmd, p) = tn_comport_ack(cmd, p)
  BY <1>3
<1> QED BY <1>2, <1>4

LEMMA VerbReads ==
  ASSUME ClientReadsTheLine, client = "telnet", NEW verb, NEW opt \in Byte, tn_handle_verb(verb, opt)
  PROVE  ClientReadsTheLine'
<1> DEFINE answer == CASE verb = "WILL" -> <<"IAC", IF opt = "44" THEN "DO" ELSE "DONT", opt>>
                       [] verb = "DO"   -> <<"IAC", IF opt = "44" THEN "WILL" ELSE "WONT", opt>>
                       [] OTHER         -> <<>>
           first == opt = "44" /\ ~comport_active
<1>1. answer \in Answers
  <2>1. CASE verb = "WILL"
    BY <2>1 DEF Answers, Verbs
  <2>2. CASE verb = "DO"
    BY <2>2 DEF Answers, Verbs
  <2>3. CASE verb # "WILL" /\ verb # "DO"
    BY <2>3 DEF Answers
  <2> QED BY <2>1, <2>2, <2>3
<1>2. tn_send("notify", answer \o IF first THEN tn_comport_ack("notify", <<"ms">>) ELSE <<>>)
  BY DEF tn_handle_verb
<1> HIDE DEF answer, first
<1>3. <<"ms">> \in Seq(Byte)
  BY NamedBytes, One DEF Named
<1>6. "notify" \in Byte /\ Code["notify"] # "IAC"
  BY BridgeBounds, NamedBytes DEF Named
<1>4. CASE first
  <2>1. Plain(answer \o tn_comport_ack("notify", <<"ms">>)) = <<>>
    BY <1>1, <1>3, <1>6, PlainReply
  <2> QED BY <1>2, <1>4, <2>1, SendReads
<1>5. CASE ~first
  <2>1. answer \in Seq(Byte)
    BY <1>1, AnswerBytes
  <2>2. answer \o <<>> = answer
    BY <2>1
  <2>3. tn_send("notify", answer)
    BY <1>2, <1>5, <2>2
  <2> QED BY <1>1, <2>3, PlainAnswer, SendReads
<1> QED BY <1>4, <1>5

LEMMA SbReads ==
  ASSUME ClientReadsTheLine, client = "telnet", coding \in Rates, sb_buf \in Seq(Byte), tn_handle_sb
  PROVE  ClientReadsTheLine' /\ coding' \in Rates
<1> DEFINE pl == SubSeq(sb_buf, 3, Len(sb_buf))
           cmd == sb_buf[2]
<1>1. pl \in Seq(Byte) /\ (pl # <<>> => pl[1] \in Byte)
  <2>1. pl \in Seq(Byte)
    OBVIOUS
  <2> HIDE DEF pl
  <2> QED BY <2>1
<1>2. \A r \in Rates : <<r>> \in Seq(Byte)
  BY NamedBytes, One DEF Named
<1>3. CASE UNCHANGED <<coding, asserted, faults>>
  BY <1>3 DEF ClientReadsTheLine
<1>8. Len(sb_buf) >= 2 => cmd \in Byte
  OBVIOUS
<1>4. CASE Len(sb_buf) >= 2 /\ coding' \in Rates /\ tn_send(cmd, tn_comport_ack(cmd, <<coding'>>))
  BY <1>2, <1>4, <1>8, AckReads, SendReads
<1>5. CASE Len(sb_buf) >= 2 /\ pl # <<>> /\ UNCHANGED coding /\ tn_send(cmd, tn_comport_ack(cmd, <<pl[1]>>))
  <2>1. <<pl[1]>> \in Seq(Byte)
    BY <1>1, <1>5, One
  <2> QED BY <1>5, <1>8, <2>1, AckReads, SendReads
<1>6. CASE Len(sb_buf) >= 2 /\ UNCHANGED coding /\ tn_send(cmd, tn_comport_ack(cmd, pl))
  BY <1>1, <1>6, <1>8, AckReads, SendReads
<1> HIDE DEF pl
<1>7. \/ UNCHANGED <<coding, asserted, faults>>
      \/ Len(sb_buf) >= 2 /\ coding' \in Rates /\ tn_send(cmd, tn_comport_ack(cmd, <<coding'>>))
      \/ Len(sb_buf) >= 2 /\ pl # <<>> /\ UNCHANGED coding /\ tn_send(cmd, tn_comport_ack(cmd, <<pl[1]>>))
      \/ Len(sb_buf) >= 2 /\ UNCHANGED coding /\ tn_send(cmd, tn_comport_ack(cmd, pl))
  <2>1. CASE Len(sb_buf) < 2 \/ sb_buf[1] # "44"
    BY <2>1 DEF tn_handle_sb
  <2>0. ~(Len(sb_buf) < 2) => Len(sb_buf) >= 2
    OBVIOUS
  <2>2. CASE ~(Len(sb_buf) < 2 \/ sb_buf[1] # "44") /\ cmd = "set"
    <3>1. coding' = IF pl # <<>> /\ pl[1] \in Rates THEN pl[1] ELSE coding
      BY <2>2 DEF tn_handle_sb, pl
    <3>2. coding' \in Rates
      BY <3>1
    <3>3. tn_send(cmd, tn_comport_ack(cmd, <<coding'>>))
      BY <2>2 DEF tn_handle_sb, pl
    <3> QED BY <2>0, <2>2, <3>2, <3>3
  <2>3. CASE ~(Len(sb_buf) < 2 \/ sb_buf[1] # "44") /\ cmd = "ctl"
    BY <2>0, <2>3 DEF tn_handle_sb, pl
  <2>4. CASE ~(Len(sb_buf) < 2 \/ sb_buf[1] # "44") /\ cmd # "set" /\ cmd # "ctl"
    BY <2>0, <2>4 DEF tn_handle_sb, pl
  <2> QED BY <2>1, <2>2, <2>3, <2>4
<1> QED BY <1>3, <1>4, <1>5, <1>6, <1>7

\* A byte of the line reads as that byte.
LEMMA FanReads ==
  ASSUME ClientReadsTheLine, NEW src, NEW b \in Byte, fan_out(src, b)
  PROVE  ClientReadsTheLine'
<1>1. Misread(Encode(b), <<b>>, "misread") = {}
  BY PlainEscape DEF Misread, Encode
<1> QED BY <1>1 DEF fan_out, ClientReadsTheLine

LEMMA StoredFits ==
  ASSUME sb_buf \in Seq(Byte), Len(sb_buf) <= SB_MAX, NEW b \in Byte
  PROVE  Stored(b) \in Seq(Byte) /\ Len(Stored(b)) <= SB_MAX
<1>1. SB_MAX \in Nat /\ Len(sb_buf) \in Nat
  BY BridgeBounds
<1>2. Append(sb_buf, b) \in Seq(Byte) /\ Len(Append(sb_buf, b)) = Len(sb_buf) + 1
  OBVIOUS
<1>3. CASE Len(sb_buf) < SB_MAX
  <2>1. Len(sb_buf) + 1 <= SB_MAX
    BY <1>1, <1>3
  <2> QED BY <1>2, <1>3, <2>1 DEF Stored
<1>4. CASE ~(Len(sb_buf) < SB_MAX)
  BY <1>4 DEF Stored
<1> QED BY <1>3, <1>4

LEMMA ProcessKeeps ==
  ASSUME Typed, ClientReadsTheLine, client = "telnet", NEW b \in Byte, tn_process(b)
  PROVE  ClientReadsTheLine' /\ coding' \in Rates /\ sb_buf' \in Seq(Byte) /\ Len(sb_buf') <= SB_MAX
<1>0. SB_MAX \in Nat /\ <<>> \in Seq(Byte) /\ Len(<<>>) = 0 /\ "IAC" \in Byte
  BY BridgeBounds, NamedBytes DEF Named
<1>1. coding \in Rates /\ sb_buf \in Seq(Byte) /\ Len(sb_buf) <= SB_MAX
  BY DEF Typed
<1>2. \/ UNCHANGED <<sb_buf, coding, faults>>
      \/ UNCHANGED <<sb_buf, coding>> /\ fan_out("tcp", b)
      \/ UNCHANGED <<sb_buf, coding>> /\ tn_handle_verb(tn_verb, b)
      \/ UNCHANGED <<coding, faults>> /\ sb_buf' \in {<<>>, Stored(b), Stored("IAC")}
      \/ tn_handle_sb /\ sb_buf' = <<>>
  BY DEF tn_process, OnlyState, ToLine, tn
<1>3. CASE UNCHANGED <<sb_buf, coding, faults>>
  BY <1>1, <1>3 DEF ClientReadsTheLine
<1>4. CASE UNCHANGED <<sb_buf, coding>> /\ fan_out("tcp", b)
  BY <1>1, <1>4, FanReads
<1>5. CASE UNCHANGED <<sb_buf, coding>> /\ tn_handle_verb(tn_verb, b)
  BY <1>1, <1>5, VerbReads
<1>6. CASE UNCHANGED <<coding, faults>> /\ sb_buf' \in {<<>>, Stored(b), Stored("IAC")}
  <2>1. ClientReadsTheLine' /\ coding' \in Rates
    BY <1>1, <1>6 DEF ClientReadsTheLine
  <2>2. Stored(b) \in Seq(Byte) /\ Len(Stored(b)) <= SB_MAX /\ Stored("IAC") \in Seq(Byte) /\ Len(Stored("IAC")) <= SB_MAX
    BY <1>0, <1>1, StoredFits
  <2>3. sb_buf' = <<>> \/ sb_buf' = Stored(b) \/ sb_buf' = Stored("IAC")
    BY <1>6
  <2>4. CASE sb_buf' = <<>>
    BY <1>0, <2>1, <2>4
  <2>5. CASE sb_buf' = Stored(b)
    BY <2>1, <2>2, <2>5
  <2>6. CASE sb_buf' = Stored("IAC")
    BY <2>1, <2>2, <2>6
  <2> QED BY <2>3, <2>4, <2>5, <2>6
<1>7. CASE tn_handle_sb /\ sb_buf' = <<>>
  <2>1. ClientReadsTheLine' /\ coding' \in Rates
    BY <1>1, <1>7, SbReads
  <2> QED BY <1>0, <1>7, <2>1
<1> QED BY <1>2, <1>3, <1>4, <1>5, <1>6, <1>7

\* One byte of the client.
LEMMA PumpTcpKeeps ==
  ASSUME BridgeInv, PumpTcp
  PROVE  BridgeInv'
<1>0. Typed /\ Faithful /\ ClientReadsTheLine
  BY DEF BridgeInv
<1>1. /\ client \in {"none", "raw", "telnet"} /\ coding \in Rates
      /\ rx \in Seq(Byte) /\ wire \in Seq(Byte) /\ owed \in Seq(Byte)
      /\ sb_buf \in Seq(Byte) /\ Len(sb_buf) <= SB_MAX
      /\ source \in [Sources -> Seq(Byte)]
  BY <1>0 DEF Typed
<1>2. rx # <<>> /\ rx' = Tail(rx) /\ UNCHANGED <<client, wire, source>>
  BY DEF PumpTcp, TcpMoves, session
<1>3. PICK b, q : b = Head(rx) /\ q = rx \o wire
  OBVIOUS
<1>4. b \in Byte /\ rx' \in Seq(Byte) /\ q \in Seq(Byte) /\ q # <<>> /\ Head(q) = b /\ Tail(q) = rx' \o wire'
  BY <1>1, <1>2, <1>3, FirstOff
<1>5. CASE client = "telnet"
  <2>1. tn_process(b)
    BY <1>3, <1>5 DEF PumpTcp
  <2>2. Reads(tn_state, q, owed, "DATA")
    BY <1>0, <1>3, <1>5 DEF Faithful
  <2>3. tn_state \in States
    BY <1>4, <2>2, ReadsStep
  <2>4. PICK rest \in Seq(Byte) : owed = Emits(tn_state, b) \o rest /\ Reads(Goes(tn_state, b), Tail(q), rest, "DATA")
    BY <1>4, <2>2, ReadsStep
  <2>5. tn_state' = Goes(tn_state, b) /\ owed' = rest
    BY <1>4, <2>1, <2>3, <2>4, ProcessReads
  <2>6. Reads(tn_state', rx' \o wire', owed', "DATA")
    BY <1>4, <2>4, <2>5
  <2>7. ClientReadsTheLine' /\ coding' \in Rates /\ sb_buf' \in Seq(Byte) /\ Len(sb_buf') <= SB_MAX
    BY <1>0, <1>4, <1>5, <2>1, ProcessKeeps
  <2>8. Typed'
    BY <1>1, <1>2, <1>4, <2>5, <2>7 DEF Typed
  <2>9. Faithful'
    BY <1>2, <1>5, <2>6 DEF Faithful
  <2> QED BY <2>7, <2>8, <2>9 DEF BridgeInv
<1>6. CASE client = "raw"
  <2>1. ToLine(b) /\ UNCHANGED <<sb_buf, coding>>
    BY <1>3, <1>6 DEF PumpTcp, tn
  <2>2. owed = q
    BY <1>0, <1>3, <1>6 DEF Faithful
  <2>3. owed' = Tail(q)
    BY <1>4, <2>1, <2>2 DEF ToLine
  <2>4. ClientReadsTheLine'
    BY <1>0, <1>4, <2>1, FanReads DEF ToLine
  <2>5. owed' \in Seq(Byte)
    BY <1>4, <2>3
  <2>6. Typed'
    BY <1>1, <1>2, <1>4, <2>1, <2>5 DEF Typed
  <2>7. Faithful'
    BY <1>2, <1>4, <1>6, <2>3 DEF Faithful
  <2> QED BY <2>4, <2>6, <2>7 DEF BridgeInv
<1>7. client # "none"
  BY <1>0, <1>2 DEF Faithful
<1> QED BY <1>1, <1>5, <1>6, <1>7

\* A client takes the line: what it is going to send is what it means.
LEMMA AcceptKeeps ==
  ASSUME BridgeInv, NEW port \in {"raw", "telnet"}, NEW script \in Scripts, bridge_accept(port, script)
  PROVE  BridgeInv'
<1>0. Typed /\ Faithful /\ ClientReadsTheLine
  BY DEF BridgeInv
<1>1. script \in Seq(Units)
  BY BridgeBounds
<1>2. /\ client = "none" /\ client' = port /\ tn_state' = "DATA" /\ owed' = Meant(script)
      /\ wire' = (IF port = "raw" THEN owed' ELSE Sent(script))
      /\ UNCHANGED <<rx, sb_buf, coding, source, faults>>
  BY DEF bridge_accept, Sent, Meant
<1>3. Sent(script) \in Seq(Byte) /\ Meant(script) \in Seq(Byte) /\ Reads("DATA", Sent(script), Meant(script), "DATA")
  BY <1>1, ReadsScript
<1>4. rx' = <<>>
  BY <1>0, <1>2 DEF Faithful
<1>5. wire' \in Seq(Byte) /\ owed' \in Seq(Byte)
  BY <1>2, <1>3
<1>6. rx' \o wire' = wire'
  BY <1>4, <1>5
<1>7. Typed'
  BY <1>0, <1>2, <1>5 DEF Typed
<1>8. Faithful'
  BY <1>2, <1>3, <1>6 DEF Faithful
<1>9. ClientReadsTheLine'
  BY <1>0, <1>2 DEF ClientReadsTheLine
<1> QED BY <1>7, <1>8, <1>9 DEF BridgeInv

\* However the bytes are cut into segments, their order is the same.
LEMMA RecvKeeps ==
  ASSUME BridgeInv, NEW n \in 1 .. WND, bridge_recv(n)
  PROVE  BridgeInv'
<1>0. Typed /\ Faithful /\ ClientReadsTheLine
  BY DEF BridgeInv
<1>1. /\ client # "none" /\ n <= Len(wire) /\ rx' = rx \o SubSeq(wire, 1, n) /\ wire' = SubSeq(wire, n + 1, Len(wire))
      /\ UNCHANGED <<client, tn_state, sb_buf, coding, source, owed, faults>>
  BY DEF bridge_recv, tn
<1>2. rx \in Seq(Byte) /\ wire \in Seq(Byte) /\ WND \in Nat
  BY <1>0, BridgeBounds DEF Typed
<1>3. PICK a, c : a = SubSeq(wire, 1, n) /\ c = SubSeq(wire, n + 1, Len(wire))
  OBVIOUS
<1>4. a \in Seq(Byte) /\ c \in Seq(Byte)
  <2>1. a \in Seq(Byte)
    BY <1>1, <1>2, <1>3
  <2>2. c \in Seq(Byte)
    BY <1>1, <1>2, <1>3
  <2> QED BY <2>1, <2>2
<1>5. a \o c = wire
  <2>1. Len(wire) \in Nat
    BY <1>2
  <2>2. 1 \in 1 .. Len(wire) + 1 /\ n \in 1 - 1 .. Len(wire) /\ Len(wire) \in n .. Len(wire)
    BY <1>1, <1>2, <2>1
  <2>3. SubSeq(wire, 1, n) \o SubSeq(wire, n + 1, Len(wire)) = SubSeq(wire, 1, Len(wire))
    BY <1>2, <2>2, ConcatAdjacentSubSeq
  <2> QED BY <1>2, <1>3, <2>3, PrefixEnds
<1>6. rx' \in Seq(Byte) /\ wire' \in Seq(Byte)
  BY <1>1, <1>2, <1>3, <1>4, Glued
<1>7. rx' \o wire' = rx \o wire
  <2>1. (rx \o a) \o c = rx \o (a \o c)
    BY <1>2, <1>4, Regroup, Zenon
  <2> QED BY <1>1, <1>3, <1>5, <2>1
<1>8. Typed'
  BY <1>0, <1>1, <1>6 DEF Typed
<1>9. Faithful'
  BY <1>0, <1>1, <1>7 DEF Faithful
<1>10. ClientReadsTheLine'
  BY <1>0, <1>1 DEF ClientReadsTheLine
<1> QED BY <1>8, <1>9, <1>10 DEF BridgeInv

\* What touches neither the client's bytes nor the parser.
Aside == UNCHANGED <<client, rx, wire, owed, tn_state, sb_buf>>

LEMMA AsideKeeps ==
  ASSUME BridgeInv, Aside, coding' \in Rates, source' \in [Sources -> Seq(Byte)], ClientReadsTheLine'
  PROVE  BridgeInv'
<1>1. Typed'
  BY DEF BridgeInv, Typed, Aside
<1>2. Faithful'
  BY DEF BridgeInv, Faithful, Aside
<1> QED BY <1>1, <1>2 DEF BridgeInv

LEMMA StepKeeps == BridgeInv /\ [Next]_vars => BridgeInv'
<1> SUFFICES ASSUME BridgeInv, [Next]_vars PROVE BridgeInv'
  OBVIOUS
<1>0. coding \in Rates /\ source \in [Sources -> Seq(Byte)] /\ ClientReadsTheLine
  BY DEF BridgeInv, Typed
<1>1. ASSUME NEW src \in Sources, PumpLine(src) PROVE BridgeInv'
  <2>1. Aside /\ UNCHANGED coding /\ source' = [source EXCEPT ![src] = Tail(@)]
        /\ source[src] # <<>> /\ fan_out(src, Head(source[src]))
    BY <1>1 DEF PumpLine, Moves, Aside, session, tn
  <2>2. source[src] \in Seq(Byte)
    BY <1>0
  <2>3. Head(source[src]) \in Byte /\ Tail(source[src]) \in Seq(Byte)
    BY <2>1, <2>2
  <2>4. source' \in [Sources -> Seq(Byte)]
    BY <1>0, <2>1, <2>3
  <2>5. ClientReadsTheLine'
    BY <1>0, <2>1, <2>3, FanReads
  <2> QED BY <1>0, <2>1, <2>4, <2>5, AsideKeeps
<1>2. ASSUME NEW src \in Sources, NEW b \in LineData, Arrive(src, b) PROVE BridgeInv'
  <2>1. Aside /\ UNCHANGED <<coding, faults>> /\ source' = [source EXCEPT ![src] = Append(@, b)]
    BY <1>2 DEF Arrive, Aside, session, tn
  <2>2. b \in Byte /\ source[src] \in Seq(Byte)
    BY <1>0, BridgeBounds
  <2>3. Append(source[src], b) \in Seq(Byte)
    BY <2>2
  <2>4. source' \in [Sources -> Seq(Byte)]
    BY <1>0, <2>1, <2>3
  <2>5. ClientReadsTheLine'
    BY <1>0, <2>1 DEF ClientReadsTheLine
  <2> QED BY <1>0, <2>1, <2>4, <2>5, AsideKeeps
<1>3. CASE Aside /\ UNCHANGED <<source, faults>> /\ coding' \in Rates
  BY <1>0, <1>3, AsideKeeps DEF ClientReadsTheLine
<1>4. CASE Tick \/ NextDirection \/ EndTick \/ Toggle \/ \E sink \in Sinks : Drain(sink)
  BY <1>0, <1>3, <1>4 DEF Tick, NextDirection, EndTick, Toggle, Drain, Aside, session, tn
<1>5. CASE \E r \in Rates : serial_bridge_apply_coding(r)
  BY <1>3, <1>5 DEF serial_bridge_apply_coding, Aside, session, tn
<1>6. CASE Closed
  <2>1. /\ client' = "none" /\ rx' = <<>> /\ wire' = <<>> /\ owed' = <<>> /\ sb_buf' = <<>>
        /\ UNCHANGED <<coding, source>> /\ faults' = faults \ {"miscoded"}
    BY <1>6 DEF Closed, tcp_drop_client
  <2>2. SB_MAX \in Nat /\ <<>> \in Seq(Byte) /\ Len(<<>>) = 0
    BY BridgeBounds
  <2>3. Typed'
    BY <1>0, <2>1, <2>2 DEF Typed
  <2>4. Faithful'
    BY <2>1 DEF Faithful
  <2>5. ClientReadsTheLine'
    BY <1>0, <2>1 DEF ClientReadsTheLine
  <2> QED BY <2>3, <2>4, <2>5 DEF BridgeInv
<1>7. CASE UNCHANGED vars
  BY <1>0, <1>3, <1>7 DEF vars, Aside, session, tn
<1> QED BY <1>1, <1>2, <1>4, <1>5, <1>6, <1>7, PumpTcpKeeps, AcceptKeeps, RecvKeeps DEF Next

\* The inductive invariant: the owed data is what the parser will read in the
\* bytes to come, and every write so far read as it should.
THEOREM AlwaysFaithful == Spec => []BridgeInv
  BY InitSound, StepKeeps, PTL DEF Spec

\* Telnet is undone exactly: once all of a client's bytes are consumed the line has
\* got all the data it meant and nothing else (serial_bridge.c tn_process).
THEOREM LineGets == Spec => []LineGetsWhatWasMeant
<1>1. BridgeInv => LineGetsWhatWasMeant
  <2> SUFFICES ASSUME BridgeInv PROVE LineGetsWhatWasMeant
    OBVIOUS
  <2>1. owed \in Seq(Byte) /\ client \in {"none", "raw", "telnet"}
    BY DEF BridgeInv, Typed
  <2>2. ASSUME client # "none", wire = <<>>, rx = <<>> PROVE owed = <<>>
    <3>1. rx \o wire = <<>>
      BY <2>2
    <3>2. CASE client = "raw"
      BY <3>1, <3>2 DEF BridgeInv, Faithful
    <3>3. CASE client = "telnet"
      BY <3>1, <3>3, ReadsNothing DEF BridgeInv, Faithful
    <3> QED BY <2>1, <2>2, <3>2, <3>3
  <2> QED BY <2>1, <2>2 DEF LineGetsWhatWasMeant
<1> QED BY <1>1, AlwaysFaithful, PTL

\* A telnet client reads every write as it should: a byte of the line as that
\* byte, 0xFF included, and a reply as no data, whatever payload it echoes
\* (fan_out's and tn_comport_ack's escapes).  Excepted are replies to a command
\* whose code, cmd + 100, is 0xFF: tn_comport_ack does not escape it.
THEOREM ClientReads == Spec => []ClientReadsTheLine
<1>1. BridgeInv => ClientReadsTheLine
  BY DEF BridgeInv
<1> QED BY <1>1, AlwaysFaithful, PTL

\* sb_buf and the reply buffer of tn_comport_ack are never written past their
\* ends: the loop's margin of three covers a last byte that is escaped.
THEOREM AlwaysBuffersHold == Spec => []BuffersHold
<1>1. BridgeInv => BuffersHold
  <2> SUFFICES ASSUME BridgeInv PROVE BuffersHold
    OBVIOUS
  <2>1. sb_buf \in Seq(Byte) /\ Len(sb_buf) <= SB_MAX
    BY DEF BridgeInv, Typed
  <2>2. SubSeq(sb_buf, 3, Len(sb_buf)) \in Seq(Byte)
    BY <2>1
  <2>3. "set" \in Byte
    BY NamedBytes DEF Named
  <2> QED BY <2>1, <2>2, <2>3, AckFits DEF BuffersHold
<1> QED BY <1>1, AlwaysFaithful, PTL

\* Every step keeps the line from overrunning a sink.
LEMMA OverrunStep == NoOverrun /\ [Next]_vars => NoOverrun'
<1> SUFFICES ASSUME NoOverrun, [Next]_vars PROVE NoOverrun'
  OBVIOUS
<1>1. ASSUME NEW src, NEW b, fan_out(src, b), sinks_ready(src) PROVE NoOverrun'
  BY <1>1 DEF fan_out, sinks_ready, NoOverrun, Misread
<1>2. ASSUME NEW cmd, NEW reply, tn_send(cmd, reply) PROVE NoOverrun'
  BY <1>2 DEF tn_send, NoOverrun, Misread
<1>3. CASE UNCHANGED faults
  BY <1>3 DEF NoOverrun
<1>4. ASSUME NEW src \in Sources, PumpLine(src) PROVE NoOverrun'
  BY <1>1, <1>4 DEF PumpLine, Moves
<1>5. CASE PumpTcp
  <2>1. CASE client # "telnet"
    BY <1>1, <1>5, <2>1 DEF PumpTcp, TcpMoves, tn_next_is_data, ToLine
  <2>2. CASE client = "telnet"
    <3>1. tn_process(Head(rx)) /\ (tn_next_is_data(Head(rx)) => sinks_ready("tcp"))
      BY <1>5, <2>2 DEF PumpTcp, TcpMoves
    <3> DEFINE b == Head(rx)
    <3> HIDE DEF b
    <3>2. tn_process(b) /\ (tn_next_is_data(b) => sinks_ready("tcp"))
      BY <3>1 DEF b
    <3>3. \/ UNCHANGED faults
          \/ tn_next_is_data(b) /\ fan_out("tcp", b)
          \/ tn_handle_verb(tn_verb, b)
          \/ tn_handle_sb
      BY <3>2 DEF tn_process, OnlyState, ToLine, tn_next_is_data
    <3>4. CASE tn_handle_verb(tn_verb, b)
      BY <1>2, <3>4 DEF tn_handle_verb
    <3>5. CASE tn_handle_sb
      BY <1>2, <1>3, <3>5 DEF tn_handle_sb
    <3> QED BY <1>1, <1>3, <3>2, <3>3, <3>4, <3>5
  <2> QED BY <2>1, <2>2
<1>6. CASE Tick \/ NextDirection \/ EndTick \/ Toggle
  BY <1>3, <1>6 DEF Tick, NextDirection, EndTick, Toggle
<1>9. CASE Closed
  BY <1>9 DEF Closed, tcp_drop_client, NoOverrun
<1>7. CASE \/ \E port \in {"raw", "telnet"}, script \in Scripts : bridge_accept(port, script)
           \/ \E n \in 1 .. WND : bridge_recv(n)
           \/ \E r \in Rates : serial_bridge_apply_coding(r)
           \/ \E src \in Sources, b \in LineData : Arrive(src, b)
           \/ \E sink \in Sinks : Drain(sink)
  BY <1>3, <1>7 DEF bridge_accept, bridge_recv, serial_bridge_apply_coding, Arrive, Drain
<1>8. CASE UNCHANGED vars
  BY <1>3, <1>8 DEF vars
<1> QED BY <1>4, <1>5, <1>6, <1>7, <1>8, <1>9 DEF Next

\* No byte is handed to a sink that cannot take it: serial_bridge_task asks
\* sinks_ready exactly for the bytes that tn_process passes on, as tn_next_is_data
\* foresees them.
THEOREM NeverOverrun == Spec => []NoOverrun
<1>1. Init => NoOverrun
  BY DEF Init, NoOverrun
<1> QED BY <1>1, OverrunStep, PTL DEF Spec
=============================================================================
