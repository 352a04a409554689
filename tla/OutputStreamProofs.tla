------------------------- MODULE OutputStreamProofs -------------------------
(***************************************************************************)
(* Proofs about one captured output stream: what is logged and what is     *)
(* passed through is in order whatever fails, and as long as nothing fails *)
(* nothing is lost, rotation keeps whole lines and every line has its      *)
(* prefix.                                                                 *)
(***************************************************************************)
EXTENDS OutputStream, SequenceFacts

(* Every byte of the first sequence was written before those of the second. *)
Before(a, b) ==
    \A k \in DOMAIN a, l \in DOMAIN b :
        a[k].n # 0 /\ b[l].n # 0 => a[k].n < b[l].n

(* The next byte begins a line. *)
AtLineStart(bytes) == bytes = <<>> \/ bytes[Len(bytes)].nl

-----------------------------------------------------------------------------
(* Sequences of bytes. *)
Bytes == [n : Nat, nl : BOOLEAN]

(* Where an element of a concatenation comes from. *)
LEMMA ConcatAt ==
    ASSUME NEW S, NEW a \in Seq(S), NEW b \in Seq(S)
    PROVE  /\ a \o b \in Seq(S)
           /\ Len(a \o b) = Len(a) + Len(b)
           /\ \A k \in DOMAIN a : k \in DOMAIN (a \o b) /\ (a \o b)[k] = a[k]
           /\ \A k \in DOMAIN b :
                Len(a) + k \in DOMAIN (a \o b) /\ (a \o b)[Len(a) + k] = b[k]
           /\ \A k \in DOMAIN (a \o b) :
                \/ k \in DOMAIN a
                \/ \E l \in DOMAIN b : k = Len(a) + l
<1> DEFINE c == a \o b
<1>1. c \in Seq(S) /\ Len(c) = Len(a) + Len(b)
  OBVIOUS
<1>2. DOMAIN a = 1..Len(a) /\ DOMAIN b = 1..Len(b) /\ DOMAIN c = 1..Len(c)
  BY <1>1
<1>3. \A k \in 1..Len(a) + Len(b) : c[k] = IF k <= Len(a) THEN a[k] ELSE b[k - Len(a)]
  BY ConcatProperties
<1>4. Len(a) \in Nat /\ Len(b) \in Nat
  OBVIOUS
<1> DEFINE la == Len(a)
           lb == Len(b)
<1> HIDE DEF c, la, lb
<1>5. \A k \in DOMAIN a : k \in DOMAIN c /\ c[k] = a[k]
  BY <1>1, <1>2, <1>3, <1>4 DEF la, lb
<1>6. \A k \in DOMAIN b : Len(a) + k \in DOMAIN c /\ c[Len(a) + k] = b[k]
  <2> TAKE k \in DOMAIN b
  <2>1. la \in Nat /\ lb \in Nat /\ k \in 1..lb
    BY <1>2, <1>4 DEF la, lb
  <2>2. la + k \in 1..la + lb /\ ~(la + k <= la) /\ (la + k) - la = k
    BY <2>1
  <2>3. c[la + k] = b[(la + k) - la]
    BY <1>3, <2>2 DEF la, lb
  <2> QED BY <1>1, <1>2, <2>2, <2>3 DEF la, lb
<1>7. \A k \in DOMAIN c : k \in DOMAIN a \/ \E l \in DOMAIN b : k = Len(a) + l
  <2> TAKE k \in DOMAIN c
  <2>1. la \in Nat /\ lb \in Nat /\ k \in 1..la + lb
    BY <1>1, <1>2, <1>4 DEF la, lb
  <2>2. CASE k <= la
    BY <1>2, <2>1, <2>2 DEF la
  <2>3. CASE ~(k <= la)
    <3>1. k - la \in 1..lb /\ k = la + (k - la)
      BY <2>1, <2>3
    <3> QED BY <1>2, <3>1 DEF la, lb
  <2> QED BY <2>2, <2>3
<1> QED BY <1>1, <1>5, <1>6, <1>7 DEF c

(* A concatenation is in order when its parts are, one after the other. *)
LEMMA AscendingConcat ==
    ASSUME NEW a \in Seq(Bytes), NEW b \in Seq(Bytes)
    PROVE  Ascending(a \o b) <=> Ascending(a) /\ Ascending(b) /\ Before(a, b)
<1> DEFINE c == a \o b
           la == Len(a)
<1>1. /\ c \in Seq(Bytes)
      /\ \A k \in DOMAIN a : k \in DOMAIN c /\ c[k] = a[k]
      /\ \A k \in DOMAIN b : la + k \in DOMAIN c /\ c[la + k] = b[k]
      /\ \A k \in DOMAIN c : k \in DOMAIN a \/ \E l \in DOMAIN b : k = la + l
  BY ConcatAt
<1>2. la \in Nat /\ DOMAIN a = 1..la /\ DOMAIN b \subseteq Nat \ {0}
  OBVIOUS
<1> HIDE DEF c, la
<1>3. ASSUME Ascending(c) PROVE Ascending(a) /\ Ascending(b) /\ Before(a, b)
  <2>1. Ascending(a)
    BY <1>1, <1>3 DEF Ascending
  <2>2. Ascending(b)
    <3> SUFFICES ASSUME NEW k \in DOMAIN b, NEW l \in DOMAIN b, k < l,
                        b[k].n # 0, b[l].n # 0
                 PROVE  b[k].n < b[l].n
      BY DEF Ascending
    <3>1. la + k < la + l
      BY <1>2
    <3> QED BY <1>1, <1>3, <3>1 DEF Ascending
  <2>3. Before(a, b)
    <3> SUFFICES ASSUME NEW k \in DOMAIN a, NEW l \in DOMAIN b, a[k].n # 0, b[l].n # 0
                 PROVE  a[k].n < b[l].n
      BY DEF Before
    <3>1. k < la + l
      BY <1>2
    <3> QED BY <1>1, <1>3, <3>1 DEF Ascending
  <2> QED BY <2>1, <2>2, <2>3
<1>4. ASSUME Ascending(a), Ascending(b), Before(a, b) PROVE Ascending(c)
  <2> SUFFICES ASSUME NEW k \in DOMAIN c, NEW l \in DOMAIN c, k < l,
                      c[k].n # 0, c[l].n # 0
               PROVE  c[k].n < c[l].n
    BY DEF Ascending
  <2>1. CASE k \in DOMAIN a /\ l \in DOMAIN a
    BY <1>1, <1>4, <2>1 DEF Ascending
  <2>2. ASSUME k \in DOMAIN a, NEW m \in DOMAIN b, l = la + m PROVE c[k].n < c[l].n
    BY <1>1, <1>4, <2>2 DEF Before
  <2>3. ASSUME NEW m \in DOMAIN b, k = la + m, NEW o \in DOMAIN b, l = la + o
        PROVE  c[k].n < c[l].n
    <3>1. m < o
      BY <1>2, <2>3
    <3> QED BY <1>1, <1>4, <2>3, <3>1 DEF Ascending
  <2>4. ASSUME NEW m \in DOMAIN b, k = la + m, l \in DOMAIN a PROVE FALSE
    BY <1>2, <2>4
  <2> QED BY <1>1, <2>1, <2>2, <2>3, <2>4
<1> QED BY <1>3, <1>4 DEF c

(* Before is about the elements of its arguments. *)
LEMMA BeforeConcat ==
    ASSUME NEW a \in Seq(Bytes), NEW b \in Seq(Bytes), NEW d
    PROVE  /\ Before(a \o b, d) <=> Before(a, d) /\ Before(b, d)
           /\ Before(d, a \o b) <=> Before(d, a) /\ Before(d, b)
<1> DEFINE c == a \o b
           la == Len(a)
<1>1. /\ \A k \in DOMAIN a : k \in DOMAIN c /\ c[k] = a[k]
      /\ \A k \in DOMAIN b : la + k \in DOMAIN c /\ c[la + k] = b[k]
      /\ \A k \in DOMAIN c : k \in DOMAIN a \/ \E l \in DOMAIN b : k = la + l
  BY ConcatAt
<1> HIDE DEF c, la
<1>2. Before(c, d) <=> Before(a, d) /\ Before(b, d)
  BY <1>1 DEF Before
<1>3. Before(d, c) <=> Before(d, a) /\ Before(d, b)
  BY <1>1 DEF Before
<1> QED BY <1>2, <1>3 DEF c

(* So is Occurs. *)
LEMMA OccursConcat ==
    ASSUME NEW a \in Seq(Bytes), NEW b \in Seq(Bytes), NEW n
    PROVE  Occurs(n, a \o b) <=> Occurs(n, a) \/ Occurs(n, b)
<1> DEFINE c == a \o b
           la == Len(a)
<1>1. /\ \A k \in DOMAIN a : k \in DOMAIN c /\ c[k] = a[k]
      /\ \A k \in DOMAIN b : la + k \in DOMAIN c /\ c[la + k] = b[k]
      /\ \A k \in DOMAIN c : k \in DOMAIN a \/ \E l \in DOMAIN b : k = la + l
  BY ConcatAt
<1> HIDE DEF c, la
<1>2. Occurs(n, c) <=> Occurs(n, a) \/ Occurs(n, b)
  BY <1>1 DEF Occurs
<1> QED BY <1>2 DEF c

(* Nothing is out of order where there is nothing. *)
LEMMA NoBytes ==
    ASSUME NEW d
    PROVE  /\ <<>> \in Seq(Bytes) /\ Ascending(<<>>)
           /\ Before(<<>>, d) /\ Before(d, <<>>)
           /\ \A n : ~Occurs(n, <<>>)
BY DEF Ascending, Before, Occurs

(* What is taken from the front of a sequence and what is left. *)
LEMMA Split ==
    ASSUME NEW S, NEW s \in Seq(S), NEW m \in 0..Len(s)
    PROVE  /\ SubSeq(s, 1, m) \in Seq(S) /\ SubSeq(s, m + 1, Len(s)) \in Seq(S)
           /\ SubSeq(s, 1, m) \o SubSeq(s, m + 1, Len(s)) = s
           /\ Len(SubSeq(s, 1, m)) = m
           /\ \A k \in 1..m : SubSeq(s, 1, m)[k] = s[k]
           /\ SubSeq(s, m + 1, Len(s)) = <<>> <=> m = Len(s)
<1> DEFINE n == Len(s)
<1>1. n \in Nat /\ m \in Nat /\ m <= n
  OBVIOUS
<1> DEFINE a == SubSeq(s, 1, m)
           b == SubSeq(s, m + 1, n)
<1>2. /\ a \in Seq(S) /\ Len(a) = m /\ \A k \in 1..m : a[k] = s[k]
  <2>1. \A k \in 1..m : k \in 1..n
    BY <1>1
  <2>2. \A k \in 1..m : s[k] \in S
    BY <2>1
  <2> QED BY <1>1, <2>2, SubSeqProperties
<1>3. b \in Seq(S) /\ Len(b) = n - m /\ \A k \in 1..n - m : b[k] = s[m + k]
  <2>1. \A k \in m + 1..n : k \in 1..n
    BY <1>1
  <2>2. \A k \in m + 1..n : s[k] \in S
    BY <2>1
  <2> QED BY <1>1, <2>2, SubSeqProperties
<1>4. a \o b \in Seq(S) /\ Len(a \o b) = n
  <2> HIDE DEF a, b, n
  <2>1. a \o b \in Seq(S) /\ Len(a \o b) = Len(a) + Len(b)
    BY <1>2, <1>3, ConcatProperties
  <2> QED BY <1>1, <1>2, <1>3, <2>1
<1>5. \A k \in 1..n : (a \o b)[k] = s[k]
  <2> TAKE k \in 1..n
  <2> HIDE DEF a, b, n
  <2>1. (a \o b)[k] = IF k <= m THEN a[k] ELSE b[k - m]
    <3>1. a \in Seq(S) /\ b \in Seq(S) /\ k \in 1..Len(a) + Len(b)
      BY <1>1, <1>2, <1>3
    <3>2. (a \o b)[k] = IF k <= Len(a) THEN a[k] ELSE b[k - Len(a)]
      BY <3>1, ConcatProperties
    <3> QED BY <1>2, <3>2
  <2>2. CASE k <= m
    BY <1>1, <1>2, <2>1, <2>2
  <2>3. CASE ~(k <= m)
    <3>1. k - m \in 1..n - m /\ m + (k - m) = k
      BY <1>1, <2>3
    <3> QED BY <1>3, <2>1, <2>3, <3>1
  <2> QED BY <2>2, <2>3
<1>6. a \o b = s
  <2> HIDE DEF a, b
  <2> QED BY <1>4, <1>5, SeqEqual
<1>7. b = <<>> <=> m = n
  <2> HIDE DEF a, b, n
  <2>1. b = <<>> <=> Len(b) = 0
    BY <1>3, EmptySeq
  <2> QED BY <1>1, <1>3, <2>1
<1> QED BY <1>2, <1>3, <1>6, <1>7

-----------------------------------------------------------------------------
(* The log: r has been removed, c[0] is the current file. *)
LogOf(r, c, n) == r \o FlattenSeq([k \in 1..n + 1 |-> c[n + 1 - k]])

(* The files from the oldest on. *)
LEMMA OldestFirst ==
    ASSUME NEW S, NEW n \in Nat, NEW c \in [0..n -> Seq(S)]
    PROVE  LET s == [k \in 1..n + 1 |-> c[n + 1 - k]]
           IN  /\ s \in Seq(Seq(S)) /\ Len(s) = n + 1
               /\ \A k \in 1..n + 1 : n + 1 - k \in 0..n /\ s[k] = c[n + 1 - k]
<1> DEFINE s == [k \in 1..n + 1 |-> c[n + 1 - k]]
<1>1. \A k \in 1..n + 1 : n + 1 - k \in 0..n
  OBVIOUS
<1>2. \A k \in 1..n + 1 : s[k] = c[n + 1 - k] /\ c[n + 1 - k] \in Seq(S)
  BY <1>1
<1>3. s \in [1..n + 1 -> Seq(S)]
  BY <1>2
<1>4. s \in Seq(Seq(S)) /\ Len(s) = n + 1
  <2> HIDE DEF s
  <2>1. n + 1 \in Nat
    OBVIOUS
  <2> QED BY <1>3, <2>1
<1> QED BY <1>1, <1>2, <1>4

(* The log is a sequence of bytes. *)
LEMMA LogType ==
    ASSUME NEW S, NEW n \in Nat, NEW c \in [0..n -> Seq(S)], NEW r \in Seq(S)
    PROVE  LogOf(r, c, n) \in Seq(S)
<1> DEFINE s == [k \in 1..n + 1 |-> c[n + 1 - k]]
<1>1. s \in Seq(Seq(S))
  BY OldestFirst
<1> HIDE DEF s
<1>2. FlattenSeq(s) \in Seq(S)
  BY <1>1, FlattenType
<1>3. r \o FlattenSeq(s) \in Seq(S)
  BY <1>2
<1> QED BY <1>3 DEF LogOf, s

(* Moving every file up and removing the oldest does not change the log. *)
LEMMA LogShift ==
    ASSUME NEW S, NEW n \in Nat, NEW c \in [0..n -> Seq(S)], NEW d \in [0..n -> Seq(S)],
           NEW r \in Seq(S), d[0] = <<>>, \A k \in 1..n : d[k] = c[k - 1]
    PROVE  LogOf(r \o c[n], d, n) = LogOf(r, c, n)
<1> DEFINE s == [k \in 1..n + 1 |-> c[n + 1 - k]]
           t == [k \in 1..n + 1 |-> d[n + 1 - k]]
           m == [k \in 1..n |-> c[n - k]]
<1>1. /\ s \in Seq(Seq(S)) /\ Len(s) = n + 1 /\ \A k \in 1..n + 1 : s[k] = c[n + 1 - k]
  BY OldestFirst
<1>2. /\ t \in Seq(Seq(S)) /\ Len(t) = n + 1 /\ \A k \in 1..n + 1 : t[k] = d[n + 1 - k]
  BY OldestFirst
<1>3. m \in Seq(Seq(S)) /\ Len(m) = n /\ \A k \in 1..n : m[k] = c[n - k]
  <2>1. \A k \in 1..n : n - k \in 0..n
    OBVIOUS
  <2>2. m \in [1..n -> Seq(S)]
    BY <2>1
  <2>3. \A k \in 1..n : m[k] = c[n - k]
    OBVIOUS
  <2> HIDE DEF m
  <2> QED BY <2>2, <2>3
<1> HIDE DEF s, t, m
<1>4. s[1] = c[n] /\ \A k \in 1..Len(m) : s[k + 1] = m[k]
  <2>1. 1 \in 1..n + 1 /\ n + 1 - 1 = n
    OBVIOUS
  <2>2. \A k \in 1..n : k + 1 \in 1..n + 1 /\ n + 1 - (k + 1) = n - k
    OBVIOUS
  <2>3. \A k \in 1..n : s[k + 1] = c[n + 1 - (k + 1)]
    BY <1>1, <2>2
  <2> QED BY <1>1, <1>3, <2>1, <2>2, <2>3
<1>5. c[n] \in Seq(S)
  OBVIOUS
<1>6. FlattenSeq(s) = c[n] \o FlattenSeq(m)
  <2>1. Len(s) = Len(m) + 1
    BY <1>1, <1>3
  <2> QED BY <1>1, <1>3, <1>4, <1>5, <2>1, FlattenFirst
<1> DEFINE e == <<>>
<1>e. e \in Seq(S)
  OBVIOUS
<1> HIDE DEF e
<1>7. t = Append(m, e)
  <2>2. /\ Append(m, e) \in Seq(Seq(S)) /\ Len(Append(m, e)) = n + 1
        /\ Append(m, e)[n + 1] = e
        /\ \A k \in 1..n : Append(m, e)[k] = m[k]
    <3>1. /\ Append(m, e) \in Seq(Seq(S)) /\ Len(Append(m, e)) = Len(m) + 1
          /\ \A k \in 1..Len(m) : Append(m, e)[k] = m[k]
          /\ Append(m, e)[Len(m) + 1] = e
      <4> DEFINE T == Seq(S)
      <4>1. m \in Seq(T) /\ e \in T
        BY <1>3, <1>e
      <4> HIDE DEF T
      <4>2. /\ Append(m, e) \in Seq(T) /\ Len(Append(m, e)) = Len(m) + 1
            /\ \A k \in 1..Len(m) : Append(m, e)[k] = m[k]
            /\ Append(m, e)[Len(m) + 1] = e
        BY <4>1, AppendProperties
      <4> QED BY <4>2 DEF T
    <3> QED BY <1>3, <3>1
  <2>3. \A k \in 1..n + 1 : t[k] = Append(m, e)[k]
    <3> TAKE k \in 1..n + 1
    <3>1. CASE k = n + 1
      <4>1. n + 1 - k = 0
        BY <3>1
      <4> QED BY <1>2, <2>2, <3>1, <4>1 DEF e
    <3>2. CASE k # n + 1
      <4>1. k \in 1..n /\ n + 1 - k \in 1..n /\ n + 1 - k - 1 = n - k
        BY <3>2
      <4>2. d[n + 1 - k] = c[n + 1 - k - 1]
        BY <4>1
      <4> QED BY <1>2, <1>3, <2>2, <4>1, <4>2
    <3> QED BY <3>1, <3>2
  <2> QED BY <1>2, <2>2, <2>3, SeqEqual
<1>8. FlattenSeq(m) \in Seq(S)
  BY <1>3, FlattenType
<1>9. FlattenSeq(t) = FlattenSeq(m)
  <2>1. FlattenSeq(t) = FlattenSeq(m) \o e
    BY <1>3, <1>e, <1>7, FlattenLast
  <2> QED BY <1>8, <2>1, ConcatEmptySeq DEF e
<1>10. (r \o c[n]) \o FlattenSeq(m) = r \o (c[n] \o FlattenSeq(m))
  <2>1. Cat(Cat(r, c[n]), FlattenSeq(m)) = Cat(r, Cat(c[n], FlattenSeq(m)))
    BY <1>5, <1>8, CatAssociative
  <2> QED BY <2>1 DEF Cat
<1>11. LogOf(r, c, n) = r \o FlattenSeq(s) /\ LogOf(r \o c[n], d, n) = (r \o c[n]) \o FlattenSeq(t)
  BY DEF LogOf, s, t
<1> QED BY <1>6, <1>9, <1>10, <1>11

(* x is written to file j of c, and all newer ones are empty. *)
AppendsAt(r, c, d, n, j, x, S) ==
    /\ r \in Seq(S) /\ n \in Nat /\ c \in [0..n -> Seq(S)] /\ d \in [0..n -> Seq(S)]
    /\ j \in 0..n /\ x \in Seq(S) /\ d[j] = c[j] \o x
    /\ \A k \in 0..n : k # j => d[k] = c[k]
    /\ \A k \in 0..n : k < j => c[k] = <<>>

(* Then x comes last in the log. *)
LEMMA LogAppend ==
    ASSUME NEW r, NEW c, NEW d, NEW n, NEW j, NEW x, NEW S, AppendsAt(r, c, d, n, j, x, S)
    PROVE  LogOf(r, d, n) = Cat(LogOf(r, c, n), x)
<1>a. r \in Seq(S) /\ n \in Nat /\ c \in [0..n -> Seq(S)] /\ d \in [0..n -> Seq(S)]
  BY DEF AppendsAt
<1>0. /\ j \in 0..n /\ x \in Seq(S) /\ d[j] = c[j] \o x
      /\ \A k \in 0..n : k # j => d[k] = c[k]
      /\ \A k \in 0..n : k < j => c[k] = <<>>
  BY DEF AppendsAt
<1> DEFINE s == [k \in 1..n + 1 |-> c[n + 1 - k]]
           t == [k \in 1..n + 1 |-> d[n + 1 - k]]
<1>1. /\ s \in Seq(Seq(S)) /\ Len(s) = n + 1
      /\ \A k \in 1..n + 1 : n + 1 - k \in 0..n /\ s[k] = c[n + 1 - k]
  BY <1>a, OldestFirst
<1>2. /\ t \in Seq(Seq(S)) /\ Len(t) = n + 1 /\ \A k \in 1..n + 1 : t[k] = d[n + 1 - k]
  BY <1>a, OldestFirst
<1> HIDE DEF s, t
<1> DEFINE i == n + 1 - j
<1>3. i \in 1..n + 1 /\ n + 1 - i = j
  BY <1>a, <1>0
<1>4. \A k \in 1..n + 1 : k < i => n + 1 - k # j
  BY <1>a, <1>0
<1>5. \A k \in 1..n + 1 : k > i => n + 1 - k < j /\ n + 1 - k # j
  BY <1>a, <1>0
<1> HIDE DEF i
<1>6. i \in 1..Len(s) /\ Len(t) = Len(s) /\ t[i] = s[i] \o x
  BY <1>a, <1>0, <1>1, <1>2, <1>3
<1>7. \A k \in 1..Len(s) : k < i => t[k] = s[k]
  BY <1>a, <1>0, <1>1, <1>2, <1>4
<1>8. \A k \in 1..Len(s) : k > i => s[k] = <<>> /\ t[k] = <<>>
  BY <1>a, <1>0, <1>1, <1>2, <1>5
<1>9. FlattenSeq(t) = FlattenSeq(s) \o x
  <2>1. s \in Seq(Seq(S)) /\ t \in Seq(Seq(S)) /\ x \in Seq(S)
    BY <1>0, <1>1, <1>2
  <2> QED BY <1>6, <1>7, <1>8, <2>1, FlattenAppendAt, ZenonT(60)
<1>10. FlattenSeq(s) \in Seq(S)
  BY <1>1, FlattenType
<1>11. (r \o FlattenSeq(s)) \o x = r \o (FlattenSeq(s) \o x)
  <2>1. Cat(Cat(r, FlattenSeq(s)), x) = Cat(r, Cat(FlattenSeq(s), x))
    BY <1>a, <1>0, <1>10, CatAssociative
  <2> QED BY <2>1 DEF Cat
<1>12. LogOf(r, c, n) = r \o FlattenSeq(s) /\ LogOf(r, d, n) = r \o FlattenSeq(t)
  BY DEF LogOf, s, t
<1> QED BY <1>9, <1>11, <1>12 DEF Cat

-----------------------------------------------------------------------------
(* Prefixes *)

(* What follows a newline is a prefix. *)
Inside(p) == \A k \in DOMAIN p : k > 1 /\ p[k - 1].nl => p[k].n = 0

(* Lines stay prefixed when a newline is followed by a prefix. *)
LEMMA InsideConcat ==
    ASSUME NEW a \in Seq(Bytes), NEW b \in Seq(Bytes), a # <<>>, b # <<>>
    PROVE  /\ (a \o b)[1] = a[1] /\ (a \o b)[Len(a \o b)] = b[Len(b)]
           /\ a \o b # <<>>
           /\ Inside(a) /\ Inside(b) /\ (a[Len(a)].nl => b[1].n = 0) => Inside(a \o b)
<1> DEFINE c == a \o b
           la == Len(a)
           lb == Len(b)
<1>1. /\ c \in Seq(Bytes) /\ Len(c) = la + lb
      /\ \A k \in DOMAIN a : k \in DOMAIN c /\ c[k] = a[k]
      /\ \A k \in DOMAIN b : la + k \in DOMAIN c /\ c[la + k] = b[k]
      /\ \A k \in DOMAIN c : k \in DOMAIN a \/ \E l \in DOMAIN b : k = la + l
  BY ConcatAt
<1>2. /\ la \in Nat \ {0} /\ DOMAIN a = 1..la
      /\ lb \in Nat \ {0} /\ DOMAIN b = 1..lb
  OBVIOUS
<1> HIDE DEF c, la, lb
<1>3. 1 \in DOMAIN a /\ la \in DOMAIN a /\ 1 \in DOMAIN b /\ lb \in DOMAIN b
  BY <1>2
<1>4. c[1] = a[1] /\ c[Len(c)] = b[lb] /\ c # <<>>
  <2>1. c[1] = a[1] /\ c[la + lb] = b[lb]
    BY <1>1, <1>3
  <2>2. Len(c) # 0
    BY <1>1, <1>2
  <2>3. c # <<>>
    BY <2>2
  <2> QED BY <1>1, <2>1, <2>3
<1>5. ASSUME Inside(a), Inside(b), a[la].nl => b[1].n = 0 PROVE Inside(c)
  <2> SUFFICES ASSUME NEW k \in DOMAIN c, k > 1, c[k - 1].nl PROVE c[k].n = 0
    BY DEF Inside
  <2>1. CASE k \in DOMAIN a
    <3>1. k - 1 \in DOMAIN a
      BY <1>2, <2>1
    <3> QED BY <1>1, <1>5, <2>1, <3>1 DEF Inside
  <2>2. ASSUME NEW l \in DOMAIN b, k = la + l, l = 1 PROVE c[k].n = 0
    <3>1. k - 1 = la
      BY <1>2, <2>2
    <3> QED BY <1>1, <1>3, <1>5, <2>2, <3>1
  <2>3. ASSUME NEW l \in DOMAIN b, k = la + l, l # 1 PROVE c[k].n = 0
    <3>1. l - 1 \in DOMAIN b /\ k - 1 = la + (l - 1) /\ l > 1
      BY <1>2, <2>3
    <3> QED BY <1>1, <1>5, <2>3, <3>1 DEF Inside
  <2> QED BY <1>1, <2>1, <2>2, <2>3
<1> QED BY <1>4, <1>5 DEF c, la, lb

(* One byte, with or without a prefix. *)
IsPiece(t, x, S) ==
    /\ t \in Seq(S) /\ t \in Seq(Bytes) /\ t # <<>> /\ t[Len(t)] = x
    /\ Inside(t) /\ Ascending(t)
    /\ \A m \in Nat \ {0} : Occurs(m, t) <=> x.n = m
    /\ t = <<PrefixByte, x>> => t[1].n = 0

(* The two forms of a piece are one. *)
LEMMA Piece ==
    ASSUME NEW S \in SUBSET Bytes, PrefixByte \in S, NEW x \in S,
           NEW t \in {<<x>>, <<PrefixByte, x>>}
    PROVE  IsPiece(t, x, S)
<1>1. PrefixByte.n = 0 /\ PrefixByte.nl = FALSE
  BY DEF PrefixByte
<1>2. CASE t = <<x>>
  <2>1. Len(t) = 1 /\ DOMAIN t = {1} /\ t[1] = x /\ t \in Seq(S) /\ t \in Seq(Bytes)
    BY <1>2
  <2>2. t # <<PrefixByte, x>>
    BY <1>2
  <2>3. t # <<>> /\ t[Len(t)] = x
    BY <2>1
  <2>4. \A m \in Nat \ {0} : Occurs(m, t) <=> x.n = m
    BY <2>1 DEF Occurs
  <2>5. Inside(t) /\ Ascending(t)
    BY <2>1 DEF Inside, Ascending
  <2> QED BY <2>1, <2>2, <2>3, <2>4, <2>5 DEF IsPiece
<1>3. CASE t = <<PrefixByte, x>>
  <2>1. /\ Len(t) = 2 /\ DOMAIN t = {1, 2} /\ t[1] = PrefixByte /\ t[2] = x
        /\ t \in Seq(S) /\ t \in Seq(Bytes)
    BY <1>3
  <2>2. t # <<>> /\ t[Len(t)] = x /\ t[1].n = 0
    BY <1>1, <2>1
  <2>3. \A m \in Nat \ {0} : Occurs(m, t) <=> x.n = m
    BY <1>1, <2>1 DEF Occurs
  <2>4. Inside(t) /\ Ascending(t)
    BY <1>1, <2>1 DEF Inside, Ascending
  <2> QED BY <2>1, <2>2, <2>3, <2>4 DEF IsPiece
<1> QED BY <1>2, <1>3

(* What prefixing does to the bytes of one read: they all stay, in order,  *)
(* and the last one is the last.                                           *)
LEMMA PrefixFacts ==
    ASSUME NEW S \in SUBSET Bytes, PrefixByte \in S, NEW b \in Seq(S), b # <<>>,
           NEW start \in BOOLEAN, NEW q \in Seq(Seq(S)), Len(q) = Len(b),
           \A k \in 1..Len(b) : q[k] \in {<<b[k]>>, <<PrefixByte, b[k]>>},
           start => q[1] = <<PrefixByte, b[1]>>,
           \A k \in 2..Len(b) : b[k - 1].nl => q[k] = <<PrefixByte, b[k]>>
    PROVE  /\ FlattenSeq(q) \in Seq(S) /\ FlattenSeq(q) # <<>>
           /\ FlattenSeq(q)[Len(FlattenSeq(q))] = b[Len(b)]
           /\ \A m \in Nat \ {0} : Occurs(m, FlattenSeq(q)) <=> Occurs(m, b)
           /\ Ascending(b) => Ascending(FlattenSeq(q))
           /\ start => FlattenSeq(q)[1].n = 0
           /\ Inside(FlattenSeq(q))
<1> DEFINE n == Len(b)
<1>1. n \in Nat \ {0} /\ Len(q) = n /\ q # <<>> /\ DOMAIN b = 1..n
  OBVIOUS
<1>2. \A k \in 1..n : b[k] \in S /\ b[k] \in Bytes /\ b[k].n \in Nat
  BY DEF Bytes
<1>3. PICK f : Flattens(f, q, S)
  BY <1>1, FlattensExists
<1> HIDE DEF n
<1>4. /\ f \in [1..n -> Seq(S)] /\ f[1] = q[1]
      /\ \A i \in 2..n : f[i] = f[i - 1] \o q[i]
  BY <1>1, <1>3 DEF Flattens
<1>5. FlattenSeq(q) = f[n]
  BY <1>1, <1>3, FlattenIsLast
<1>6. \A k \in 1..n : /\ q[k] \in {<<b[k]>>, <<PrefixByte, b[k]>>}
                      /\ k \in 2..n /\ b[k - 1].nl => q[k] = <<PrefixByte, b[k]>>
  BY DEF n
<1>7. \A k \in 1..n :
         /\ q[k] \in Seq(S) /\ q[k] \in Seq(Bytes) /\ q[k] # <<>> /\ q[k][Len(q[k])] = b[k]
         /\ Inside(q[k]) /\ Ascending(q[k])
         /\ \A m \in Nat \ {0} : Occurs(m, q[k]) <=> b[k].n = m
         /\ q[k] = <<PrefixByte, b[k]>> => q[k][1].n = 0
  <2> TAKE k \in 1..n
  <2>1. PICK x \in S : x = b[k]
    BY <1>2
  <2>2. PICK t \in {<<x>>, <<PrefixByte, x>>} : t = q[k]
    BY <1>6, <2>1
  <2>3. IsPiece(t, x, S)
    BY Piece
  <2> QED BY <2>1, <2>2, <2>3 DEF IsPiece
<1> DEFINE Good(p, i) ==
              /\ p \in Seq(Bytes) /\ p # <<>> /\ p[Len(p)] = b[i]
              /\ \A m \in Nat \ {0} : Occurs(m, p) <=> \E k \in 1..i : b[k].n = m
              /\ Ascending(b) => Ascending(p)
              /\ start => p[1].n = 0
              /\ Inside(p)
           bad == {i \in Nat : i \in 1..n /\ ~Good(f[i], i)}
<1>8. Good(f[1], 1)
  <2>1. 1 \in 1..n /\ 1..1 = {1}
    BY <1>1
  <2>2. start => q[1][1].n = 0
    BY <1>7, <2>1
  <2> QED BY <1>4, <1>7, <2>1, <2>2
<1>9. ASSUME NEW i \in 2..n, Good(f[i - 1], i - 1) PROVE Good(f[i], i)
  <2>1. i \in 1..n /\ i - 1 \in 1..n /\ 1..i = (1..(i - 1)) \cup {i}
    BY <1>1
  <2>2. PICK p : p = f[i - 1]
    OBVIOUS
  <2>3. PICK t : t = q[i]
    OBVIOUS
  <2>4. Good(p, i - 1)
    BY <1>9, <2>2
  <2>5. /\ t \in Seq(Bytes) /\ t # <<>> /\ t[Len(t)] = b[i] /\ Inside(t) /\ Ascending(t)
        /\ \A m \in Nat \ {0} : Occurs(m, t) <=> b[i].n = m
    BY <1>7, <2>1, <2>3
  <2>6. b[i - 1].nl => t[1].n = 0
    BY <1>6, <1>7, <2>1, <2>3
  <2>7. f[i] = p \o t
    BY <1>4, <2>2, <2>3
  <2>8. /\ p \o t \in Seq(Bytes) /\ p \o t # <<>> /\ (p \o t)[Len(p \o t)] = b[i]
        /\ (p \o t)[1] = p[1] /\ Inside(p \o t)
    <3>1. p \o t \in Seq(Bytes)
      BY <2>4, <2>5
    <3> QED BY <2>4, <2>5, <2>6, <3>1, InsideConcat
  <2>9. \A m \in Nat \ {0} : Occurs(m, p \o t) <=> \E k \in 1..i : b[k].n = m
    <3> TAKE m \in Nat \ {0}
    <3>1. Occurs(m, p \o t) <=> Occurs(m, p) \/ Occurs(m, t)
      BY <2>4, <2>5, OccursConcat
    <3> QED BY <2>1, <2>4, <2>5, <3>1
  <2>10. ASSUME Ascending(b) PROVE Ascending(p \o t)
    <3>1. \A k \in 1..(i - 1) : k \in 1..n /\ k < i
      BY <1>1, <2>1
    <3>2. \A k \in 1..(i - 1) : b[k].n # 0 /\ b[i].n # 0 => b[k].n < b[i].n
      BY <1>1, <2>1, <2>10, <3>1 DEF Ascending
    <3>3. Before(p, t)
      <4> SUFFICES ASSUME NEW k \in DOMAIN p, NEW l \in DOMAIN t, p[k].n # 0, t[l].n # 0
                   PROVE  p[k].n < t[l].n
        BY DEF Before
      <4>1. p[k].n \in Nat /\ t[l].n \in Nat
        <5>1. p[k] \in Bytes /\ t[l] \in Bytes
          BY <2>4, <2>5
        <5> QED BY <5>1 DEF Bytes
      <4>2. Occurs(p[k].n, p) /\ Occurs(t[l].n, t)
        BY DEF Occurs
      <4>3. PICK j \in 1..(i - 1) : b[j].n = p[k].n
        BY <2>4, <4>1, <4>2
      <4>4. b[i].n = t[l].n
        BY <2>5, <4>1, <4>2
      <4> QED BY <3>2, <4>3, <4>4
    <3> QED BY <2>4, <2>5, <2>10, <3>3, AscendingConcat
  <2> QED BY <2>4, <2>7, <2>8, <2>9, <2>10
<1>10. bad = {}
  <2> SUFFICES ASSUME bad # {} PROVE FALSE
    OBVIOUS
  <2> HIDE DEF Good
  <2>1. PICK i \in bad : \A m \in bad : i <= m
    BY Least
  <2>2. CASE i = 1
    BY <1>8, <2>1, <2>2
  <2>3. CASE i # 1
    <3>1. i \in 2..n /\ i - 1 \in 1..n /\ i - 1 \in Nat /\ ~(i <= i - 1)
      BY <1>1, <2>1, <2>3
    <3>2. i - 1 \notin bad
      BY <2>1, <3>1
    <3>3. Good(f[i - 1], i - 1)
      BY <3>1, <3>2
    <3> QED BY <1>9, <2>1, <3>1, <3>3
  <2> QED BY <2>2, <2>3
<1>11. Good(f[n], n) /\ f[n] \in Seq(S)
  <2>1. n \in 1..n /\ n \in Nat /\ n \notin bad
    BY <1>1, <1>10
  <2> HIDE DEF Good
  <2> QED BY <1>4, <2>1
<1>12. \A m : Occurs(m, b) <=> \E k \in 1..n : b[k].n = m
  BY <1>1 DEF Occurs
<1> QED BY <1>5, <1>11, <1>12 DEF n

-----------------------------------------------------------------------------
(* The names lead to different files, and all that is newer than the file  *)
(* the stream writes to is empty.                                          *)
NamesInv ==
    /\ \A k, l \in 0..cfg.count : k # l /\ dir[k] = dir[l] => dir[k] = NoInode
    /\ \A k, l \in 0..cfg.count :
         l < k /\ fd = dir[k] /\ fd # NoInode => Contents(l) = <<>>

(* What is read and not yet written belongs to a stream that is up, and    *)
(* only a stream with a file has files.                                    *)
BusyInv ==
    /\ buf # <<>> \/ rotate \/ pipe # <<>> => up
    /\ ~cfg.file => /\ fd = NoFile /\ bytesWritten = 0 /\ ~rotate
                    /\ \A k \in 0..cfg.count : dir[k] = NoInode

(* The order of the bytes, for each place where they can be. *)
OrderInv ==
    /\ Ascending(Log) /\ Ascending(passed) /\ Ascending(buf) /\ Ascending(pipe)
    /\ Before(Log, buf) /\ Before(Log, pipe) /\ Before(passed, buf)
    /\ Before(passed, pipe) /\ Before(buf, pipe)

FilesInv == TypeOK /\ NamesInv /\ BusyInv

(* What holds in addition as long as nothing fails.  The stream writes to  *)
(* the file of the configured name and knows its size. *)
CurrentInv ==
    cfg.file /\ up => fd = dir[0] /\ fd # NoInode /\ bytesWritten = Len(inodes[fd])

(* Every byte is somewhere. *)
KeptInv ==
    cfg.file => \A n \in 1..emitted : Occurs(n, Log) \/ Occurs(n, buf) \/ Occurs(n, pipe)

(* A file is full and ends with a line when it is rotated, and stays so. *)
FullInv ==
    /\ rotate => Len(Contents(0)) >= cfg.size /\ Last(Contents(0)).nl
    /\ \A k \in 1..cfg.count : dir[k] # NoInode =>
         Len(Contents(k)) >= cfg.size /\ Last(Contents(k)).nl

(* A newline behind the threshold calls for a rotation. *)
OverrunInv ==
    cfg.size > 0 =>
        \A k \in DOMAIN Contents(0) : k > cfg.size /\ Contents(0)[k].nl => rotate

(* The names are used from the lowest suffix up. *)
ContiguousInv ==
    \A k, l \in 0..cfg.count : l < k /\ dir[k] # NoInode => dir[l] # NoInode

(* Every line has its prefix, and the stream knows when the next begins. *)
LinesInv ==
    cfg.prefix => /\ LinesPrefixed(Out \o buf)
                  /\ AtLineStart(Out \o buf) => lineStart

SoundInv ==
    faults = {} => /\ CurrentInv /\ KeptInv /\ PassthroughSame /\ FullInv
                   /\ OverrunInv /\ ContiguousInv /\ LinesInv

IInv == FilesInv /\ OrderInv /\ SoundInv

-----------------------------------------------------------------------------
(* The types, spelled out. *)
LEMMA Types ==
    ASSUME TypeOK
    PROVE  /\ cfg.count \in Nat /\ cfg.size \in Nat /\ cfg.file \in BOOLEAN
           /\ cfg.pass \in BOOLEAN /\ cfg.prefix \in BOOLEAN
           /\ up \in BOOLEAN /\ lineStart \in BOOLEAN /\ rotate \in BOOLEAN
           /\ emitted \in Nat /\ starts \in Nat
           /\ pipe \in Seq(Byte) /\ buf \in Seq(Byte) /\ passed \in Seq(Byte)
           /\ removed \in Seq(Byte)
           /\ Byte \subseteq Bytes /\ PrefixByte \in Byte
           /\ Len(inodes) \in Nat /\ DOMAIN inodes = 1..Len(inodes)
           /\ \A i \in DOMAIN inodes : inodes[i] \in Seq(Byte)
           /\ NoInode \notin DOMAIN inodes /\ NoFile \notin DOMAIN inodes
<1>1. cfg \in [file : BOOLEAN, pass : BOOLEAN, prefix : BOOLEAN, size : Nat, count : Nat]
  BY StreamConfigsAssumption DEF TypeOK
<1>2. emitted \in Nat /\ starts \in Nat
  BY BoundsAssumption DEF TypeOK
<1>3. Byte \subseteq Bytes /\ PrefixByte \in Byte
  BY <1>2 DEF Byte, Bytes, PrefixByte
<1>4. up \in BOOLEAN /\ lineStart \in BOOLEAN /\ rotate \in BOOLEAN
  BY DEF TypeOK
<1>5. pipe \in Seq(Byte) /\ buf \in Seq(Byte) /\ passed \in Seq(Byte) /\ removed \in Seq(Byte)
  BY DEF TypeOK
<1>6. /\ Len(inodes) \in Nat /\ DOMAIN inodes = 1..Len(inodes)
      /\ \A i \in DOMAIN inodes : inodes[i] \in Seq(Byte)
  <2> DEFINE T == Seq(Byte)
  <2>1. inodes \in Seq(T)
    BY DEF TypeOK
  <2> HIDE DEF T
  <2>2. /\ Len(inodes) \in Nat /\ DOMAIN inodes = 1..Len(inodes)
        /\ \A i \in DOMAIN inodes : inodes[i] \in T
    BY <2>1
  <2> QED BY <2>2 DEF T
<1>7. NoInode \notin DOMAIN inodes /\ NoFile \notin DOMAIN inodes
  BY <1>6 DEF NoInode, NoFile
<1> QED BY <1>1, <1>2, <1>3, <1>4, <1>5, <1>6, <1>7

(* The contents of the files, for given names. *)
Held(names, files, n) ==
    [k \in 0..n |-> IF names[k] = NoInode THEN <<>> ELSE files[names[k]]]

(* They are sequences over S. *)
LEMMA HeldType ==
    ASSUME NEW S, NEW n \in Nat, NEW files,
           \A i \in DOMAIN files : files[i] \in Seq(S),
           NEW names \in [0..n -> {NoInode} \cup DOMAIN files]
    PROVE  Held(names, files, n) \in [0..n -> Seq(S)]
<1>1. \A k \in 0..n : names[k] # NoInode => files[names[k]] \in Seq(S)
  OBVIOUS
<1>2. <<>> \in Seq(S)
  OBVIOUS
<1> QED BY <1>1, <1>2 DEF Held

(* The log in the form of LogOf. *)
LEMMA HeldLog ==
    ASSUME NEW r, NEW n \in Nat, NEW names, NEW files
    PROVE  r \o FlattenSeq([k \in 1..(n + 1) |->
                  IF names[n + 1 - k] = NoInode THEN <<>> ELSE files[names[n + 1 - k]]])
           = LogOf(r, Held(names, files, n), n)
<1>1. \A k \in 1..n + 1 : n + 1 - k \in 0..n
  OBVIOUS
<1>2. [k \in 1..(n + 1) |->
         IF names[n + 1 - k] = NoInode THEN <<>> ELSE files[names[n + 1 - k]]]
      = [k \in 1..n + 1 |-> Held(names, files, n)[n + 1 - k]]
  BY <1>1 DEF Held
<1> QED BY <1>2 DEF LogOf

(* The log and the files it is made of. *)
LogOK ==
    /\ Log = LogOf(removed, Held(dir, inodes, cfg.count), cfg.count)
    /\ Held(dir, inodes, cfg.count) \in [0..cfg.count -> Seq(Byte)]
    /\ \A k \in 0..cfg.count : Held(dir, inodes, cfg.count)[k] = Contents(k)
    /\ \A k \in 0..cfg.count : Contents(k) \in Seq(Byte)
    /\ Log \in Seq(Byte)

(* The log is a sequence of bytes. *)
LEMMA LogFacts == TypeOK => LogOK
<1> SUFFICES ASSUME TypeOK PROVE LogOK
  OBVIOUS
<1>1. /\ cfg.count \in Nat /\ removed \in Seq(Byte)
      /\ \A i \in DOMAIN inodes : inodes[i] \in Seq(Byte)
      /\ dir \in [0..cfg.count -> {NoInode} \cup DOMAIN inodes]
  BY Types DEF TypeOK
<1>2. Log = LogOf(removed, Held(dir, inodes, cfg.count), cfg.count)
  BY <1>1, HeldLog DEF Log, Contents
<1>3. Held(dir, inodes, cfg.count) \in [0..cfg.count -> Seq(Byte)]
  BY <1>1, HeldType
<1>4. \A k \in 0..cfg.count : Held(dir, inodes, cfg.count)[k] = Contents(k)
  BY DEF Held, Contents
<1>5. \A k \in 0..cfg.count : Contents(k) \in Seq(Byte)
  BY <1>3, <1>4
<1>6. LogOf(removed, Held(dir, inodes, cfg.count), cfg.count) \in Seq(Byte)
  BY <1>1, <1>3, LogType
<1> QED BY <1>2, <1>3, <1>4, <1>5, <1>6 DEF LogOK

(* The same in the next state. *)
LEMMA LogFactsNext == TypeOK' => LogOK'
BY LogFacts, PTL

-----------------------------------------------------------------------------
(* Opening the log file: the name leads to an existing or to an empty file. *)
LEMMA OpenFacts ==
    ASSUME TypeOK, NEW names \in [0..cfg.count -> {NoInode} \cup DOMAIN inodes],
           OpenFile(names), UNCHANGED <<cfg, emitted>>
    PROVE  /\ inodes' \in Seq(Seq(Byte)) /\ DOMAIN inodes \subseteq DOMAIN inodes'
           /\ dir' \in [0..cfg.count -> {NoInode} \cup DOMAIN inodes']
           /\ fd' = dir'[0] /\ fd' # NoInode /\ fd' \in DOMAIN inodes'
           /\ bytesWritten' \in Nat /\ bytesWritten' = Len(inodes'[fd'])
           /\ \A k \in 1..cfg.count : dir'[k] = names[k]
           /\ names[0] = NoInode => dir'[0] \notin DOMAIN inodes
           /\ names[0] # NoInode => dir'[0] = names[0]
           /\ \A k \in 0..cfg.count :
                Contents(k)' = IF names[k] = NoInode THEN <<>> ELSE inodes[names[k]]
<1> DEFINE T == Seq(Byte)
           e == <<>>
           new == Len(inodes) + 1
<1>1. /\ cfg.count \in Nat /\ inodes \in Seq(T) /\ Len(inodes) \in Nat
      /\ \A i \in DOMAIN inodes : inodes[i] \in Seq(Byte)
      /\ NoInode \notin DOMAIN inodes /\ DOMAIN inodes = 1..Len(inodes)
  BY Types DEF TypeOK
<1>2. e \in T /\ Len(e) = 0
  OBVIOUS
<1>3. 0 \in 0..cfg.count /\ \A k \in 1..cfg.count : k \in 0..cfg.count /\ k # 0
  BY <1>1
<1>4. CASE names[0] # NoInode
  <2>1. fd' = names[0] /\ bytesWritten' = Len(inodes[names[0]]) /\ dir' = names /\ inodes' = inodes
    BY <1>4 DEF OpenFile
  <2>2. names[0] \in DOMAIN inodes
    BY <1>3, <1>4
  <2>3. Len(inodes[names[0]]) \in Nat
    BY <1>1, <2>2
  <2>4. \A k \in 0..cfg.count :
          Contents(k)' = IF names[k] = NoInode THEN <<>> ELSE inodes[names[k]]
    BY <2>1 DEF Contents
  <2> QED BY <1>1, <1>3, <1>4, <2>1, <2>2, <2>3, <2>4
<1>5. CASE names[0] = NoInode
  <2>1. /\ fd' = new /\ bytesWritten' = 0 /\ dir' = [names EXCEPT ![0] = new]
        /\ inodes' = Append(inodes, e)
    BY <1>5 DEF OpenFile
  <2>2. new # NoInode
    BY <1>1 DEF NoInode
  <2> HIDE DEF T, e
  <2>3. /\ Append(inodes, e) \in Seq(T)
        /\ DOMAIN Append(inodes, e) = DOMAIN inodes \cup {new}
        /\ new \notin DOMAIN inodes /\ Append(inodes, e)[new] = e
        /\ \A i \in DOMAIN inodes : Append(inodes, e)[i] = inodes[i]
    BY <1>1, <1>2, Appended
  <2> HIDE DEF new
  <2>4. /\ inodes' \in Seq(T) /\ DOMAIN inodes' = DOMAIN inodes \cup {new}
        /\ inodes'[new] = e /\ \A i \in DOMAIN inodes : inodes'[i] = inodes[i]
    BY <2>1, <2>3
  <2>5. /\ dir' \in [0..cfg.count -> {NoInode} \cup DOMAIN inodes']
        /\ dir'[0] = new /\ \A k \in 0..cfg.count : k # 0 => dir'[k] = names[k]
    BY <1>3, <2>1, <2>4
  <2>6. \A k \in 0..cfg.count :
          Contents(k)' = IF names[k] = NoInode THEN <<>> ELSE inodes[names[k]]
    <3> TAKE k \in 0..cfg.count
    <3>1. CASE k = 0
      BY <1>5, <2>2, <2>4, <2>5, <3>1 DEF Contents, e
    <3>2. CASE k # 0
      BY <2>4, <2>5, <3>2 DEF Contents
    <3> QED BY <3>1, <3>2
  <2>7. inodes' \in Seq(Seq(Byte))
    BY <2>4 DEF T
  <2>8. bytesWritten' = Len(inodes'[fd']) /\ bytesWritten' \in Nat
    BY <1>2, <2>1, <2>4
  <2> QED BY <1>3, <1>5, <2>1, <2>2, <2>3, <2>4, <2>5, <2>6, <2>7, <2>8
<1> QED BY <1>4, <1>5

(* Writing changes the file the stream has open, whatever its name is now. *)
LEMMA WriteFacts ==
    ASSUME TypeOK, NEW x \in Seq(Byte), WriteFile(x), UNCHANGED <<cfg, emitted, dir>>
    PROVE  /\ inodes' \in Seq(Seq(Byte)) /\ DOMAIN inodes' = DOMAIN inodes
           /\ bytesWritten' \in Nat
           /\ fd # NoFile => bytesWritten' = bytesWritten + Len(x)
           /\ fd = NoFile => bytesWritten' = bytesWritten
           /\ \A k \in 0..cfg.count :
                /\ fd = dir[k] /\ fd # NoInode => Contents(k)' = Contents(k) \o x
                /\ ~(fd = dir[k] /\ fd # NoInode) => Contents(k)' = Contents(k)
<1> DEFINE T == Seq(Byte)
<1>1. /\ inodes \in Seq(T) /\ \A i \in DOMAIN inodes : inodes[i] \in Seq(Byte)
      /\ fd \in {NoFile, DevNull} \cup DOMAIN inodes
      /\ dir \in [0..cfg.count -> {NoInode} \cup DOMAIN inodes]
      /\ bytesWritten \in Nat /\ Len(x) \in Nat
      /\ NoInode \notin DOMAIN inodes /\ NoFile \notin DOMAIN inodes
  BY Types DEF TypeOK
<1>2. /\ inodes' = IF fd \in DOMAIN inodes
                     THEN [inodes EXCEPT ![fd] = inodes[fd] \o x] ELSE inodes
      /\ bytesWritten' = IF fd = NoFile THEN bytesWritten ELSE bytesWritten + Len(x)
  BY DEF WriteFile
<1>3. /\ bytesWritten' \in Nat
      /\ fd # NoFile => bytesWritten' = bytesWritten + Len(x)
      /\ fd = NoFile => bytesWritten' = bytesWritten
  BY <1>1, <1>2
<1>4. CASE fd \in DOMAIN inodes
  <2>1. inodes[fd] \in Seq(Byte)
    BY <1>1, <1>4
  <2>2. inodes[fd] \o x \in T
    BY <2>1
  <2>3. inodes' = [inodes EXCEPT ![fd] = inodes[fd] \o x]
    BY <1>2, <1>4
  <2> HIDE DEF T
  <2>4. PICK y \in T : y = inodes[fd] \o x
    BY <2>2
  <2>5. PICK i \in DOMAIN inodes : i = fd
    BY <1>4
  <2>6. /\ [inodes EXCEPT ![i] = y] \in Seq(T)
        /\ DOMAIN [inodes EXCEPT ![i] = y] = DOMAIN inodes
        /\ [inodes EXCEPT ![i] = y][i] = y
        /\ \A j \in DOMAIN inodes : j # i => [inodes EXCEPT ![i] = y][j] = inodes[j]
    BY <1>1, Replaced
  <2>7. /\ inodes' \in Seq(T) /\ DOMAIN inodes' = DOMAIN inodes /\ inodes'[fd] = inodes[fd] \o x
        /\ \A j \in DOMAIN inodes : j # fd => inodes'[j] = inodes[j]
    BY <2>3, <2>4, <2>5, <2>6
  <2>8. ASSUME NEW k \in 0..cfg.count
        PROVE  /\ fd = dir[k] /\ fd # NoInode => Contents(k)' = Contents(k) \o x
               /\ ~(fd = dir[k] /\ fd # NoInode) => Contents(k)' = Contents(k)
    <3>1. CASE fd = dir[k] /\ fd # NoInode
      BY <2>7, <3>1 DEF Contents
    <3>2. CASE ~(fd = dir[k] /\ fd # NoInode)
      <4>1. CASE dir[k] = NoInode
        BY <3>2, <4>1 DEF Contents
      <4>2. CASE dir[k] # NoInode
        <5>1. dir[k] # fd /\ dir[k] \in DOMAIN inodes
          BY <1>1, <3>2, <4>2
        <5> QED BY <2>7, <3>2, <4>2, <5>1 DEF Contents
      <4> QED BY <4>1, <4>2
    <3> QED BY <3>1, <3>2
  <2>9. inodes' \in Seq(Seq(Byte))
    BY <2>7 DEF T
  <2> QED BY <1>3, <2>7, <2>8, <2>9
<1>5. CASE fd \notin DOMAIN inodes
  <2>1. inodes' = inodes
    BY <1>2, <1>5
  <2>2. \A k \in 0..cfg.count : ~(fd = dir[k] /\ fd # NoInode)
    BY <1>1, <1>5
  <2>3. \A k \in 0..cfg.count : Contents(k)' = Contents(k)
    BY <2>1 DEF Contents
  <2>4. inodes' \in Seq(Seq(Byte)) /\ DOMAIN inodes' = DOMAIN inodes
    BY <1>1, <2>1
  <2> HIDE DEF T
  <2> QED BY <1>3, <2>2, <2>3, <2>4
<1> QED BY <1>4, <1>5

(* Something is written every time, and no more than there is. *)
LEMMA ChunkFacts ==
    ASSUME TypeOK, buf # <<>>
    PROVE  /\ ChunkSize \in 1..Len(buf)
           /\ Len(buf) \in Nat \ {0}
           /\ cfg.size > 0 => \A k \in 1..ChunkSize :
                bytesWritten + k > cfg.size /\ buf[k].nl => k = ChunkSize
<1> DEFINE threshold == IF bytesWritten < cfg.size THEN cfg.size - bytesWritten ELSE 0
           newlines == {k \in 1..Len(buf) : k > threshold /\ buf[k].nl}
           n == Len(buf)
<1>1. /\ n \in Nat \ {0} /\ cfg.size \in Nat /\ bytesWritten \in Nat
  <2>1. buf \in Seq(Byte) /\ cfg.size \in Nat /\ bytesWritten \in Nat
    BY Types DEF TypeOK
  <2> QED BY <2>1
<1>2. threshold \in Nat
  BY <1>1
<1>3. CASE cfg.size > 0 /\ bytesWritten + Len(buf) > cfg.size /\ newlines # {}
  <2>1. ChunkSize = CHOOSE k \in newlines : \A l \in newlines : k <= l
    BY <1>3 DEF ChunkSize
  <2>2. newlines \in SUBSET Nat
    OBVIOUS
  <2>3. PICK m \in newlines : \A l \in newlines : m <= l
    <3> HIDE DEF newlines
    <3> QED BY <1>3, <2>2, Least
  <2>4. ChunkSize \in newlines /\ \A l \in newlines : ChunkSize <= l
    <3> HIDE DEF newlines
    <3> QED BY <2>1, <2>3
  <2>5. ChunkSize \in 1..n
    BY <2>4
  <2>6. ASSUME NEW k \in 1..ChunkSize, bytesWritten + k > cfg.size, buf[k].nl
        PROVE  k = ChunkSize
    <3>1. k > threshold
      BY <1>1, <2>6
    <3>2. k \in 1..n
      BY <1>1, <2>5
    <3>3. k \in newlines
      BY <2>6, <3>1, <3>2
    <3>4. ChunkSize <= k
      BY <2>4, <3>3
    <3> HIDE DEF newlines
    <3> QED BY <2>5, <3>4
  <2> HIDE DEF newlines
  <2> QED BY <1>1, <2>5, <2>6
<1>4. CASE ~(cfg.size > 0 /\ bytesWritten + Len(buf) > cfg.size /\ newlines # {})
  <2>1. ChunkSize = n
    BY <1>4 DEF ChunkSize
  <2>2. ASSUME NEW k \in 1..n, cfg.size > 0, bytesWritten + k > cfg.size, buf[k].nl
        PROVE  FALSE
    <3>1. bytesWritten + n > cfg.size
      BY <1>1, <2>2
    <3>2. k > threshold
      BY <1>1, <2>2
    <3>3. k \in newlines
      BY <2>2, <3>2
    <3> QED BY <1>4, <2>2, <3>1, <3>3
  <2> HIDE DEF newlines
  <2> QED BY <1>1, <2>1, <2>2
<1> QED BY <1>3, <1>4

(* What becomes of the bytes b that a read takes from the pipe. *)
ReadAs(b) ==
    LET taken == fd # NoFile \/ Passing
    IN  /\ buf' \in Seq(Byte) /\ lineStart' \in BOOLEAN
        /\ \A m \in Nat \ {0} : Occurs(m, buf') => Occurs(m, b)
        /\ Ascending(b) => Ascending(buf')
        /\ taken => \A m \in Nat \ {0} : Occurs(m, b) => Occurs(m, buf')
        /\ taken /\ cfg.prefix => /\ buf' # <<>> /\ Inside(buf')
                                  /\ lineStart => buf'[1].n = 0
                                  /\ lineStart' = buf'[Len(buf')].nl

(* A read takes the first bytes of the pipe. *)
LEMMA ReadFacts ==
    ASSUME TypeOK, ReadPipe
    PROVE  \E b, rest \in Seq(Byte) : pipe = b \o rest /\ pipe' = rest /\ ReadAs(b)
<1> DEFINE size == IF Len(pipe) < ReadSize THEN Len(pipe) ELSE ReadSize
           taken == fd # NoFile \/ Passing
<1>1. /\ pipe \in Seq(Byte) /\ Byte \subseteq Bytes /\ PrefixByte \in Byte
      /\ lineStart \in BOOLEAN
  BY Types
<1>2. /\ pipe # <<>> /\ pipe' = SubSeq(pipe, size + 1, Len(pipe))
      /\ buf' = IF ~taken THEN <<>>
                ELSE IF cfg.prefix THEN Prefixed(SubSeq(pipe, 1, size))
                ELSE SubSeq(pipe, 1, size)
      /\ lineStart' = IF taken /\ cfg.prefix THEN SubSeq(pipe, 1, size)[size].nl ELSE lineStart
  BY DEF ReadPipe
<1>3. size \in 0..Len(pipe) /\ size \in Nat \ {0}
  <2> DEFINE l == Len(pipe)
  <2>1. l \in Nat /\ l # 0
    BY <1>1, <1>2
  <2> HIDE DEF l
  <2>2. (IF l < ReadSize THEN l ELSE ReadSize) \in 1..l
    BY <2>1, BoundsAssumption
  <2> QED BY <2>1, <2>2 DEF l
<1> HIDE DEF size
<1> DEFINE rest == SubSeq(pipe, size + 1, Len(pipe))
<1>4. PICK b : b = SubSeq(pipe, 1, size)
  OBVIOUS
<1>5. b \in Seq(Byte) /\ rest \in Seq(Byte) /\ b \o rest = pipe /\ Len(b) = size
  BY <1>1, <1>3, <1>4, Split, ZenonT(60)
<1> HIDE DEF rest
<1>6. b # <<>> /\ b[size].nl \in BOOLEAN
  <2>1. b # <<>> /\ size \in 1..Len(b)
    BY <1>3, <1>5
  <2>2. b[size] \in Byte
    BY <1>5, <2>1
  <2> QED BY <2>1, <2>2 DEF Byte
<1>7. CASE ~taken
  <2>1. buf' = <<>> /\ lineStart' = lineStart
    BY <1>2, <1>7
  <2>2. <<>> \in Seq(Byte) /\ Ascending(<<>>) /\ \A m : ~Occurs(m, <<>>)
    BY NoBytes
  <2>3. ReadAs(b)
    BY <1>1, <1>7, <2>1, <2>2 DEF ReadAs
  <2> QED BY <1>2, <1>5, <2>3 DEF rest
<1>8. CASE taken /\ ~cfg.prefix
  <2>1. buf' = b /\ lineStart' = lineStart
    BY <1>2, <1>4, <1>8
  <2>2. ReadAs(b)
    BY <1>1, <1>5, <1>8, <2>1 DEF ReadAs
  <2> QED BY <1>2, <1>5, <2>2 DEF rest
<1>9. CASE taken /\ cfg.prefix
  <2>1. PICK start \in BOOLEAN : start = lineStart
    BY <1>1
  <2> DEFINE q == [k \in 1..Len(b) |->
                     IF (IF k = 1 THEN start ELSE b[k - 1].nl)
                       THEN <<PrefixByte, b[k]>> ELSE <<b[k]>>]
  <2>2. buf' = FlattenSeq(q) /\ lineStart' = b[size].nl
    BY <1>2, <1>4, <1>9, <2>1 DEF Prefixed
  <2>3. /\ \A k \in 1..Len(b) : q[k] \in {<<b[k]>>, <<PrefixByte, b[k]>>}
        /\ start => q[1] = <<PrefixByte, b[1]>>
        /\ \A k \in 2..Len(b) : b[k - 1].nl => q[k] = <<PrefixByte, b[k]>>
    <3>1. 1 \in 1..Len(b) /\ \A k \in 2..Len(b) : k \in 1..Len(b) /\ k # 1
      BY <1>3, <1>5
    <3> QED BY <3>1
  <2>4. q \in Seq(Seq(Byte)) /\ Len(q) = Len(b)
    <3>1. Len(b) \in Nat /\ \A k \in 1..Len(b) : b[k] \in Byte
      BY <1>5
    <3>2. \A x \in Byte : <<x>> \in Seq(Byte) /\ <<PrefixByte, x>> \in Seq(Byte)
      BY <1>1
    <3>3. q \in [1..Len(b) -> Seq(Byte)]
      BY <3>1, <3>2
    <3> DEFINE T == Seq(Byte)
    <3> HIDE DEF q, T
    <3>4. q \in Seq(T) /\ Len(q) = Len(b)
      BY <3>1, <3>3 DEF T
    <3> QED BY <3>4 DEF T
  <2> HIDE DEF q
  <2>5. PICK S \in SUBSET Bytes : S = Byte
    BY <1>1
  <2>6. /\ FlattenSeq(q) \in Seq(S) /\ FlattenSeq(q) # <<>>
        /\ FlattenSeq(q)[Len(FlattenSeq(q))] = b[Len(b)]
        /\ \A m \in Nat \ {0} : Occurs(m, FlattenSeq(q)) <=> Occurs(m, b)
        /\ Ascending(b) => Ascending(FlattenSeq(q))
        /\ start => FlattenSeq(q)[1].n = 0
        /\ Inside(FlattenSeq(q))
    BY <1>1, <1>5, <1>6, <2>3, <2>4, <2>5, PrefixFacts, ZenonT(60)
  <2>7. ReadAs(b)
    BY <1>5, <1>6, <2>1, <2>2, <2>5, <2>6 DEF ReadAs
  <2> QED BY <1>2, <1>5, <2>7 DEF rest
<1> QED BY <1>7, <1>8, <1>9

(* The names after a rotation. *)
LEMMA ShiftFacts ==
    ASSUME TypeOK
    PROVE  /\ Shifted \in [0..cfg.count -> {NoInode} \cup DOMAIN inodes]
           /\ Shifted[0] = NoInode
           /\ \A k \in 1..cfg.count : k - 1 \in 0..cfg.count /\ Shifted[k] = dir[k - 1]
           /\ Oldest \in {NoInode} \cup DOMAIN inodes
           /\ cfg.count \in 0..cfg.count /\ 0 \in 0..cfg.count
<1>1. cfg.count \in Nat /\ dir \in [0..cfg.count -> {NoInode} \cup DOMAIN inodes]
  BY Types DEF TypeOK
<1> DEFINE n == cfg.count
<1> HIDE DEF n
<1>2. n \in 0..n /\ 0 \in 0..n /\ \A k \in 0..n : k = 0 \/ k - 1 \in 0..n
  BY <1>1 DEF n
<1>3. \A k \in 1..n : k \in 0..n /\ k # 0
  OBVIOUS
<1>4. Shifted = [k \in 0..n |-> IF k = 0 THEN NoInode ELSE dir[k - 1]]
  BY DEF Shifted, n
<1>5. /\ Shifted \in [0..n -> {NoInode} \cup DOMAIN inodes]
      /\ Shifted[0] = NoInode
      /\ \A k \in 1..n : k - 1 \in 0..n /\ Shifted[k] = dir[k - 1]
  BY <1>1, <1>2, <1>3, <1>4 DEF n
<1>6. Oldest \in {NoInode} \cup DOMAIN inodes
  BY <1>1, <1>2 DEF Oldest, n
<1> QED BY <1>2, <1>5, <1>6 DEF n

(* What is removed is a sequence of bytes. *)
LEMMA RemovedFacts ==
    ASSUME TypeOK
    PROVE  /\ (IF Oldest = NoInode THEN removed ELSE removed \o inodes[Oldest])
              = removed \o Contents(cfg.count)
           /\ removed \o Contents(cfg.count) \in Seq(Byte)
<1>1. removed \in Seq(Byte) /\ \A i \in DOMAIN inodes : inodes[i] \in Seq(Byte)
  BY Types
<1>2. Contents(cfg.count) = IF Oldest = NoInode THEN <<>> ELSE inodes[Oldest]
  BY DEF Contents, Oldest
<1>3. Contents(cfg.count) \in Seq(Byte)
  BY LogFacts, ShiftFacts DEF LogOK
<1>4. removed \o <<>> = removed
  BY <1>1, ConcatEmptySeq
<1>5. removed \o Contents(cfg.count) \in Seq(Byte)
  BY <1>1, <1>3
<1> QED BY <1>2, <1>4, <1>5

(* Every step keeps the types. *)
LEMMA TypeStep == TypeOK /\ [Next]_vars => TypeOK'
<1> SUFFICES ASSUME TypeOK, [Next]_vars PROVE TypeOK'
  OBVIOUS
<1> DEFINE Rest == /\ cfg \in StreamConfigs /\ faults \in FaultModes
                   /\ starts \in 0..MaxStarts /\ emitted \in 0..MaxBytes
                   /\ up \in BOOLEAN /\ lineStart \in BOOLEAN /\ rotate \in BOOLEAN
           Texts == /\ pipe \in Seq(Byte) /\ buf \in Seq(Byte) /\ passed \in Seq(Byte)
                    /\ removed \in Seq(Byte)
           Files == /\ inodes \in Seq(Seq(Byte))
                    /\ fd \in {NoFile, DevNull} \cup DOMAIN inodes
                    /\ bytesWritten \in Nat
                    /\ dir \in [0..cfg.count -> {NoInode} \cup DOMAIN inodes]
<1>1. Rest /\ Texts /\ Files
  BY DEF TypeOK
<1>2. Rest' /\ Texts' /\ Files' => TypeOK'
  BY DEF TypeOK
<1>3. emitted' = emitted => Byte' = Byte
  BY DEF Byte
<1>4. CASE Start
  <2>1. Rest'
    BY <1>1, <1>4, BoundsAssumption DEF Start
  <2>2. Texts'
    BY <1>1, <1>3, <1>4 DEF Start
  <2>3. Files'
    <3>1. CASE OpenFile(dir)
      <4>1. UNCHANGED <<cfg, emitted>>
        BY <1>4 DEF Start
      <4>2. PICK names : names = dir
        OBVIOUS
      <4>3. /\ inodes' \in Seq(Seq(Byte)) /\ fd' \in DOMAIN inodes' /\ bytesWritten' \in Nat
            /\ dir' \in [0..cfg.count -> {NoInode} \cup DOMAIN inodes']
        BY <1>1, <3>1, <4>1, <4>2, OpenFacts
      <4> QED BY <1>3, <4>1, <4>3
    <3>2. CASE ~OpenFile(dir)
      <4>1. /\ fd' \in {NoFile, DevNull} /\ bytesWritten' = 0
            /\ UNCHANGED <<cfg, emitted, inodes, dir>>
        BY <1>4, <3>2 DEF Start
      <4> QED BY <1>1, <1>3, <4>1
    <3> QED BY <3>1, <3>2
  <2> QED BY <1>2, <2>1, <2>2, <2>3
<1>5. CASE ReadPipe
  <2>1. PICK b \in Seq(Byte), rest \in Seq(Byte) : pipe' = rest /\ ReadAs(b)
    BY <1>5, ReadFacts
  <2>2. buf' \in Seq(Byte) /\ lineStart' \in BOOLEAN
    BY <2>1 DEF ReadAs
  <2>3. UNCHANGED <<cfg, faults, starts, up, fd, bytesWritten, rotate, inodes, dir,
                    passed, emitted, removed>>
    BY <1>5 DEF ReadPipe
  <2>4. Rest' /\ Files'
    BY <1>1, <1>3, <2>2, <2>3
  <2>5. Texts'
    BY <1>1, <1>3, <2>1, <2>2, <2>3
  <2> QED BY <1>2, <2>4, <2>5
<1>6. CASE WriteChunk
  <2>1. PICK x : x = SubSeq(buf, 1, ChunkSize)
    OBVIOUS
  <2>2. /\ buf # <<>> /\ WriteFile(x)
        /\ passed' = IF Passing THEN passed \o x ELSE passed
        /\ buf' = SubSeq(buf, ChunkSize + 1, Len(buf))
        /\ rotate' = RotationDue(bytesWritten', Last(x))
        /\ UNCHANGED <<cfg, faults, starts, up, pipe, fd, lineStart, dir, emitted, removed>>
    BY <1>6, <2>1 DEF WriteChunk
  <2>3. x \in Seq(Byte) /\ buf' \in Seq(Byte) /\ Len(x) = ChunkSize /\ ChunkSize \in 1..Len(buf)
    <3>1. ChunkSize \in 1..Len(buf) /\ ChunkSize \in 0..Len(buf)
      BY <2>2, ChunkFacts
    <3> QED BY <1>1, <2>1, <2>2, <3>1, Split, SMTT(30)
  <2>4. /\ inodes' \in Seq(Seq(Byte)) /\ DOMAIN inodes' = DOMAIN inodes
        /\ bytesWritten' \in Nat
    BY <2>2, <2>3, WriteFacts
  <2>5. rotate' \in BOOLEAN
    BY <2>2 DEF RotationDue
  <2>6. passed \o x \in Seq(Byte)
    BY <1>1, <2>3
  <2>7. Rest' /\ Files'
    BY <1>1, <1>3, <2>2, <2>4, <2>5
  <2>8. Texts'
    BY <1>1, <1>3, <2>2, <2>3, <2>6
  <2> QED BY <1>2, <2>7, <2>8
<1>7. CASE WriteFails
  <2>1. /\ buf # <<>> /\ buf' = <<>>
        /\ UNCHANGED <<cfg, faults, starts, up, pipe, fd, lineStart, rotate, dir, emitted,
                       removed>>
    BY <1>7 DEF WriteFails
  <2>2. PICK done \in 0..(ChunkSize - 1) :
         \/ WriteFile(SubSeq(buf, 1, done)) /\ passed' = passed
         \/ /\ WriteFile(SubSeq(buf, 1, ChunkSize))
            /\ passed' = passed \o SubSeq(buf, 1, done)
    BY <1>7 DEF WriteFails
  <2>3. done \in 0..Len(buf) /\ ChunkSize \in 0..Len(buf)
    BY <2>1, ChunkFacts
  <2>4. PICK x, y : x = SubSeq(buf, 1, done) /\ y = SubSeq(buf, 1, ChunkSize)
    OBVIOUS
  <2>5. x \in Seq(Byte) /\ y \in Seq(Byte)
    BY <1>1, <2>3, <2>4, Split
  <2>6. /\ inodes' \in Seq(Seq(Byte)) /\ DOMAIN inodes' = DOMAIN inodes
        /\ bytesWritten' \in Nat
    BY <2>1, <2>2, <2>4, <2>5, WriteFacts
  <2>7. passed' \in Seq(Byte)
    <3>1. passed \o x \in Seq(Byte)
      BY <1>1, <2>5
    <3> QED BY <1>1, <2>2, <2>4, <3>1
  <2>8. Rest' /\ Files'
    BY <1>1, <1>3, <2>1, <2>6
  <2>9. Texts'
    BY <1>1, <1>3, <2>1, <2>7
  <2> QED BY <1>2, <2>8, <2>9
<1>8. CASE Rotate
  <2>1. /\ rotate' = FALSE
        /\ removed' = IF Oldest = NoInode THEN removed ELSE removed \o inodes[Oldest]
        /\ buf' \in {buf, <<>>}
        /\ UNCHANGED <<cfg, faults, starts, up, pipe, lineStart, passed, emitted>>
    BY <1>8 DEF Rotate
  <2>2. removed' \in Seq(Byte)
    BY <2>1, RemovedFacts
  <2>3. Rest' /\ Texts'
    <3>1. buf' \in Seq(Byte)
      <4>1. buf' = buf \/ buf' = <<>>
        BY <2>1
      <4>2. buf \in Seq(Byte)
        BY <1>1
      <4> HIDE DEF Rest, Texts, Files
      <4>3. <<>> \in Seq(Byte)
        OBVIOUS
      <4> QED BY <4>1, <4>2, <4>3
    <3>2. Texts'
      BY <1>1, <1>3, <2>1, <2>2, <3>1
    <3> QED BY <1>1, <2>1, <3>2
  <2>4. PICK names \in [0..cfg.count -> {NoInode} \cup DOMAIN inodes] : names = Shifted
    BY ShiftFacts
  <2>5. Files'
    <3>1. CASE OpenFile(Shifted)
      <4>1. /\ inodes' \in Seq(Seq(Byte)) /\ fd' \in DOMAIN inodes' /\ bytesWritten' \in Nat
            /\ dir' \in [0..cfg.count -> {NoInode} \cup DOMAIN inodes']
        BY <2>1, <2>4, <3>1, OpenFacts
      <4> QED BY <1>3, <2>1, <4>1
    <3>2. CASE ~OpenFile(Shifted)
      <4>1. fd' = NoFile /\ dir' = Shifted /\ UNCHANGED <<inodes, bytesWritten>>
        BY <1>8, <3>2 DEF Rotate
      <4> QED BY <1>1, <1>3, <2>1, <2>4, <4>1
    <3> QED BY <3>1, <3>2
  <2> QED BY <1>2, <2>3, <2>5
<1>9. CASE NeighbourRotates
  <2>1. /\ removed' = IF Oldest = NoInode THEN removed ELSE removed \o inodes[Oldest]
        /\ inodes' = Append(inodes, <<>>)
        /\ dir' = [Shifted EXCEPT ![0] = Len(inodes) + 1]
        /\ UNCHANGED <<cfg, faults, starts, up, pipe, fd, bytesWritten, lineStart, buf,
                       rotate, passed, emitted>>
    BY <1>9 DEF NeighbourRotates
  <2>2. removed' \in Seq(Byte)
    BY <2>1, RemovedFacts
  <2>3. Rest' /\ Texts'
    BY <1>1, <1>3, <2>1, <2>2
  <2>4. inodes' \in Seq(Seq(Byte)) /\ DOMAIN inodes' = DOMAIN inodes \cup {Len(inodes) + 1}
    <3> DEFINE T == Seq(Byte)
               e == <<>>
    <3>1. inodes \in Seq(T) /\ e \in T
      BY <1>1
    <3> HIDE DEF T, e
    <3>2. /\ Append(inodes, e) \in Seq(T)
          /\ DOMAIN Append(inodes, e) = DOMAIN inodes \cup {Len(inodes) + 1}
      BY <3>1, Appended
    <3> QED BY <2>1, <3>2 DEF T, e
  <2>5. dir' \in [0..cfg.count -> {NoInode} \cup DOMAIN inodes']
    BY <2>1, <2>4, ShiftFacts
  <2>6. Files'
    BY <1>1, <1>3, <2>1, <2>4, <2>5
  <2> QED BY <1>2, <2>3, <2>6
<1>10. CASE Close
  <2>1. Rest' /\ Texts' /\ Files'
    BY <1>1, <1>3, <1>10 DEF Close
  <2> QED BY <1>2, <2>1
<1>11. ASSUME NEW nl \in BOOLEAN, AppWrites(nl) PROVE TypeOK'
  <2>1. /\ emitted < MaxBytes /\ emitted' = emitted + 1
        /\ pipe' = Append(pipe, [n |-> emitted + 1, nl |-> nl])
        /\ UNCHANGED <<cfg, faults, starts, up, fd, bytesWritten, lineStart, buf, rotate,
                       inodes, dir, passed, removed>>
    BY <1>11 DEF AppWrites
  <2>2. emitted \in Nat /\ emitted' \in 0..MaxBytes
    BY <1>1, <2>1, BoundsAssumption
  <2>3. Byte \subseteq Byte' /\ [n |-> emitted + 1, nl |-> nl] \in Byte'
    BY <2>1, <2>2 DEF Byte
  <2>4. Seq(Byte) \subseteq Seq(Byte')
    BY <2>3, SeqMonotone
  <2>5. Seq(Seq(Byte)) \subseteq Seq(Seq(Byte'))
    <3> DEFINE T == Seq(Byte)
               U == Seq(Byte')
    <3>1. T \subseteq U
      BY <2>4
    <3> HIDE DEF T, U
    <3>2. Seq(T) \subseteq Seq(U)
      BY <3>1, SeqMonotone
    <3> QED BY <3>2 DEF T, U
  <2>6. Rest' /\ Files'
    BY <1>1, <2>1, <2>2, <2>5
  <2>7. Texts'
    <3>1. PICK x \in Byte' : x = [n |-> emitted + 1, nl |-> nl]
      BY <2>3
    <3>2. pipe \in Seq(Byte')
      BY <1>1, <2>4
    <3>3. Append(pipe, x) \in Seq(Byte')
      BY <3>2
    <3> QED BY <1>1, <2>1, <2>4, <3>1, <3>3
  <2> QED BY <1>2, <2>6, <2>7
<1>12. CASE Finished \/ UNCHANGED vars
  <2>1. Rest' /\ Texts' /\ Files'
    BY <1>1, <1>3, <1>12 DEF Finished, vars
  <2> QED BY <1>2, <2>1
<1> QED BY <1>4, <1>5, <1>6, <1>7, <1>8, <1>9, <1>10, <1>11, <1>12 DEF Next

-----------------------------------------------------------------------------
(* The names *)

(* The names lead to different files. *)
Distinct(names) ==
    \A k, l \in DOMAIN names : k # l /\ names[k] = names[l] => names[k] = NoInode

(* A rotation keeps them distinct. *)
LEMMA ShiftDistinct ==
    ASSUME TypeOK, NamesInv
    PROVE  Distinct(Shifted)
<1>1. /\ cfg.count \in Nat /\ Shifted[0] = NoInode /\ DOMAIN Shifted = 0..cfg.count
      /\ \A k \in 1..cfg.count : k - 1 \in 0..cfg.count /\ Shifted[k] = dir[k - 1]
  BY Types, ShiftFacts
<1> SUFFICES ASSUME NEW k \in 0..cfg.count, NEW l \in 0..cfg.count, k # l,
                    Shifted[k] = Shifted[l], Shifted[k] # NoInode
             PROVE  FALSE
  BY <1>1 DEF Distinct
<1>2. k # 0 /\ l # 0
  BY <1>1
<1>3. k \in 1..cfg.count /\ l \in 1..cfg.count /\ k - 1 # l - 1
  BY <1>1, <1>2
<1>4. dir[k - 1] = dir[l - 1] /\ dir[k - 1] # NoInode
  BY <1>1, <1>3
<1> QED BY <1>1, <1>3, <1>4 DEF NamesInv

(* After the file was opened, it is the current one. *)
LEMMA OpenNames ==
    ASSUME TypeOK, NEW names \in [0..cfg.count -> {NoInode} \cup DOMAIN inodes],
           Distinct(names), OpenFile(names), UNCHANGED <<cfg, emitted>>
    PROVE  NamesInv'
<1>1. /\ fd' = dir'[0] /\ fd' # NoInode
      /\ \A k \in 1..cfg.count : dir'[k] = names[k]
      /\ names[0] = NoInode => dir'[0] \notin DOMAIN inodes
      /\ names[0] # NoInode => dir'[0] = names[0]
  BY OpenFacts
<1>2. \A k \in 0..cfg.count : k # 0 => k \in 1..cfg.count
  BY Types
<1>3. 0 \in 0..cfg.count
  BY Types
<1>4. \A k, l \in 0..cfg.count : k # l /\ dir'[k] = dir'[l] => dir'[k] = NoInode
  <2> SUFFICES ASSUME NEW k \in 0..cfg.count, NEW l \in 0..cfg.count, k # l,
                      dir'[k] = dir'[l], dir'[k] # NoInode
               PROVE  FALSE
    OBVIOUS
  <2>1. CASE k # 0 /\ l # 0
    BY <1>1, <1>2, <2>1 DEF Distinct
  <2>2. ASSUME NEW m \in 0..cfg.count, m # 0, dir'[0] = dir'[m] PROVE FALSE
    <3>1. dir'[m] = names[m]
      BY <1>1, <1>2, <2>2
    <3>2. names[m] \in DOMAIN inodes
      BY <1>1, <2>2, <3>1
    <3>3. names[0] # NoInode /\ names[0] = names[m]
      BY <1>1, <2>2, <3>1, <3>2
    <3> QED BY <1>3, <2>2, <3>3 DEF Distinct
  <2> QED BY <2>1, <2>2
<1>5. \A k \in 0..cfg.count : k # 0 => fd' # dir'[k]
  BY <1>1, <1>3, <1>4
<1>6. \A k, l \in 0..cfg.count : l < k => k # 0
  BY Types
<1>7. cfg' = cfg
  OBVIOUS
<1> QED BY <1>4, <1>5, <1>6, <1>7 DEF NamesInv

(* The contents under the names stay when at most the descriptor is closed. *)
LEMMA NamesSame ==
    ASSUME TypeOK, NamesInv, UNCHANGED <<cfg, dir, inodes>>, fd' \in {fd, NoFile, DevNull}
    PROVE  NamesInv' /\ \A k \in 0..cfg.count : Contents(k)' = Contents(k)
<1>1. \A k \in 0..cfg.count : Contents(k)' = Contents(k)
  BY DEF Contents
<1>2. \A k \in 0..cfg.count : fd' = dir[k] /\ fd' # NoInode => fd' = fd
  <2>1. NoFile \notin DOMAIN inodes /\ NoFile # NoInode /\ DevNull = NoInode
    BY Types DEF NoFile, NoInode, DevNull
  <2> QED BY <2>1 DEF TypeOK
<1>3. /\ \A k, l \in 0..cfg.count : k # l /\ dir[k] = dir[l] => dir[k] = NoInode
      /\ \A k, l \in 0..cfg.count :
           l < k /\ fd' = dir[k] /\ fd' # NoInode => Contents(l)' = <<>>
  BY <1>1, <1>2 DEF NamesInv
<1> QED BY <1>1, <1>3 DEF NamesInv

(* A rotation by the other stream: the names move, and a new file is first. *)
LEMMA NeighbourFacts ==
    ASSUME TypeOK, NamesInv, NeighbourRotates
    PROVE  /\ NamesInv'
           /\ Contents(0)' = <<>>
           /\ \A k \in 1..cfg.count : Contents(k)' = Contents(k - 1)
<1> DEFINE T == Seq(Byte)
           e == <<>>
           new == Len(inodes) + 1
<1>1. /\ inodes' = Append(inodes, e) /\ dir' = [Shifted EXCEPT ![0] = new]
      /\ fd' = fd /\ cfg' = cfg
  BY DEF NeighbourRotates
<1>2. /\ cfg.count \in Nat /\ inodes \in Seq(T) /\ e \in T /\ Len(inodes) \in Nat
      /\ dir \in [0..cfg.count -> {NoInode} \cup DOMAIN inodes]
  BY Types DEF TypeOK
<1>3. new # NoInode
  BY <1>2 DEF NoInode
<1> HIDE DEF T, e
<1>4. /\ new \notin DOMAIN inodes /\ inodes'[new] = e
      /\ \A i \in DOMAIN inodes : inodes'[i] = inodes[i]
  BY <1>1, <1>2, Appended
<1> HIDE DEF new
<1>5. /\ \A k \in 1..cfg.count : k - 1 \in 0..cfg.count /\ Shifted[k] = dir[k - 1]
      /\ Shifted \in [0..cfg.count -> {NoInode} \cup DOMAIN inodes]
      /\ 0 \in 0..cfg.count
  BY ShiftFacts
<1>6. \A k \in 0..cfg.count : k = 0 \/ k \in 1..cfg.count
  BY <1>2
<1>7. \A k \in 1..cfg.count : k \in 0..cfg.count /\ k # 0
  OBVIOUS
<1>8. dir'[0] = new /\ \A k \in 1..cfg.count : dir'[k] = dir[k - 1]
  BY <1>1, <1>5, <1>7
<1>9. Contents(0)' = <<>>
  BY <1>3, <1>4, <1>8 DEF Contents, e
<1>10. \A k \in 1..cfg.count : Contents(k)' = Contents(k - 1)
  BY <1>2, <1>4, <1>5, <1>8 DEF Contents
<1>11. \A k, l \in 0..cfg.count : k # l /\ dir'[k] = dir'[l] => dir'[k] = NoInode
  <2> SUFFICES ASSUME NEW k \in 0..cfg.count, NEW l \in 0..cfg.count, k # l,
                      dir'[k] = dir'[l], dir'[k] # NoInode
               PROVE  FALSE
    OBVIOUS
  <2>1. ASSUME NEW m \in 1..cfg.count, dir'[m] = new PROVE FALSE
    <3>1. dir'[m] = dir[m - 1] /\ m - 1 \in 0..cfg.count
      BY <1>5, <1>8
    <3>2. dir[m - 1] \in {NoInode} \cup DOMAIN inodes
      BY <1>2, <3>1, Zenon
    <3> QED BY <1>3, <1>4, <2>1, <3>1, <3>2
  <2>2. k \in 1..cfg.count /\ l \in 1..cfg.count
    BY <1>6, <1>8, <2>1
  <2>3. k - 1 # l - 1 /\ dir[k - 1] = dir[l - 1] /\ dir[k - 1] # NoInode
    BY <1>2, <1>8, <2>2
  <2> QED BY <1>5, <2>2, <2>3 DEF NamesInv
<1>12. ASSUME NEW k \in 0..cfg.count, NEW l \in 0..cfg.count, l < k, fd = dir'[k],
              fd # NoInode
       PROVE  Contents(l)' = <<>>
  <2>1. k \in 1..cfg.count
    BY <1>2, <1>12
  <2>2. CASE l = 0
    BY <1>9, <2>2
  <2>3. CASE l # 0
    <3>1. l \in 1..cfg.count /\ l - 1 < k - 1
      BY <1>2, <1>12, <2>3
    <3>2. fd = dir[k - 1]
      BY <1>8, <1>12, <2>1
    <3>3. Contents(l - 1) = <<>>
      BY <1>5, <1>12, <2>1, <3>1, <3>2 DEF NamesInv
    <3> QED BY <1>10, <3>1, <3>3
  <2> QED BY <2>2, <2>3
<1> QED BY <1>1, <1>9, <1>10, <1>11, <1>12 DEF NamesInv

(* Writing appends to a file behind which there is nothing. *)
LEMMA WriteNames ==
    ASSUME TypeOK, NamesInv, NEW x \in Seq(Byte), WriteFile(x),
           UNCHANGED <<cfg, emitted, dir, fd>>
    PROVE  NamesInv'
<1>1. \A k \in 0..cfg.count : fd # dir[k] => Contents(k)' = Contents(k)
  BY WriteFacts
<1>2. ASSUME NEW k \in 0..cfg.count, NEW l \in 0..cfg.count, l < k, fd = dir[k],
             fd # NoInode
      PROVE  Contents(l)' = <<>>
  <2>1. k # l
    BY <1>2, Types
  <2>2. fd # dir[l]
    BY <1>2, <2>1 DEF NamesInv
  <2> QED BY <1>1, <1>2, <2>2 DEF NamesInv
<1>3. \A k, l \in 0..cfg.count : k # l /\ dir[k] = dir[l] => dir[k] = NoInode
  BY DEF NamesInv
<1> QED BY <1>2, <1>3 DEF NamesInv

-----------------------------------------------------------------------------
(* The log *)

(* The same files give the same log. *)
LEMMA LogSame ==
    ASSUME TypeOK, TypeOK', UNCHANGED <<cfg, removed>>,
           \A k \in 0..cfg.count : Contents(k)' = Contents(k)
    PROVE  Log' = Log
<1>1. /\ Log = LogOf(removed, Held(dir, inodes, cfg.count), cfg.count)
      /\ Held(dir, inodes, cfg.count) \in [0..cfg.count -> Seq(Byte)]
      /\ \A k \in 0..cfg.count : Held(dir, inodes, cfg.count)[k] = Contents(k)
  BY LogFacts DEF LogOK
<1>2. /\ Log' = LogOf(removed, Held(dir', inodes', cfg.count), cfg.count)
      /\ Held(dir', inodes', cfg.count) \in [0..cfg.count -> Seq(Byte')]
      /\ \A k \in 0..cfg.count : Held(dir', inodes', cfg.count)[k] = Contents(k)'
  BY LogFactsNext DEF LogOK
<1>3. Held(dir', inodes', cfg.count) = Held(dir, inodes, cfg.count)
  <2>1. PICK c : c = Held(dir, inodes, cfg.count)
    OBVIOUS
  <2>2. PICK d : d = Held(dir', inodes', cfg.count)
    OBVIOUS
  <2>3. /\ c \in [0..cfg.count -> Seq(Byte)] /\ d \in [0..cfg.count -> Seq(Byte')]
        /\ \A k \in 0..cfg.count : c[k] = d[k]
    BY <1>1, <1>2, <2>1, <2>2
  <2>4. c = [k \in 0..cfg.count |-> c[k]] /\ d = [k \in 0..cfg.count |-> d[k]]
    BY <2>3
  <2>5. c = d
    BY <2>3, <2>4, Zenon
  <2> QED BY <2>1, <2>2, <2>5
<1> QED BY <1>1, <1>2, <1>3

(* A rotation does not change the log. *)
LEMMA LogRotated ==
    ASSUME TypeOK, TypeOK', UNCHANGED <<cfg, emitted>>,
           removed' = IF Oldest = NoInode THEN removed ELSE removed \o inodes[Oldest],
           Contents(0)' = <<>>,
           \A k \in 1..cfg.count : Contents(k)' = Contents(k - 1)
    PROVE  Log' = Log
<1>1. PICK c : c = Held(dir, inodes, cfg.count)
  OBVIOUS
<1>2. PICK d : d = Held(dir', inodes', cfg.count)
  OBVIOUS
<1>3. PICK r : r = removed
  OBVIOUS
<1>4. PICK n \in Nat : n = cfg.count
  BY Types
<1>5. PICK S : S = Byte
  OBVIOUS
<1>6. Byte' = Byte
  BY DEF Byte
<1>7. /\ Log = LogOf(r, c, n) /\ c \in [0..n -> Seq(S)] /\ \A k \in 0..n : c[k] = Contents(k)
  BY <1>1, <1>3, <1>4, <1>5, LogFacts DEF LogOK
<1>8. /\ Log' = LogOf(removed', d, n) /\ d \in [0..n -> Seq(S)]
      /\ \A k \in 0..n : d[k] = Contents(k)'
  BY <1>2, <1>4, <1>5, <1>6, LogFactsNext DEF LogOK
<1>9. 0 \in 0..n /\ n \in 0..n /\ \A k \in 1..n : k \in 0..n /\ k - 1 \in 0..n
  OBVIOUS
<1>10. d[0] = <<>> /\ \A k \in 1..n : d[k] = c[k - 1]
  BY <1>4, <1>7, <1>8, <1>9
<1>11. removed' = r \o c[n]
  BY <1>3, <1>4, <1>7, <1>9, RemovedFacts
<1>12. r \in Seq(S)
  BY <1>3, <1>5, Types
<1>13. LogOf(r \o c[n], d, n) = LogOf(r, c, n)
  BY <1>7, <1>8, <1>10, <1>12, LogShift
<1> QED BY <1>7, <1>8, <1>11, <1>13

(* What is written comes last in the log, if the file still has a name. *)
LEMMA LogWritten ==
    ASSUME TypeOK, TypeOK', NamesInv, NEW x \in Seq(Byte), WriteFile(x),
           UNCHANGED <<cfg, emitted, dir, fd, removed>>
    PROVE  /\ Log' = Log \/ Log' = Log \o x
           /\ fd = dir[0] /\ fd # NoInode => Log' = Log \o x
<1>0. \A k \in 0..cfg.count :
         /\ fd = dir[k] /\ fd # NoInode => Contents(k)' = Contents(k) \o x
         /\ ~(fd = dir[k] /\ fd # NoInode) => Contents(k)' = Contents(k)
  BY WriteFacts
<1>1. PICK c : c = Held(dir, inodes, cfg.count)
  OBVIOUS
<1>2. PICK d : d = Held(dir', inodes', cfg.count)
  OBVIOUS
<1>3. PICK r : r = removed
  OBVIOUS
<1>4. PICK n \in Nat : n = cfg.count
  BY Types
<1>5. PICK S : S = Byte
  OBVIOUS
<1>6. Byte' = Byte
  BY DEF Byte
<1>7. /\ Log = LogOf(r, c, n) /\ c \in [0..n -> Seq(S)] /\ \A k \in 0..n : c[k] = Contents(k)
  BY <1>1, <1>3, <1>4, <1>5, LogFacts DEF LogOK
<1>8. /\ Log' = LogOf(r, d, n) /\ d \in [0..n -> Seq(S)]
      /\ \A k \in 0..n : d[k] = Contents(k)'
  BY <1>2, <1>3, <1>4, <1>5, <1>6, LogFactsNext DEF LogOK
<1>9. r \in Seq(S) /\ x \in Seq(S)
  BY <1>3, <1>5, Types
<1>10. ASSUME NEW j \in 0..n, fd = dir[j], fd # NoInode PROVE Log' = Log \o x
  <2>1. d[j] = c[j] \o x
    BY <1>0, <1>4, <1>7, <1>8, <1>10
  <2>2. \A k \in 0..n : k # j => d[k] = c[k]
    <3> TAKE k \in 0..n
    <3>1. k # j => fd # dir[k]
      BY <1>4, <1>10 DEF NamesInv
    <3> QED BY <1>0, <1>4, <1>7, <1>8, <3>1
  <2>3. \A k \in 0..n : k < j => c[k] = <<>>
    BY <1>4, <1>7, <1>10 DEF NamesInv
  <2>4. AppendsAt(r, c, d, n, j, x, S)
    BY <1>7, <1>8, <1>9, <2>1, <2>2, <2>3 DEF AppendsAt
  <2>5. LogOf(r, d, n) = Cat(LogOf(r, c, n), x)
    BY <2>4, LogAppend
  <2> QED BY <1>7, <1>8, <2>5 DEF Cat
<1>11. ASSUME \A j \in 0..n : ~(fd = dir[j] /\ fd # NoInode) PROVE Log' = Log
  <2>1. \A k \in 0..cfg.count : Contents(k)' = Contents(k)
    BY <1>0, <1>4, <1>11
  <2> QED BY <2>1, LogSame
<1>12. 0 \in 0..n
  OBVIOUS
<1> QED BY <1>10, <1>11, <1>12

-----------------------------------------------------------------------------
(* What each action does to the names and the log *)

(* Steps that touch no file. *)
LEMMA QuietFacts ==
    ASSUME TypeOK, TypeOK', NamesInv,
           ReadPipe \/ Close \/ (\E nl \in BOOLEAN : AppWrites(nl)) \/ Finished \/ UNCHANGED vars
    PROVE  /\ NamesInv' /\ Log' = Log
           /\ UNCHANGED <<cfg, faults, dir, inodes, removed, passed, rotate>>
           /\ \A k \in 0..cfg.count : Contents(k)' = Contents(k)
<1>1. UNCHANGED <<cfg, faults, dir, inodes, removed, passed, rotate>> /\ fd' \in {fd, NoFile}
  BY DEF ReadPipe, Close, AppWrites, Finished, vars
<1>2. NamesInv' /\ \A k \in 0..cfg.count : Contents(k)' = Contents(k)
  BY <1>1, NamesSame
<1>3. Log' = Log
  BY <1>1, <1>2, LogSame
<1> QED BY <1>1, <1>2, <1>3

(* Starting the stream opens its file. *)
LEMMA StartFacts ==
    ASSUME TypeOK, TypeOK', NamesInv, Start
    PROVE  /\ NamesInv' /\ Log' = Log
           /\ UNCHANGED <<cfg, faults, removed, passed, rotate, buf, pipe, emitted>>
           /\ \A k \in 0..cfg.count : Contents(k)' = Contents(k)
           /\ \A k \in 1..cfg.count : dir'[k] = dir[k]
           /\ dir[0] # NoInode => dir'[0] # NoInode
           /\ cfg.file /\ faults = {} =>
                fd' = dir'[0] /\ fd' # NoInode /\ bytesWritten' = Len(inodes'[fd'])
<1>1. UNCHANGED <<cfg, faults, removed, passed, rotate, buf, pipe, emitted>>
  BY DEF Start
<1>2. CASE OpenFile(dir)
  <2>1. PICK names \in [0..cfg.count -> {NoInode} \cup DOMAIN inodes] : names = dir
    BY DEF TypeOK
  <2>2. Distinct(names)
    BY <2>1 DEF NamesInv, Distinct
  <2>3. NamesInv'
    BY <1>1, <1>2, <2>1, <2>2, OpenNames
  <2>4. /\ \A k \in 1..cfg.count : dir'[k] = dir[k]
        /\ \A k \in 0..cfg.count :
             Contents(k)' = IF dir[k] = NoInode THEN <<>> ELSE inodes[dir[k]]
        /\ fd' = dir'[0] /\ fd' # NoInode /\ bytesWritten' = Len(inodes'[fd'])
    BY <1>1, <1>2, <2>1, OpenFacts
  <2>5. \A k \in 0..cfg.count : Contents(k)' = Contents(k)
    BY <2>4 DEF Contents
  <2>6. Log' = Log
    BY <1>1, <2>5, LogSame
  <2> QED BY <1>1, <2>3, <2>4, <2>5, <2>6
<1>3. CASE ~OpenFile(dir)
  <2>1. /\ fd' \in {NoFile, DevNull} /\ UNCHANGED <<inodes, dir>>
        /\ ~(cfg.file /\ faults = {})
    BY <1>3 DEF Start
  <2>2. NamesInv' /\ \A k \in 0..cfg.count : Contents(k)' = Contents(k)
    BY <1>1, <2>1, NamesSame
  <2>3. Log' = Log
    BY <1>1, <2>2, LogSame
  <2> QED BY <1>1, <2>1, <2>2, <2>3
<1> QED BY <1>2, <1>3

(* A rotation moves every file up. *)
LEMMA RotateFacts ==
    ASSUME TypeOK, TypeOK', NamesInv, Rotate
    PROVE  /\ NamesInv' /\ Log' = Log
           /\ Contents(0)' = <<>>
           /\ \A k \in 1..cfg.count : k - 1 \in 0..cfg.count /\ dir'[k] = dir[k - 1]
           /\ \A k \in 1..cfg.count : Contents(k)' = Contents(k - 1)
           /\ faults = {} => /\ fd' = dir'[0] /\ fd' # NoInode
                             /\ bytesWritten' = Len(inodes'[fd']) /\ buf' = buf
<1>1. /\ UNCHANGED <<cfg, emitted>>
      /\ removed' = IF Oldest = NoInode THEN removed ELSE removed \o inodes[Oldest]
  BY DEF Rotate
<1>2. /\ Shifted \in [0..cfg.count -> {NoInode} \cup DOMAIN inodes]
      /\ Shifted[0] = NoInode /\ 0 \in 0..cfg.count
      /\ \A k \in 1..cfg.count : k - 1 \in 0..cfg.count /\ Shifted[k] = dir[k - 1]
  BY ShiftFacts
<1>3. PICK names \in [0..cfg.count -> {NoInode} \cup DOMAIN inodes] : names = Shifted
  BY <1>2
<1>4. Distinct(names)
  BY <1>3, ShiftDistinct
<1>5. \A k \in 1..cfg.count : k \in 0..cfg.count
  OBVIOUS
<1>6. \A k \in 0..cfg.count :
         (Contents(k)' = IF names[k] = NoInode THEN <<>> ELSE inodes[names[k]])
         => /\ k = 0 => Contents(k)' = <<>>
            /\ k \in 1..cfg.count => Contents(k)' = Contents(k - 1)
  BY <1>2, <1>3 DEF Contents
<1>7. CASE OpenFile(Shifted) /\ buf' = buf
  <2>1. NamesInv'
    BY <1>1, <1>3, <1>4, <1>7, OpenNames
  <2>2. /\ \A k \in 1..cfg.count : dir'[k] = names[k]
        /\ \A k \in 0..cfg.count :
             Contents(k)' = IF names[k] = NoInode THEN <<>> ELSE inodes[names[k]]
        /\ fd' = dir'[0] /\ fd' # NoInode /\ bytesWritten' = Len(inodes'[fd'])
    BY <1>1, <1>3, <1>7, OpenFacts
  <2>3. Contents(0)' = <<>> /\ \A k \in 1..cfg.count : Contents(k)' = Contents(k - 1)
    BY <1>2, <1>5, <1>6, <2>2
  <2>4. Log' = Log
    BY <1>1, <2>3, LogRotated
  <2>5. \A k \in 1..cfg.count : k - 1 \in 0..cfg.count /\ dir'[k] = dir[k - 1]
    BY <1>2, <1>3, <2>2
  <2> QED BY <1>7, <2>1, <2>2, <2>3, <2>4, <2>5
<1>8. CASE "open" \in faults /\ fd' = NoFile /\ dir' = Shifted /\ UNCHANGED <<inodes, bytesWritten>>
  <2>1. \A k \in 0..cfg.count :
          Contents(k)' = IF names[k] = NoInode THEN <<>> ELSE inodes[names[k]]
    BY <1>3, <1>8 DEF Contents
  <2>2. Contents(0)' = <<>> /\ \A k \in 1..cfg.count : Contents(k)' = Contents(k - 1)
    BY <1>2, <1>5, <1>6, <2>1
  <2>3. Log' = Log
    BY <1>1, <2>2, LogRotated
  <2>4. \A k \in 0..cfg.count : fd' # dir'[k]
    <3>1. NoFile \notin DOMAIN inodes /\ NoFile # NoInode
      BY Types DEF NoFile, NoInode
    <3> QED BY <1>3, <1>8, <3>1
  <2>5. NamesInv'
    BY <1>1, <1>2, <1>3, <1>4, <1>8, <2>4 DEF NamesInv, Distinct
  <2>6. \A k \in 1..cfg.count : k - 1 \in 0..cfg.count /\ dir'[k] = dir[k - 1]
    BY <1>2, <1>8
  <2>7. faults # {}
    BY <1>8
  <2> QED BY <2>2, <2>3, <2>5, <2>6, <2>7
<1> QED BY <1>7, <1>8 DEF Rotate

(* So does the rotation of the other stream. *)
LEMMA NeighbourLog ==
    ASSUME TypeOK, TypeOK', NamesInv, NeighbourRotates
    PROVE  NamesInv' /\ Log' = Log
<1>1. /\ UNCHANGED <<cfg, emitted>>
      /\ removed' = IF Oldest = NoInode THEN removed ELSE removed \o inodes[Oldest]
  BY DEF NeighbourRotates
<1>2. /\ NamesInv' /\ Contents(0)' = <<>>
      /\ \A k \in 1..cfg.count : Contents(k)' = Contents(k - 1)
  BY NeighbourFacts
<1> QED BY <1>1, <1>2, LogRotated

(* A chunk moves from the buffer to the log and the passthrough. *)
LEMMA ChunkStep ==
    ASSUME TypeOK, TypeOK', NamesInv, WriteChunk
    PROVE  \E x, rest \in Seq(Byte) :
             /\ x # <<>> /\ buf = x \o rest /\ buf' = rest /\ WriteFile(x)
             /\ Len(x) = ChunkSize /\ \A k \in 1..ChunkSize : x[k] = buf[k]
             /\ passed' = IF Passing THEN passed \o x ELSE passed
             /\ rotate' = RotationDue(bytesWritten', Last(x))
             /\ NamesInv'
             /\ Log' = Log \/ Log' = Log \o x
             /\ fd = dir[0] /\ fd # NoInode => Log' = Log \o x
<1>1. PICK x : x = SubSeq(buf, 1, ChunkSize)
  OBVIOUS
<1>2. PICK rest : rest = SubSeq(buf, ChunkSize + 1, Len(buf))
  OBVIOUS
<1>3. /\ buf # <<>> /\ WriteFile(x) /\ buf' = rest
      /\ passed' = IF Passing THEN passed \o x ELSE passed
      /\ rotate' = RotationDue(bytesWritten', Last(x))
      /\ UNCHANGED <<cfg, emitted, dir, fd, removed>>
  BY <1>1, <1>2 DEF WriteChunk
<1>4. ChunkSize \in 1..Len(buf) /\ ChunkSize \in 0..Len(buf) /\ buf \in Seq(Byte)
  BY <1>3, ChunkFacts, Types
<1>5. /\ x \in Seq(Byte) /\ rest \in Seq(Byte) /\ x \o rest = buf
      /\ Len(x) = ChunkSize /\ \A k \in 1..ChunkSize : x[k] = buf[k]
  BY <1>1, <1>2, <1>4, Split
<1>6. x # <<>>
  BY <1>4, <1>5
<1>7. NamesInv'
  BY <1>3, <1>5, WriteNames
<1>8. /\ Log' = Log \/ Log' = Log \o x
      /\ fd = dir[0] /\ fd # NoInode => Log' = Log \o x
  BY <1>3, <1>5, LogWritten
<1> QED BY <1>3, <1>5, <1>6, <1>7, <1>8

(* A failing write leaves the beginning of the buffer, or nothing. *)
LEMMA FailStep ==
    ASSUME TypeOK, TypeOK', NamesInv, WriteFails
    PROVE  /\ NamesInv'
           /\ \E x, r \in Seq(Byte) : buf = x \o r /\ (Log' = Log \/ Log' = Log \o x)
           /\ \E x, r \in Seq(Byte) :
                buf = x \o r /\ (passed' = passed \/ passed' = passed \o x)
<1>1. buf # <<>> /\ UNCHANGED <<cfg, emitted, dir, fd, removed>>
  BY DEF WriteFails
<1>2. PICK done \in 0..(ChunkSize - 1) :
         \/ WriteFile(SubSeq(buf, 1, done)) /\ passed' = passed
         \/ /\ WriteFile(SubSeq(buf, 1, ChunkSize))
            /\ passed' = passed \o SubSeq(buf, 1, done)
  BY DEF WriteFails
<1>3. done \in 0..Len(buf) /\ ChunkSize \in 0..Len(buf) /\ buf \in Seq(Byte)
  BY <1>1, ChunkFacts, Types
<1>4. PICK x, y : x = SubSeq(buf, 1, done) /\ y = SubSeq(buf, 1, ChunkSize)
  OBVIOUS
<1>5. /\ x \in Seq(Byte) /\ SubSeq(buf, done + 1, Len(buf)) \in Seq(Byte)
      /\ buf = x \o SubSeq(buf, done + 1, Len(buf))
  BY <1>3, <1>4, Split
<1>6. /\ y \in Seq(Byte) /\ SubSeq(buf, ChunkSize + 1, Len(buf)) \in Seq(Byte)
      /\ buf = y \o SubSeq(buf, ChunkSize + 1, Len(buf))
  BY <1>3, <1>4, Split
<1>7. CASE WriteFile(x) /\ passed' = passed
  <2>1. NamesInv'
    BY <1>1, <1>5, <1>7, WriteNames
  <2>2. Log' = Log \/ Log' = Log \o x
    BY <1>1, <1>5, <1>7, LogWritten
  <2> QED BY <1>5, <1>7, <2>1, <2>2
<1>8. CASE WriteFile(y) /\ passed' = passed \o x
  <2>1. NamesInv'
    BY <1>1, <1>6, <1>8, WriteNames
  <2>2. Log' = Log \/ Log' = Log \o y
    BY <1>1, <1>6, <1>8, LogWritten
  <2> QED BY <1>5, <1>6, <1>8, <2>1, <2>2
<1> QED BY <1>2, <1>4, <1>7, <1>8

-----------------------------------------------------------------------------
(* The first part of the invariant: types, names, and when the stream is up. *)
LEMMA FilesInit == Init => FilesInv
<1> SUFFICES ASSUME Init PROVE FilesInv
  OBVIOUS
<1>1. cfg \in StreamConfigs /\ cfg.count \in Nat
  BY StreamConfigsAssumption DEF Init
<1>2. <<>> \in Seq(Byte) /\ <<>> \in Seq(Seq(Byte))
  OBVIOUS
<1>3. {up, lineStart, rotate} \subseteq BOOLEAN /\ {pipe, buf, passed, removed} \subseteq Seq(Byte)
  BY <1>2 DEF Init
<1>4. dir \in [0..cfg.count -> {NoInode} \cup DOMAIN inodes]
  BY DEF Init
<1>5. TypeOK
  BY <1>1, <1>2, <1>3, <1>4, BoundsAssumption DEF Init, TypeOK
<1>6. NamesInv
  BY DEF Init, NamesInv, NoFile, NoInode
<1>7. BusyInv
  BY DEF Init, BusyInv
<1> QED BY <1>5, <1>6, <1>7 DEF FilesInv

(* Every step keeps it. *)
LEMMA FilesStep == FilesInv /\ [Next]_vars => FilesInv'
<1> SUFFICES ASSUME FilesInv, [Next]_vars PROVE FilesInv'
  OBVIOUS
<1>1. TypeOK /\ NamesInv /\ BusyInv /\ TypeOK'
  BY TypeStep DEF FilesInv
<1>2. cfg.size \in Nat /\ cfg.file \in BOOLEAN
  BY <1>1, Types
<1> DEFINE Nofile == /\ fd = NoFile /\ bytesWritten = 0 /\ ~rotate
                     /\ \A k \in 0..cfg.count : dir[k] = NoInode
<1>3. /\ buf # <<>> \/ rotate \/ pipe # <<>> => up
      /\ ~cfg.file => Nofile
  BY <1>1 DEF BusyInv
<1>4. /\ (buf' # <<>> \/ rotate' \/ pipe' # <<>> => up') /\ (~cfg'.file => Nofile')
      => BusyInv'
  BY DEF BusyInv
<1> HIDE DEF Nofile
<1>5. CASE Start
  <2>1. NamesInv'
    BY <1>1, <1>5, StartFacts
  <2>2. up' /\ cfg' = cfg
    BY <1>5 DEF Start
  <2>3. ~cfg.file => Nofile'
    BY <1>3, <1>5 DEF Start, Nofile
  <2> QED BY <1>1, <1>4, <2>1, <2>2, <2>3 DEF FilesInv
<1>6. CASE ReadPipe
  <2>1. NamesInv'
    BY <1>1, <1>6, QuietFacts
  <2>2. up' /\ cfg' = cfg
    BY <1>6 DEF ReadPipe
  <2>3. ~cfg.file => Nofile'
    BY <1>3, <1>6 DEF ReadPipe, Nofile
  <2> QED BY <1>1, <1>4, <2>1, <2>2, <2>3 DEF FilesInv
<1>7. CASE WriteChunk
  <2>1. PICK x : /\ WriteFile(x) /\ NamesInv'
                 /\ rotate' = RotationDue(bytesWritten', Last(x))
    BY <1>1, <1>7, ChunkStep
  <2>2. up' /\ UNCHANGED <<cfg, fd, dir>>
    BY <1>3, <1>7 DEF WriteChunk
  <2>3. ASSUME ~cfg.file PROVE Nofile'
    <3>1. fd = NoFile /\ bytesWritten = 0
      BY <1>3, <2>3 DEF Nofile
    <3>2. bytesWritten' = 0
      BY <2>1, <3>1 DEF WriteFile
    <3>3. ~rotate'
      <4>1. rotate' => cfg.size > 0 /\ bytesWritten' >= cfg.size
        BY <2>1 DEF RotationDue
      <4> QED BY <1>2, <3>2, <4>1
    <3> QED BY <1>3, <2>2, <2>3, <3>2, <3>3 DEF Nofile
  <2> QED BY <1>1, <1>4, <2>1, <2>2, <2>3 DEF FilesInv
<1>8. CASE WriteFails
  <2>1. NamesInv'
    BY <1>1, <1>8, FailStep
  <2>2. up' /\ UNCHANGED <<cfg, fd, dir, rotate>>
    BY <1>3, <1>8 DEF WriteFails
  <2>3. ASSUME ~cfg.file PROVE Nofile'
    <3>1. fd = NoFile /\ bytesWritten = 0
      BY <1>3, <2>3 DEF Nofile
    <3>2. bytesWritten' = 0
      BY <1>8, <3>1 DEF WriteFails, WriteFile
    <3> QED BY <1>3, <2>2, <2>3, <3>2 DEF Nofile
  <2> QED BY <1>1, <1>4, <2>1, <2>2, <2>3 DEF FilesInv
<1>9. CASE Rotate
  <2>1. NamesInv'
    BY <1>1, <1>9, RotateFacts
  <2>2. up' /\ cfg' = cfg /\ rotate
    BY <1>3, <1>9 DEF Rotate
  <2>3. cfg.file
    BY <1>2, <1>3, <2>2 DEF Nofile
  <2> QED BY <1>1, <1>4, <2>1, <2>2, <2>3 DEF FilesInv
<1>10. CASE NeighbourRotates
  <2>1. NamesInv'
    BY <1>1, <1>10, NeighbourLog
  <2>2. UNCHANGED <<cfg, up, buf, pipe, rotate>> /\ cfg.file
    BY <1>10 DEF NeighbourRotates
  <2> QED BY <1>1, <1>3, <1>4, <2>1, <2>2 DEF FilesInv
<1>11. CASE Close
  <2>1. NamesInv'
    BY <1>1, <1>11, QuietFacts
  <2>2. UNCHANGED <<cfg, buf, pipe, rotate>> /\ buf = <<>> /\ ~rotate /\ pipe = <<>>
    BY <1>11 DEF Close
  <2>3. ~cfg.file => Nofile'
    BY <1>3, <1>11 DEF Close, Nofile
  <2> QED BY <1>1, <1>4, <2>1, <2>2, <2>3 DEF FilesInv
<1>12. ASSUME NEW nl \in BOOLEAN, AppWrites(nl) PROVE FilesInv'
  <2>1. NamesInv'
    BY <1>1, <1>12, QuietFacts
  <2>2. up' /\ cfg' = cfg
    BY <1>12 DEF AppWrites
  <2>3. ~cfg.file => Nofile'
    BY <1>3, <1>12 DEF AppWrites, Nofile
  <2> QED BY <1>1, <1>4, <2>1, <2>2, <2>3 DEF FilesInv
<1>13. CASE Finished \/ UNCHANGED vars
  <2>1. NamesInv'
    BY <1>1, <1>13, QuietFacts
  <2>2. UNCHANGED <<cfg, up, buf, pipe, rotate, fd, bytesWritten, dir>>
    BY <1>13 DEF Finished, vars
  <2>3. ~cfg.file => Nofile'
    BY <1>3, <2>2 DEF Nofile
  <2> QED BY <1>1, <1>3, <1>4, <2>1, <2>2, <2>3 DEF FilesInv
<1> QED BY <1>5, <1>6, <1>7, <1>8, <1>9, <1>10, <1>11, <1>12, <1>13 DEF Next

-----------------------------------------------------------------------------
(* The order *)

(* Before depends on what occurs only. *)
LEMMA BeforeOccurs ==
    ASSUME NEW a \in Seq(Bytes), NEW b \in Seq(Bytes), NEW c \in Seq(Bytes),
           \A m \in Nat \ {0} : Occurs(m, a) => Occurs(m, b)
    PROVE  /\ Before(b, c) => Before(a, c)
           /\ Before(c, b) => Before(c, a)
<1>1. \A k \in DOMAIN a : a[k].n # 0 => \E l \in DOMAIN b : b[l].n = a[k].n
  <2> TAKE k \in DOMAIN a
  <2>1. a[k] \in Bytes
    OBVIOUS
  <2>2. a[k].n \in Nat /\ Occurs(a[k].n, a)
    BY <2>1 DEF Bytes, Occurs
  <2> QED BY <2>2 DEF Occurs
<1> QED BY <1>1 DEF Before

(* The front x of what comes next, b, is put behind a, or thrown away. *)
IsMove(a, x, r, p, b, a2) ==
    /\ {a, x, r, p} \subseteq Seq(Bytes)
    /\ b = x \o r
    /\ a2 = a \/ a2 = a \o x
    /\ Ascending(a) /\ Ascending(b) /\ Before(a, b) /\ Before(a, p) /\ Before(b, p)

(* Everything is in order then, too. *)
LEMMA Moved ==
    ASSUME NEW a, NEW x, NEW r, NEW p, NEW b, NEW a2, IsMove(a, x, r, p, b, a2)
    PROVE  /\ Ascending(a2) /\ Before(a2, r) /\ Before(a2, p)
           /\ Ascending(r) /\ Before(r, p)
<1>0. /\ a \in Seq(Bytes) /\ x \in Seq(Bytes) /\ r \in Seq(Bytes) /\ p \in Seq(Bytes)
      /\ Ascending(a) /\ Ascending(x \o r) /\ Before(a, x \o r) /\ Before(a, p)
      /\ Before(x \o r, p) /\ (a2 = a \/ a2 = a \o x)
  BY DEF IsMove
<1>1. Ascending(x) /\ Ascending(r) /\ Before(x, r)
  BY <1>0, AscendingConcat
<1>2. Before(a, x) /\ Before(a, r) /\ Before(x, p) /\ Before(r, p)
  BY <1>0, BeforeConcat
<1>3. Ascending(a \o x)
  BY <1>0, <1>1, <1>2, AscendingConcat
<1>4. Before(a \o x, r) /\ Before(a \o x, p)
  BY <1>0, <1>1, <1>2, BeforeConcat
<1> QED BY <1>0, <1>1, <1>2, <1>3, <1>4

(* The log is empty at the start. *)
LEMMA LogInit == Init => Log = <<>>
<1> SUFFICES ASSUME Init PROVE Log = <<>>
  OBVIOUS
<1>1. TypeOK
  BY FilesInit DEF FilesInv
<1>2. PICK n \in Nat : n = cfg.count
  BY <1>1, Types
<1>3. PICK c : c = Held(dir, inodes, cfg.count)
  OBVIOUS
<1>4. PICK S : S = Byte
  OBVIOUS
<1>5. /\ Log = LogOf(<<>>, c, n) /\ c \in [0..n -> Seq(S)]
      /\ \A k \in 0..n : c[k] = Contents(k)
  BY <1>1, <1>2, <1>3, <1>4, LogFacts DEF LogOK, Init
<1>6. \A k \in 0..n : c[k] = <<>>
  BY <1>2, <1>5 DEF Init, Contents
<1> DEFINE s == [k \in 1..n + 1 |-> c[n + 1 - k]]
<1>7. /\ s \in Seq(Seq(S)) /\ Len(s) = n + 1
      /\ \A k \in 1..n + 1 : n + 1 - k \in 0..n /\ s[k] = c[n + 1 - k]
  BY <1>5, OldestFirst
<1> HIDE DEF s
<1>8. \A k \in 1..Len(s) : s[k] = <<>>
  BY <1>6, <1>7
<1>9. FlattenSeq(s) = <<>>
  BY <1>7, <1>8, FlattenNothing
<1>10. <<>> \o <<>> = <<>>
  OBVIOUS
<1> QED BY <1>5, <1>9, <1>10 DEF LogOf, s

(* The order holds at the start. *)
LEMMA OrderInit == Init => OrderInv
<1> SUFFICES ASSUME Init PROVE OrderInv
  OBVIOUS
<1>1. pipe = <<>> /\ buf = <<>> /\ passed = <<>> /\ Log = <<>>
  BY LogInit DEF Init
<1> QED BY <1>1, NoBytes DEF OrderInv

(* The order stays when at most the buffer is thrown away. *)
LEMMA OrderSame ==
    ASSUME OrderInv, Log' = Log, UNCHANGED <<passed, pipe>>, buf' \in {buf, <<>>}
    PROVE  OrderInv'
<1>1. CASE buf' = buf
  BY <1>1 DEF OrderInv
<1>2. CASE buf' = <<>>
  <2>1. Ascending(buf') /\ Before(Log, buf') /\ Before(passed, buf') /\ Before(buf', pipe)
    BY <1>2, NoBytes
  <2> QED BY <2>1 DEF OrderInv
<1> QED BY <1>1, <1>2

(* Every step keeps the order. *)
LEMMA OrderStep == FilesInv /\ FilesInv' /\ OrderInv /\ [Next]_vars => OrderInv'
<1> SUFFICES ASSUME FilesInv, FilesInv', OrderInv, [Next]_vars PROVE OrderInv'
  OBVIOUS
<1>1. TypeOK /\ NamesInv /\ BusyInv /\ TypeOK' /\ NamesInv'
  BY DEF FilesInv
<1>2. /\ Ascending(Log) /\ Ascending(passed) /\ Ascending(buf) /\ Ascending(pipe)
      /\ Before(Log, buf) /\ Before(Log, pipe) /\ Before(passed, buf)
      /\ Before(passed, pipe) /\ Before(buf, pipe)
  BY DEF OrderInv
<1>3. Seq(Byte) \subseteq Seq(Bytes)
  BY <1>1, Types, SeqMonotone
<1>4. /\ Log \in Seq(Byte) /\ passed \in Seq(Byte) /\ buf \in Seq(Byte) /\ pipe \in Seq(Byte)
  BY <1>1, Types, LogFacts DEF LogOK
<1>5. PICK l, q, b, p \in Seq(Bytes) : l = Log /\ q = passed /\ b = buf /\ p = pipe
  BY <1>3, <1>4
<1>6. /\ Ascending(l) /\ Ascending(q) /\ Ascending(b) /\ Ascending(p)
      /\ Before(l, b) /\ Before(l, p) /\ Before(q, b) /\ Before(q, p) /\ Before(b, p)
  BY <1>2, <1>5
<1>7. CASE Start
  <2>1. Log' = Log /\ UNCHANGED <<passed, pipe, buf>>
    BY <1>1, <1>7, StartFacts
  <2> QED BY <2>1, OrderSame
<1>8. CASE Rotate
  <2>1. Log' = Log
    BY <1>1, <1>8, RotateFacts
  <2>2. UNCHANGED <<passed, pipe>> /\ buf' \in {buf, <<>>}
    BY <1>8 DEF Rotate
  <2> QED BY <2>1, <2>2, OrderSame
<1>9. CASE NeighbourRotates
  <2>1. Log' = Log
    BY <1>1, <1>9, NeighbourLog
  <2>2. UNCHANGED <<passed, pipe, buf>>
    BY <1>9 DEF NeighbourRotates
  <2> QED BY <2>1, <2>2, OrderSame
<1>10. CASE Close \/ Finished \/ UNCHANGED vars
  <2>1. Log' = Log
    BY <1>1, <1>10, QuietFacts
  <2>2. UNCHANGED <<passed, pipe, buf>>
    BY <1>10 DEF Close, Finished, vars
  <2> QED BY <2>1, <2>2, OrderSame
<1>11. CASE ReadPipe
  <2>1. Log' = Log /\ passed' = passed
    BY <1>1, <1>11, QuietFacts
  <2>2. PICK x \in Seq(Byte), r \in Seq(Byte) : pipe = x \o r /\ pipe' = r /\ ReadAs(x)
    BY <1>1, <1>11, ReadFacts
  <2>3. PICK c : c = buf'
    OBVIOUS
  <2>4. /\ c \in Seq(Byte)
        /\ Ascending(x) => Ascending(c)
        /\ \A m \in Nat \ {0} : Occurs(m, c) => Occurs(m, x)
    BY <2>2, <2>3 DEF ReadAs
  <2>5. x \in Seq(Bytes) /\ r \in Seq(Bytes) /\ c \in Seq(Bytes)
    BY <1>3, <2>2, <2>4
  <2>6. Ascending(x) /\ Ascending(r) /\ Before(x, r)
    BY <1>5, <1>6, <2>2, <2>5, AscendingConcat
  <2>7. Before(l, x) /\ Before(l, r) /\ Before(q, x) /\ Before(q, r)
    BY <1>5, <1>6, <2>2, <2>5, BeforeConcat
  <2>8. Ascending(c) /\ Before(l, c) /\ Before(q, c) /\ Before(c, r)
    BY <2>4, <2>5, <2>6, <2>7, BeforeOccurs
  <2> QED BY <1>5, <1>6, <2>1, <2>2, <2>3, <2>6, <2>7, <2>8 DEF OrderInv
<1>12. CASE WriteChunk
  <2>1. PICK x \in Seq(Byte), r \in Seq(Byte) :
            /\ buf = x \o r /\ buf' = r
            /\ passed' = IF Passing THEN passed \o x ELSE passed
            /\ Log' = Log \/ Log' = Log \o x
    BY <1>1, <1>12, ChunkStep
  <2>2. x \in Seq(Bytes) /\ r \in Seq(Bytes)
    BY <1>3, <2>1
  <2>3. PICK l2, q2 : l2 = Log' /\ q2 = passed'
    OBVIOUS
  <2>4. (l2 = l \/ l2 = l \o x) /\ (q2 = q \/ q2 = q \o x) /\ b = x \o r
    BY <1>5, <2>1, <2>3
  <2>5. Ascending(l2) /\ Before(l2, r) /\ Before(l2, p) /\ Ascending(r) /\ Before(r, p)
    <3>1. IsMove(l, x, r, p, b, l2)
      BY <1>6, <2>2, <2>4 DEF IsMove
    <3> QED BY <3>1, Moved
  <2>6. Ascending(q2) /\ Before(q2, r) /\ Before(q2, p)
    <3>1. IsMove(q, x, r, p, b, q2)
      BY <1>6, <2>2, <2>4 DEF IsMove
    <3> QED BY <3>1, Moved
  <2>7. pipe' = p
    BY <1>5, <1>12 DEF WriteChunk
  <2> QED BY <1>6, <2>1, <2>3, <2>5, <2>6, <2>7 DEF OrderInv
<1>13. CASE WriteFails
  <2>1. PICK x \in Seq(Byte), r \in Seq(Byte) : buf = x \o r /\ (Log' = Log \/ Log' = Log \o x)
    BY <1>1, <1>13, FailStep
  <2>2. PICK y \in Seq(Byte), t \in Seq(Byte) :
            buf = y \o t /\ (passed' = passed \/ passed' = passed \o y)
    BY <1>1, <1>13, FailStep
  <2>3. x \in Seq(Bytes) /\ r \in Seq(Bytes) /\ y \in Seq(Bytes) /\ t \in Seq(Bytes)
    BY <1>3, <2>1, <2>2
  <2>4. PICK l2, q2 : l2 = Log' /\ q2 = passed'
    OBVIOUS
  <2>5. Ascending(l2) /\ Before(l2, p)
    <3>1. (l2 = l \/ l2 = l \o x) /\ b = x \o r
      BY <1>5, <2>1, <2>4
    <3>2. IsMove(l, x, r, p, b, l2)
      BY <1>6, <2>3, <3>1 DEF IsMove
    <3> QED BY <3>2, Moved
  <2>6. Ascending(q2) /\ Before(q2, p)
    <3>1. (q2 = q \/ q2 = q \o y) /\ b = y \o t
      BY <1>5, <2>2, <2>4
    <3>2. IsMove(q, y, t, p, b, q2)
      BY <1>6, <2>3, <3>1 DEF IsMove
    <3> QED BY <3>2, Moved
  <2>7. pipe' = p /\ buf' = <<>>
    BY <1>5, <1>13 DEF WriteFails
  <2>8. Ascending(<<>>) /\ Before(l2, <<>>) /\ Before(q2, <<>>) /\ Before(<<>>, p)
    BY NoBytes
  <2> QED BY <1>6, <2>4, <2>5, <2>6, <2>7, <2>8 DEF OrderInv
<1>14. ASSUME NEW nl \in BOOLEAN, AppWrites(nl) PROVE OrderInv'
  <2>1. Log' = Log /\ passed' = passed
    BY <1>1, <1>14, QuietFacts
  <2>2. PICK c : c = [n |-> emitted + 1, nl |-> nl]
    OBVIOUS
  <2>3. pipe' = Append(p, c) /\ buf' = b
    BY <1>5, <1>14, <2>2 DEF AppWrites
  <2>4. emitted \in Nat /\ c.n = emitted + 1 /\ c \in Bytes
    BY <1>1, <2>2, Types DEF Bytes
  <2>5. <<c>> \in Seq(Bytes) /\ Append(p, c) = p \o <<c>> /\ Ascending(<<c>>)
    BY <2>4 DEF Ascending
  <2>6. ASSUME NEW s \in Seq(Byte) PROVE Before(s, <<c>>)
    <3>1. \A k \in DOMAIN s : s[k] \in Byte
      OBVIOUS
    <3>2. \A k \in DOMAIN s : s[k].n \in 0..emitted
      BY <3>1 DEF Byte
    <3>3. DOMAIN <<c>> = {1} /\ <<c>>[1] = c
      OBVIOUS
    <3>4. \A k \in DOMAIN s : s[k].n < c.n
      BY <2>4, <3>2
    <3> QED BY <3>3, <3>4 DEF Before
  <2>7. Before(l, <<c>>) /\ Before(q, <<c>>) /\ Before(b, <<c>>) /\ Before(p, <<c>>)
    BY <1>4, <1>5, <2>6
  <2>8. Ascending(p \o <<c>>)
    BY <1>6, <2>5, <2>7, AscendingConcat
  <2>9. Before(l, p \o <<c>>) /\ Before(q, p \o <<c>>) /\ Before(b, p \o <<c>>)
    BY <1>6, <2>5, <2>7, BeforeConcat
  <2>10. PICK p2 : p2 = p \o <<c>>
    OBVIOUS
  <2>11. Ascending(p2) /\ Before(l, p2) /\ Before(q, p2) /\ Before(b, p2) /\ pipe' = p2
    BY <2>3, <2>5, <2>8, <2>9, <2>10
  <2> QED BY <1>5, <1>6, <2>1, <2>3, <2>11 DEF OrderInv
<1> QED BY <1>7, <1>8, <1>9, <1>10, <1>11, <1>12, <1>13, <1>14 DEF Next

-----------------------------------------------------------------------------
(* As long as nothing fails *)

(* The last of a concatenation. *)
LEMMA LastConcat ==
    ASSUME NEW S, NEW a \in Seq(S), NEW b \in Seq(S), b # <<>>
    PROVE  Last(a \o b) = Last(b) /\ Len(a \o b) = Len(a) + Len(b)
<1>1. Len(b) \in DOMAIN b
  OBVIOUS
<1>2. (a \o b)[Len(a) + Len(b)] = b[Len(b)] /\ Len(a \o b) = Len(a) + Len(b)
  BY <1>1, ConcatAt
<1> QED BY <1>2 DEF Last

(* Only these steps are possible, and a rotation opens a new file. *)
LEMMA NoFaultSteps ==
    ASSUME faults = {}, [Next]_vars
    PROVE  /\ faults' = {} /\ cfg' = cfg
           /\ \/ Start \/ WriteChunk \/ Rotate \/ ReadPipe \/ Close
              \/ \E nl \in BOOLEAN : AppWrites(nl)
              \/ Finished \/ UNCHANGED vars
<1>1. ~WriteFails /\ ~NeighbourRotates
  BY DEF WriteFails, NeighbourRotates
<1>2. UNCHANGED <<cfg, faults>>
  BY <1>1 DEF Next, Start, WriteChunk, Rotate, ReadPipe, Close, AppWrites, Finished, vars
<1> QED BY <1>1, <1>2 DEF Next

(* A chunk goes to the file of the configured name. *)
LEMMA ChunkSound ==
    ASSUME FilesInv, FilesInv', CurrentInv, cfg.file, WriteChunk
    PROVE  \E x, rest \in Seq(Byte) :
             /\ x # <<>> /\ buf = x \o rest /\ buf' = rest
             /\ Len(x) = ChunkSize /\ \A k \in 1..ChunkSize : x[k] = buf[k]
             /\ passed' = IF Passing THEN passed \o x ELSE passed
             /\ rotate' = RotationDue(bytesWritten', Last(x))
             /\ Log' = Log \o x
             /\ fd = dir[0] /\ fd # NoInode
             /\ bytesWritten = Len(Contents(0)) /\ bytesWritten' = Len(Contents(0)')
             /\ bytesWritten' = bytesWritten + Len(x)
             /\ Contents(0) \in Seq(Byte) /\ Contents(0)' = Contents(0) \o x
             /\ \A k \in 1..cfg.count : Contents(k)' = Contents(k)
<1>1. TypeOK /\ TypeOK' /\ NamesInv /\ BusyInv /\ cfg.count \in Nat
  BY Types DEF FilesInv
<1>2. up /\ UNCHANGED <<cfg, emitted, dir, fd, up>>
  BY <1>1 DEF WriteChunk, BusyInv
<1>3. fd = dir[0] /\ fd # NoInode /\ bytesWritten = Len(inodes[fd])
  BY <1>2 DEF CurrentInv
<1>4. PICK x \in Seq(Byte), rest \in Seq(Byte) :
         /\ x # <<>> /\ buf = x \o rest /\ buf' = rest /\ WriteFile(x)
         /\ Len(x) = ChunkSize /\ \A k \in 1..ChunkSize : x[k] = buf[k]
         /\ passed' = IF Passing THEN passed \o x ELSE passed
         /\ rotate' = RotationDue(bytesWritten', Last(x))
         /\ Log' = Log \o x
  BY <1>1, <1>3, ChunkStep
<1>5. 0 \in 0..cfg.count /\ \A k \in 1..cfg.count : k \in 0..cfg.count /\ k # 0
  BY <1>1
<1>6. \A k \in 1..cfg.count : dir[k] # fd
  BY <1>1, <1>3, <1>5 DEF NamesInv
<1>7. /\ fd # NoFile => bytesWritten' = bytesWritten + Len(x)
      /\ \A k \in 0..cfg.count :
           /\ fd = dir[k] /\ fd # NoInode => Contents(k)' = Contents(k) \o x
           /\ ~(fd = dir[k] /\ fd # NoInode) => Contents(k)' = Contents(k)
  BY <1>1, <1>2, <1>4, WriteFacts
<1>8. fd # NoFile
  <2>1. dir[0] \in {NoInode} \cup DOMAIN inodes /\ NoFile \notin DOMAIN inodes
    BY <1>1, <1>5, Types DEF TypeOK
  <2> QED BY <1>3, <2>1
<1>9. Contents(0)' = Contents(0) \o x /\ \A k \in 1..cfg.count : Contents(k)' = Contents(k)
  BY <1>3, <1>5, <1>6, <1>7
<1>10. Contents(0) \in Seq(Byte)
  BY <1>1, <1>5, LogFacts DEF LogOK
<1>11. bytesWritten = Len(Contents(0))
  BY <1>3 DEF Contents
<1>12. bytesWritten' = bytesWritten + Len(x)
  BY <1>7, <1>8
<1>13. Len(Contents(0)') = Len(Contents(0)) + Len(x)
  <2>1. PICK c \in Seq(Byte) : c = Contents(0)
    BY <1>10
  <2>2. Len(c \o x) = Len(c) + Len(x)
    BY <1>4, <2>1, LastConcat
  <2> QED BY <1>9, <2>1, <2>2
<1>14. bytesWritten' = Len(Contents(0)')
  BY <1>11, <1>12, <1>13
<1> QED BY <1>3, <1>4, <1>9, <1>10, <1>11, <1>12, <1>14

(* The stream stays with the file of the configured name. *)
LEMMA CurrentStep ==
    ASSUME FilesInv, FilesInv', CurrentInv, faults = {}, [Next]_vars
    PROVE  CurrentInv'
<1>1. TypeOK /\ TypeOK' /\ NamesInv /\ BusyInv
  BY DEF FilesInv
<1>2. SUFFICES ASSUME cfg.file, up'
               PROVE  fd' = dir'[0] /\ fd' # NoInode /\ bytesWritten' = Len(inodes'[fd'])
  BY NoFaultSteps DEF CurrentInv
<1>3. CASE Start
  BY <1>1, <1>2, <1>3, StartFacts
<1>4. CASE WriteChunk
  <2>1. fd = dir[0] /\ fd # NoInode /\ bytesWritten' = Len(Contents(0)')
    BY <1>2, <1>4, ChunkSound
  <2>2. UNCHANGED <<fd, dir>>
    BY <1>4 DEF WriteChunk
  <2> QED BY <2>1, <2>2 DEF Contents
<1>5. CASE Rotate
  BY <1>1, <1>5, RotateFacts
<1>6. CASE Close
  BY <1>2, <1>6 DEF Close
<1>7. CASE ReadPipe \/ (\E nl \in BOOLEAN : AppWrites(nl)) \/ Finished \/ UNCHANGED vars
  <2>1. UNCHANGED <<fd, dir, inodes, bytesWritten, up>>
    BY <1>7 DEF ReadPipe, AppWrites, Finished, vars
  <2> QED BY <1>2, <2>1 DEF CurrentInv
<1> QED BY <1>3, <1>4, <1>5, <1>6, <1>7, NoFaultSteps

(* No byte is lost. *)
LEMMA KeptStep ==
    ASSUME FilesInv, FilesInv', CurrentInv, KeptInv, faults = {}, [Next]_vars
    PROVE  KeptInv'
<1>1. TypeOK /\ TypeOK' /\ NamesInv /\ BusyInv
  BY DEF FilesInv
<1>2. SUFFICES ASSUME cfg.file, NEW n \in 1..emitted'
               PROVE  Occurs(n, Log') \/ Occurs(n, buf') \/ Occurs(n, pipe')
  BY NoFaultSteps DEF KeptInv
<1>3. \A m \in 1..emitted : Occurs(m, Log) \/ Occurs(m, buf) \/ Occurs(m, pipe)
  BY <1>2 DEF KeptInv
<1>4. Seq(Byte) \subseteq Seq(Bytes)
  BY <1>1, Types, SeqMonotone
<1>5. /\ Log \in Seq(Byte) /\ buf \in Seq(Byte) /\ pipe \in Seq(Byte) /\ emitted \in Nat
  BY <1>1, Types, LogFacts DEF LogOK
<1>6. PICK l, b, p \in Seq(Bytes) : l = Log /\ b = buf /\ p = pipe
  BY <1>4, <1>5
<1>7. CASE Start \/ Rotate \/ Close \/ Finished \/ UNCHANGED vars
  <2>1. Log' = Log
    BY <1>1, <1>7, StartFacts, RotateFacts, QuietFacts
  <2>2. UNCHANGED <<pipe, emitted>>
    BY <1>7 DEF Start, Rotate, Close, Finished, vars
  <2>3. buf' = buf
    <3>1. CASE Rotate
      BY <1>1, <3>1, RotateFacts
    <3>2. CASE ~Rotate
      BY <1>7, <3>2 DEF Start, Close, Finished, vars
    <3> QED BY <3>1, <3>2
  <2> QED BY <1>2, <1>3, <2>1, <2>2, <2>3
<1>8. CASE ReadPipe
  <2>1. Log' = Log /\ emitted' = emitted /\ buf = <<>> /\ up
    BY <1>1, <1>8, QuietFacts DEF ReadPipe
  <2>2. fd # NoFile
    <3>1. 0 \in 0..cfg.count
      BY <1>1, Types
    <3>2. fd = dir[0] /\ fd # NoInode
      BY <1>2, <2>1 DEF CurrentInv
    <3>3. dir[0] \in {NoInode} \cup DOMAIN inodes /\ NoFile \notin DOMAIN inodes
      BY <1>1, <3>1, Types DEF TypeOK
    <3> QED BY <3>2, <3>3
  <2>3. PICK x \in Seq(Byte), r \in Seq(Byte) : pipe = x \o r /\ pipe' = r /\ ReadAs(x)
    BY <1>1, <1>8, ReadFacts
  <2>4. n \in Nat \ {0}
    BY <1>2, <1>5, <2>1
  <2>5. Occurs(n, x) => Occurs(n, buf')
    BY <2>2, <2>3, <2>4 DEF ReadAs
  <2>6. x \in Seq(Bytes) /\ r \in Seq(Bytes)
    BY <1>4, <2>3
  <2>7. Occurs(n, x \o r) <=> Occurs(n, x) \/ Occurs(n, r)
    BY <2>6, OccursConcat
  <2>8. ~Occurs(n, <<>>)
    BY NoBytes
  <2> QED BY <1>2, <1>3, <2>1, <2>3, <2>5, <2>7, <2>8
<1>9. CASE WriteChunk
  <2>1. PICK x \in Seq(Byte), r \in Seq(Byte) : buf = x \o r /\ buf' = r /\ Log' = Log \o x
    BY <1>2, <1>9, ChunkSound
  <2>2. x \in Seq(Bytes) /\ r \in Seq(Bytes)
    BY <1>4, <2>1
  <2>3. Occurs(n, x \o r) <=> Occurs(n, x) \/ Occurs(n, r)
    BY <2>2, OccursConcat
  <2>4. Occurs(n, l \o x) <=> Occurs(n, l) \/ Occurs(n, x)
    BY <2>2, OccursConcat
  <2>5. UNCHANGED <<pipe, emitted>>
    BY <1>9 DEF WriteChunk
  <2> QED BY <1>2, <1>3, <1>6, <2>1, <2>3, <2>4, <2>5
<1>10. ASSUME NEW nl \in BOOLEAN, AppWrites(nl)
       PROVE  Occurs(n, Log') \/ Occurs(n, buf') \/ Occurs(n, pipe')
  <2>1. Log' = Log
    BY <1>1, <1>10, QuietFacts
  <2>2. PICK c : c = [n |-> emitted + 1, nl |-> nl]
    OBVIOUS
  <2>3. pipe' = Append(p, c) /\ buf' = buf /\ emitted' = emitted + 1
    BY <1>6, <1>10, <2>2 DEF AppWrites
  <2>4. c.n = emitted + 1 /\ c \in Bytes
    BY <1>5, <2>2 DEF Bytes
  <2>5. <<c>> \in Seq(Bytes) /\ Append(p, c) = p \o <<c>>
    BY <2>4
  <2>6. Occurs(n, p \o <<c>>) <=> Occurs(n, p) \/ Occurs(n, <<c>>)
    BY <2>5, OccursConcat
  <2>7. n \in 1..emitted \/ n = emitted + 1
    BY <1>2, <1>5, <2>3
  <2>8. n = emitted + 1 => Occurs(n, <<c>>)
    BY <2>4 DEF Occurs
  <2> QED BY <1>3, <1>6, <2>1, <2>3, <2>5, <2>6, <2>7, <2>8
<1> QED BY <1>7, <1>8, <1>9, <1>10, NoFaultSteps

(* The same bytes are passed through. *)
LEMMA SameStep ==
    ASSUME FilesInv, FilesInv', CurrentInv, PassthroughSame, faults = {}, [Next]_vars
    PROVE  PassthroughSame'
<1>1. TypeOK /\ TypeOK' /\ NamesInv /\ BusyInv
  BY DEF FilesInv
<1>2. SUFFICES ASSUME cfg.file, cfg.pass PROVE passed' = Log'
  BY NoFaultSteps DEF PassthroughSame
<1>3. passed = Log
  BY <1>2 DEF PassthroughSame
<1>4. CASE WriteChunk
  <2>1. PICK x : /\ passed' = IF Passing THEN passed \o x ELSE passed
                 /\ Log' = Log \o x
    BY <1>2, <1>4, ChunkSound
  <2> QED BY <1>2, <1>3, <2>1 DEF Passing
<1>5. CASE ~WriteChunk
  <2>1. Log' = Log
    BY <1>1, <1>5, NoFaultSteps, StartFacts, RotateFacts, QuietFacts
  <2>2. passed' = passed
    BY <1>5, NoFaultSteps DEF Start, Rotate, ReadPipe, Close, AppWrites, Finished, vars
  <2> QED BY <1>3, <2>1, <2>2
<1> QED BY <1>4, <1>5

(* A rotated file is full and ends with a line. *)
LEMMA FullStep ==
    ASSUME FilesInv, FilesInv', CurrentInv, FullInv, faults = {}, [Next]_vars
    PROVE  FullInv'
<1> DEFINE Whole(c) == Len(c) >= cfg.size /\ Last(c).nl
<1>1. /\ TypeOK /\ TypeOK' /\ NamesInv /\ BusyInv /\ BusyInv' /\ cfg' = cfg
      /\ cfg.file \in BOOLEAN /\ cfg.count \in Nat
  BY NoFaultSteps, Types DEF FilesInv
<1>2. /\ rotate => Whole(Contents(0))
      /\ \A k \in 1..cfg.count : dir[k] # NoInode => Whole(Contents(k))
  BY DEF FullInv
<1>3. SUFFICES /\ rotate' => Whole(Contents(0)')
               /\ \A k \in 1..cfg.count : dir'[k] # NoInode => Whole(Contents(k)')
  BY <1>1 DEF FullInv
<1>4. CASE ~cfg.file
  <2>1. ~rotate' /\ \A k \in 0..cfg.count : dir'[k] = NoInode
    BY <1>1, <1>4 DEF BusyInv
  <2>2. \A k \in 1..cfg.count : k \in 0..cfg.count
    OBVIOUS
  <2> QED BY <2>1, <2>2
<1>5. CASE cfg.file /\ WriteChunk
  <2>1. PICK x \in Seq(Byte) :
          /\ x # <<>> /\ rotate' = RotationDue(bytesWritten', Last(x))
          /\ bytesWritten' = Len(Contents(0)')
          /\ Contents(0) \in Seq(Byte) /\ Contents(0)' = Contents(0) \o x
          /\ \A k \in 1..cfg.count : Contents(k)' = Contents(k)
    BY <1>5, ChunkSound
  <2>2. dir' = dir
    BY <1>5 DEF WriteChunk
  <2>3. Last(Contents(0)') = Last(x)
    <3>1. PICK c \in Seq(Byte) : c = Contents(0)
      BY <2>1
    <3>2. Last(c \o x) = Last(x)
      BY <2>1, <3>1, LastConcat
    <3> QED BY <2>1, <3>1, <3>2
  <2>4. rotate' => bytesWritten' >= cfg.size /\ Last(x).nl
    BY <2>1 DEF RotationDue
  <2>5. rotate' => Whole(Contents(0)')
    BY <2>1, <2>3, <2>4
  <2> HIDE DEF Whole
  <2> QED BY <1>2, <2>1, <2>2, <2>5
<1>6. CASE Rotate
  <2>1. /\ \A k \in 1..cfg.count : k - 1 \in 0..cfg.count /\ dir'[k] = dir[k - 1]
        /\ \A k \in 1..cfg.count : Contents(k)' = Contents(k - 1)
    BY <1>1, <1>6, RotateFacts
  <2>2. rotate /\ ~rotate'
    BY <1>6 DEF Rotate
  <2>3. \A k \in 0..cfg.count : k # 0 => k \in 1..cfg.count
    BY <1>1
  <2> HIDE DEF Whole
  <2>4. ASSUME NEW k \in 1..cfg.count, dir'[k] # NoInode PROVE Whole(Contents(k)')
    <3>1. CASE k - 1 = 0
      BY <1>2, <2>1, <2>2, <3>1
    <3>2. CASE k - 1 # 0
      <4>1. k - 1 \in 1..cfg.count
        BY <2>1, <2>3, <3>2
      <4> QED BY <1>2, <2>1, <2>4, <4>1
    <3> QED BY <3>1, <3>2
  <2> QED BY <2>2, <2>4
<1>7. CASE ~WriteChunk /\ ~Rotate
  <2>1. /\ \A k \in 0..cfg.count : Contents(k)' = Contents(k)
        /\ \A k \in 1..cfg.count : dir'[k] = dir[k]
        /\ rotate' = rotate
    BY <1>1, <1>7, NoFaultSteps, StartFacts, QuietFacts
  <2>2. 0 \in 0..cfg.count /\ \A k \in 1..cfg.count : k \in 0..cfg.count
    BY <1>1
  <2> HIDE DEF Whole
  <2> QED BY <1>2, <2>1, <2>2
<1> QED BY <1>1, <1>4, <1>5, <1>6, <1>7

(* A newline behind the threshold is the last of its file. *)
LEMMA OverrunStep ==
    ASSUME FilesInv, FilesInv', CurrentInv, OverrunInv, faults = {}, [Next]_vars
    PROVE  OverrunInv'
<1>1. /\ TypeOK /\ TypeOK' /\ NamesInv /\ BusyInv /\ BusyInv' /\ cfg' = cfg
      /\ cfg.file \in BOOLEAN /\ cfg.count \in Nat /\ cfg.size \in Nat
      /\ bytesWritten \in Nat
  BY NoFaultSteps, Types DEF FilesInv, TypeOK
<1>2. 0 \in 0..cfg.count
  BY <1>1
<1>3. SUFFICES ASSUME cfg.size > 0, NEW k \in DOMAIN Contents(0)', k > cfg.size,
                      Contents(0)'[k].nl
               PROVE  rotate'
  BY <1>1 DEF OverrunInv
<1>4. \A m \in DOMAIN Contents(0) : m > cfg.size /\ Contents(0)[m].nl => rotate
  BY <1>3 DEF OverrunInv
<1>5. CASE ~cfg.file
  <2>1. Contents(0)' = <<>>
    BY <1>1, <1>2, <1>5 DEF BusyInv, Contents
  <2> QED BY <1>3, <2>1
<1>6. CASE cfg.file /\ WriteChunk
  <2>1. PICK x \in Seq(Byte) :
          /\ x # <<>> /\ rotate' = RotationDue(bytesWritten', Last(x))
          /\ Len(x) = ChunkSize /\ \A m \in 1..ChunkSize : x[m] = buf[m]
          /\ bytesWritten = Len(Contents(0))
          /\ bytesWritten' = bytesWritten + Len(x)
          /\ Contents(0) \in Seq(Byte) /\ Contents(0)' = Contents(0) \o x
    BY <1>6, ChunkSound
  <2>2. PICK c \in Seq(Byte) : c = Contents(0)
    BY <2>1
  <2>3. Contents(0)' = c \o x /\ Len(c) = bytesWritten
    BY <2>1, <2>2
  <2>4. /\ \A m \in DOMAIN c : (c \o x)[m] = c[m]
        /\ \A m \in DOMAIN x : (c \o x)[Len(c) + m] = x[m]
        /\ k \in DOMAIN c \/ \E m \in DOMAIN x : k = Len(c) + m
    <3>1. /\ \A m \in DOMAIN c : (c \o x)[m] = c[m]
          /\ \A m \in DOMAIN x : (c \o x)[Len(c) + m] = x[m]
          /\ \A i \in DOMAIN (c \o x) : i \in DOMAIN c \/ \E m \in DOMAIN x : i = Len(c) + m
      BY ConcatAt
    <3>2. k \in DOMAIN (c \o x)
      BY <1>3, <2>3
    <3> QED BY <3>1, <3>2
  <2>5. ~rotate /\ buf # <<>>
    BY <1>6 DEF WriteChunk
  <2>6. k \notin DOMAIN c
    BY <1>3, <1>4, <2>2, <2>3, <2>4, <2>5
  <2>7. PICK m \in DOMAIN x : k = bytesWritten + m /\ x[m].nl
    BY <1>3, <2>3, <2>4, <2>6
  <2>8. m \in 1..ChunkSize /\ DOMAIN x = 1..ChunkSize
    BY <2>1
  <2>9. m = ChunkSize
    BY <1>1, <1>3, <2>1, <2>5, <2>7, <2>8, ChunkFacts
  <2>10. Last(x).nl
    BY <2>1, <2>7, <2>9 DEF Last
  <2>11. bytesWritten' >= cfg.size
    <3>1. bytesWritten' = k
      BY <2>1, <2>7, <2>9
    <3>2. k \in Nat
      BY <1>1, <2>7, <2>8
    <3> QED BY <1>1, <1>3, <3>1, <3>2
  <2> QED BY <1>3, <2>1, <2>10, <2>11 DEF RotationDue
<1>7. CASE Rotate
  <2>1. Contents(0)' = <<>>
    BY <1>1, <1>7, RotateFacts
  <2> QED BY <1>3, <2>1
<1>8. CASE ~WriteChunk /\ ~Rotate
  <2>1. Contents(0)' = Contents(0) /\ rotate' = rotate
    BY <1>1, <1>2, <1>8, NoFaultSteps, StartFacts, QuietFacts
  <2> QED BY <1>3, <1>4, <2>1
<1> QED BY <1>1, <1>5, <1>6, <1>7, <1>8

(* The names are used from the lowest suffix up. *)
LEMMA ContiguousStep ==
    ASSUME FilesInv, FilesInv', ContiguousInv, faults = {}, [Next]_vars
    PROVE  ContiguousInv'
<1>1. /\ TypeOK /\ TypeOK' /\ NamesInv /\ BusyInv /\ BusyInv' /\ cfg' = cfg
      /\ cfg.file \in BOOLEAN /\ cfg.count \in Nat
  BY NoFaultSteps, Types DEF FilesInv
<1>2. SUFFICES ASSUME NEW k \in 0..cfg.count, NEW l \in 0..cfg.count, l < k,
                      dir'[k] # NoInode
               PROVE  dir'[l] # NoInode
  BY <1>1 DEF ContiguousInv
<1>3. k \in 1..cfg.count /\ (l = 0 \/ l \in 1..cfg.count)
  BY <1>1, <1>2
<1>4. CASE ~cfg.file
  BY <1>1, <1>2, <1>4 DEF BusyInv
<1>5. CASE cfg.file /\ Start
  <2>1. /\ \A m \in 1..cfg.count : dir'[m] = dir[m]
        /\ dir'[0] # NoInode
    BY <1>1, <1>5, StartFacts
  <2> QED BY <1>2, <1>3, <2>1 DEF ContiguousInv
<1>6. CASE Rotate
  <2>1. /\ \A m \in 1..cfg.count : m - 1 \in 0..cfg.count /\ dir'[m] = dir[m - 1]
        /\ dir'[0] # NoInode
    BY <1>1, <1>6, RotateFacts
  <2>2. CASE l = 0
    BY <2>1, <2>2
  <2>3. CASE l \in 1..cfg.count
    <3>1. l - 1 < k - 1
      BY <1>1, <1>2
    <3> QED BY <1>2, <1>3, <2>1, <2>3, <3>1 DEF ContiguousInv
  <2> QED BY <1>3, <2>2, <2>3
<1>7. CASE ~Start /\ ~Rotate
  <2>1. dir' = dir
    BY <1>7, NoFaultSteps DEF WriteChunk, ReadPipe, Close, AppWrites, Finished, vars
  <2> QED BY <1>2, <2>1 DEF ContiguousInv
<1> QED BY <1>1, <1>4, <1>5, <1>6, <1>7

(* Lines that follow prefixed lines. *)
LEMMA LinesConcat ==
    ASSUME NEW a \in Seq(Bytes), NEW b \in Seq(Bytes), b # <<>>,
           LinesPrefixed(a), Inside(b), AtLineStart(a) => b[1].n = 0
    PROVE  /\ LinesPrefixed(a \o b)
           /\ AtLineStart(a \o b) => b[Len(b)].nl
<1>1. CASE a = <<>>
  <2>1. a \o b = b
    BY <1>1, ConcatEmptySeq
  <2>2. b[1].n = 0
    BY <1>1 DEF AtLineStart
  <2>3. DOMAIN b \subseteq Nat \ {0}
    OBVIOUS
  <2>4. \A k \in DOMAIN b : k = 1 \/ k > 1
    BY <2>3
  <2>5. LinesPrefixed(b)
    BY <2>2, <2>4 DEF LinesPrefixed, Inside
  <2>6. AtLineStart(b) => b[Len(b)].nl
    BY DEF AtLineStart
  <2> QED BY <2>1, <2>5, <2>6
<1>2. CASE a # <<>>
  <2>1. Inside(a) /\ a[1].n = 0
    <3>1. 1 \in DOMAIN a
      BY <1>2
    <3> QED BY <3>1 DEF LinesPrefixed, Inside
  <2>2. a[Len(a)].nl => b[1].n = 0
    BY DEF AtLineStart
  <2>3. PICK c : c = a \o b
    OBVIOUS
  <2>4. /\ c[1] = a[1] /\ c[Len(c)] = b[Len(b)] /\ c # <<>> /\ Inside(c)
    BY <1>2, <2>1, <2>2, <2>3, InsideConcat
  <2>5. c \in Seq(Bytes)
    BY <2>3
  <2>6. \A k \in DOMAIN c : k = 1 \/ k > 1
    BY <2>5
  <2>7. LinesPrefixed(c)
    BY <2>1, <2>4, <2>6 DEF LinesPrefixed, Inside
  <2>8. AtLineStart(c) => b[Len(b)].nl
    BY <2>4 DEF AtLineStart
  <2> QED BY <2>3, <2>7, <2>8
<1> QED BY <1>1, <1>2

(* Every line keeps its prefix. *)
LEMMA LinesStep ==
    ASSUME FilesInv, FilesInv', CurrentInv, LinesInv, faults = {}, [Next]_vars
    PROVE  LinesInv'
<1>1. /\ TypeOK /\ TypeOK' /\ NamesInv /\ BusyInv /\ cfg' = cfg
      /\ cfg.file \in BOOLEAN /\ cfg.count \in Nat
  BY NoFaultSteps, Types DEF FilesInv
<1>2. SUFFICES ASSUME cfg.prefix
               PROVE  /\ LinesPrefixed(Out' \o buf')
                      /\ AtLineStart(Out' \o buf') => lineStart'
  BY <1>1 DEF LinesInv
<1>3. LinesPrefixed(Out \o buf) /\ (AtLineStart(Out \o buf) => lineStart)
  BY <1>2 DEF LinesInv
<1>4. Seq(Byte) \subseteq Seq(Bytes)
  BY <1>1, Types, SeqMonotone
<1>5. Out \in Seq(Byte) /\ Out \in Seq(Bytes) /\ buf \in Seq(Byte)
  BY <1>1, <1>4, Types, LogFacts DEF LogOK, Out
<1>6. CASE WriteChunk
  <2>1. PICK x \in Seq(Byte), r \in Seq(Byte) :
          buf = x \o r /\ buf' = r /\ Out' = Out \o x
    <3>1. CASE cfg.file
      BY <1>1, <1>6, <3>1, ChunkSound DEF Out
    <3>2. CASE ~cfg.file
      BY <1>1, <1>6, <3>2, ChunkStep DEF Out, Passing
    <3> QED BY <1>1, <3>1, <3>2
  <2>2. Cat(Cat(Out, x), r) = Cat(Out, Cat(x, r))
    BY <1>5, <2>1, CatAssociative
  <2>3. Out' \o buf' = Out \o buf
    BY <2>1, <2>2 DEF Cat
  <2>4. lineStart' = lineStart
    BY <1>6 DEF WriteChunk
  <2> QED BY <1>3, <2>3, <2>4
<1>7. CASE ReadPipe
  <2>1. Out' = Out /\ buf = <<>> /\ up
    BY <1>1, <1>7, QuietFacts DEF Out, ReadPipe
  <2>2. fd # NoFile \/ Passing
    <3>1. CASE cfg.file
      <4>1. 0 \in 0..cfg.count
        BY <1>1
      <4>2. fd = dir[0] /\ fd # NoInode
        BY <2>1, <3>1 DEF CurrentInv
      <4>3. dir[0] \in {NoInode} \cup DOMAIN inodes /\ NoFile \notin DOMAIN inodes
        BY <1>1, <4>1, Types DEF TypeOK
      <4> QED BY <4>2, <4>3
    <3>2. CASE ~cfg.file
      BY <3>2 DEF Passing
    <3> QED BY <1>1, <3>1, <3>2
  <2>3. PICK x \in Seq(Byte) : ReadAs(x)
    BY <1>1, <1>7, ReadFacts
  <2>4. PICK c : c = buf'
    OBVIOUS
  <2>5. /\ c \in Seq(Byte) /\ c # <<>> /\ Inside(c)
        /\ lineStart => c[1].n = 0
        /\ lineStart' = c[Len(c)].nl
    BY <1>2, <2>2, <2>3, <2>4 DEF ReadAs
  <2>6. PICK o \in Seq(Bytes) : o = Out
    BY <1>5
  <2>7. Out \o buf = o
    BY <2>1, <2>6, ConcatEmptySeq
  <2>8. LinesPrefixed(o) /\ (AtLineStart(o) => lineStart)
    BY <1>3, <2>7
  <2>9. c \in Seq(Bytes)
    BY <1>4, <2>5
  <2>10. LinesPrefixed(o \o c) /\ (AtLineStart(o \o c) => c[Len(c)].nl)
    BY <2>5, <2>8, <2>9, LinesConcat
  <2> QED BY <2>1, <2>4, <2>5, <2>6, <2>10
<1>8. CASE ~WriteChunk /\ ~ReadPipe
  <2>1. Log' = Log
    BY <1>1, <1>8, NoFaultSteps, StartFacts, RotateFacts, QuietFacts
  <2>2. passed' = passed
    BY <1>8, NoFaultSteps DEF Start, Rotate, Close, AppWrites, Finished, vars
  <2>3. buf' = buf
    <3>1. CASE Rotate
      BY <1>1, <3>1, RotateFacts
    <3>2. CASE ~Rotate
      BY <1>8, <3>2, NoFaultSteps DEF Start, Close, AppWrites, Finished, vars
    <3> QED BY <3>1, <3>2
  <2>4. lineStart' = lineStart \/ lineStart'
    BY <1>8, NoFaultSteps DEF Start, Rotate, Close, AppWrites, Finished, vars
  <2>5. Out' = Out
    BY <1>1, <2>1, <2>2 DEF Out
  <2> QED BY <1>3, <2>3, <2>4, <2>5
<1> QED BY <1>6, <1>7, <1>8

-----------------------------------------------------------------------------
(* What holds without faults holds at the start. *)
LEMMA SoundInit == Init => SoundInv
<1> SUFFICES ASSUME Init PROVE SoundInv
  OBVIOUS
<1>1. Log = <<>> /\ passed = <<>> /\ buf = <<>> /\ pipe = <<>> /\ emitted = 0
  BY LogInit DEF Init
<1>2. ~up /\ ~rotate /\ lineStart /\ \A k \in 0..cfg.count : dir[k] = NoInode
  BY DEF Init
<1>3. 0 \in 0..cfg.count /\ \A k \in 1..cfg.count : k \in 0..cfg.count
  BY StreamConfigsAssumption DEF Init
<1>4. CurrentInv
  BY <1>2 DEF CurrentInv
<1>5. KeptInv
  BY <1>1 DEF KeptInv
<1>6. PassthroughSame
  BY <1>1 DEF PassthroughSame
<1>7. FullInv
  BY <1>2, <1>3 DEF FullInv
<1>8. OverrunInv
  <2>1. Contents(0) = <<>>
    BY <1>2, <1>3 DEF Contents
  <2> QED BY <2>1 DEF OverrunInv
<1>9. ContiguousInv
  BY <1>2 DEF ContiguousInv
<1>10. LinesInv
  <2>1. Out \o buf = <<>>
    <3>1. <<>> \o <<>> = <<>>
      OBVIOUS
    <3> QED BY <1>1, <3>1 DEF Out
  <2>2. LinesPrefixed(<<>>)
    BY DEF LinesPrefixed
  <2> QED BY <1>2, <2>1, <2>2 DEF LinesInv
<1> QED BY <1>4, <1>5, <1>6, <1>7, <1>8, <1>9, <1>10 DEF SoundInv

(* Every step keeps it. *)
LEMMA SoundStep == FilesInv /\ FilesInv' /\ SoundInv /\ [Next]_vars => SoundInv'
<1> SUFFICES ASSUME FilesInv, FilesInv', SoundInv, [Next]_vars, faults' = {} PROVE
                    /\ CurrentInv' /\ KeptInv' /\ PassthroughSame' /\ FullInv'
                    /\ OverrunInv' /\ ContiguousInv' /\ LinesInv'
  BY DEF SoundInv
<1>1. faults = {}
  BY DEF Next, Start, ReadPipe, WriteChunk, WriteFails, Rotate, NeighbourRotates, Close,
         AppWrites, Finished, vars
<1>2. /\ CurrentInv /\ KeptInv /\ PassthroughSame /\ FullInv
      /\ OverrunInv /\ ContiguousInv /\ LinesInv
  BY <1>1 DEF SoundInv
<1>3. CurrentInv' /\ KeptInv' /\ PassthroughSame'
  BY <1>1, <1>2, CurrentStep, KeptStep, SameStep
<1>4. FullInv' /\ OverrunInv' /\ ContiguousInv'
  BY <1>1, <1>2, FullStep, OverrunStep, ContiguousStep
<1>5. LinesInv'
  BY <1>1, <1>2, LinesStep
<1> QED BY <1>3, <1>4, <1>5

-----------------------------------------------------------------------------
(* The invariant holds in every reachable state: the types, names and      *)
(* order whatever fails, and the rest of it as long as nothing fails.      *)
THEOREM Invariance == Spec => []IInv
<1>1. Init => IInv
  BY FilesInit, OrderInit, SoundInit DEF IInv
<1>2. IInv /\ [Next]_vars => IInv'
  BY FilesStep, OrderStep, SoundStep DEF IInv
<1> QED BY <1>1, <1>2, PTL DEF Spec

(* The stream's state has its types. *)
THEOREM TypeCorrect == Spec => []TypeOK
<1>1. IInv => TypeOK
  BY DEF IInv, FilesInv
<1> QED BY <1>1, Invariance, PTL

(* Whatever open, write or rotation fails, and whatever the other stream   *)
(* of the application does to the names: what is logged and what is passed *)
(* through is in order and comes once.                                     *)
THEOREM Order == Spec => []InOrder
<1>1. IInv => InOrder
  BY DEF IInv, OrderInv, InOrder
<1> QED BY <1>1, Invariance, PTL

(* Without failures no byte of the application is lost between the pipe    *)
(* and the log files, across reads, rotations and restarts.                *)
THEOREM Completeness == Spec => []NothingLost
<1>1. IInv => NothingLost
  <2> SUFFICES ASSUME IInv, cfg.file, faults = {}
               PROVE  /\ Ascending(Log \o buf \o pipe)
                      /\ \A n \in 1..emitted : Occurs(n, Log \o buf \o pipe)
    BY DEF NothingLost
  <2>1. TypeOK /\ OrderInv /\ KeptInv
    BY DEF IInv, FilesInv, SoundInv
  <2>2. Log \in Seq(Byte) /\ buf \in Seq(Byte) /\ pipe \in Seq(Byte) /\ Seq(Byte) \subseteq Seq(Bytes)
    BY <2>1, Types, LogFacts, SeqMonotone DEF LogOK
  <2>3. PICK l, b, p \in Seq(Bytes) : l = Log /\ b = buf /\ p = pipe
    BY <2>2
  <2>4. /\ Ascending(l) /\ Ascending(b) /\ Ascending(p)
        /\ Before(l, b) /\ Before(l, p) /\ Before(b, p)
        /\ \A n \in 1..emitted : Occurs(n, l) \/ Occurs(n, b) \/ Occurs(n, p)
    BY <2>1, <2>3 DEF OrderInv, KeptInv
  <2>5. PICK lb \in Seq(Bytes) : lb = l \o b
    <3>1. l \o b \in Seq(Bytes)
      BY ConcatAt
    <3> QED BY <3>1
  <2>6. Ascending(lb) /\ Before(lb, p)
    BY <2>4, <2>5, AscendingConcat, BeforeConcat
  <2>7. Ascending(lb \o p)
    BY <2>4, <2>6, AscendingConcat
  <2>8. \A n \in 1..emitted : Occurs(n, lb \o p)
    <3> TAKE n \in 1..emitted
    <3>1. Occurs(n, lb) <=> Occurs(n, l) \/ Occurs(n, b)
      BY <2>5, OccursConcat
    <3>2. Occurs(n, lb \o p) <=> Occurs(n, lb) \/ Occurs(n, p)
      BY OccursConcat
    <3> QED BY <2>4, <3>1, <3>2
  <2> QED BY <2>3, <2>5, <2>7, <2>8
<1> QED BY <1>1, Invariance, PTL

(* What something is appended to is a beginning of the result. *)
LEMMA Grows ==
    ASSUME NEW S, NEW l \in Seq(S), NEW x \in Seq(S)
    PROVE  IsPrefix(l, l) /\ IsPrefix(l, l \o x)
<1>1. IsPrefix(l, l)
  BY DEF IsPrefix
<1>2. /\ l \o x \in Seq(S) /\ Len(l) <= Len(l \o x) /\ Len(l) \in Nat /\ Len(l \o x) \in Nat
      /\ \A k \in 1..Len(l) : (l \o x)[k] = l[k]
  BY ConcatAt
<1>3. PICK y \in Seq(S) : y = l \o x
  BY <1>2
<1>4. SubSeq(y, 1, Len(l)) = SubSeq(l, 1, Len(l))
  BY <1>2, <1>3
<1> QED BY <1>1, <1>2, <1>3, <1>4 DEF IsPrefix

(* Whatever fails, is started again or moves the names of the files: what  *)
(* has reached the log is never overwritten, cut off or reordered, and     *)
(* only the removal of a file by a rotation takes it from the disk.        *)
THEOREM LogGrows == Spec => LogOnlyGrows
<1>1. FilesInv /\ FilesInv' /\ [Next]_vars => IsPrefix(Log, Log')
  <2> SUFFICES ASSUME FilesInv, FilesInv', [Next]_vars PROVE IsPrefix(Log, Log')
    OBVIOUS
  <2>1. TypeOK /\ TypeOK' /\ NamesInv
    BY DEF FilesInv
  <2>2. PICK l, m : l = Log /\ m = Log'
    OBVIOUS
  <2>3. l \in Seq(Byte)
    BY <2>1, <2>2, LogFacts DEF LogOK
  <2>4. m = l \/ \E x \in Seq(Byte) : m = l \o x
    <3>1. CASE Start \/ Rotate \/ NeighbourRotates
      BY <2>1, <2>2, <3>1, StartFacts, RotateFacts, NeighbourLog
    <3>2. CASE ReadPipe \/ Close \/ (\E nl \in BOOLEAN : AppWrites(nl)) \/ Finished
               \/ UNCHANGED vars
      BY <2>1, <2>2, <3>2, QuietFacts
    <3>3. CASE WriteChunk
      BY <2>1, <2>2, <3>3, ChunkStep
    <3>4. CASE WriteFails
      BY <2>1, <2>2, <3>4, FailStep
    <3> QED BY <3>1, <3>2, <3>3, <3>4 DEF Next
  <2>5. IsPrefix(l, m)
    BY <2>3, <2>4, Grows
  <2> QED BY <2>2, <2>5
<1>2. IInv => FilesInv
  BY DEF IInv
<1> QED BY <1>1, <1>2, Invariance, PTL DEF Spec, LogOnlyGrows

(* README.md, "passes the same bytes through", without failures. *)
THEOREM Passthrough == Spec => []PassthroughSame
<1>1. IInv => PassthroughSame
  BY DEF IInv, SoundInv, PassthroughSame
<1> QED BY <1>1, Invariance, PTL

(* README.md, "Rotation does not split a log line", without failures. *)
THEOREM WholeLines == Spec => []RotatedWholeLines
<1>1. IInv => RotatedWholeLines
  BY DEF IInv, SoundInv, FullInv, RotatedWholeLines
<1> QED BY <1>1, Invariance, PTL

(* The current file exceeds the threshold by one unfinished line only. *)
THEOREM BoundedOverrun == Spec => []OverrunIsOneLine
<1>1. IInv => OverrunIsOneLine
  BY DEF IInv, SoundInv, OverrunInv, OverrunIsOneLine
<1> QED BY <1>1, Invariance, PTL

(* The lines of the log with the buffered bytes behind it start with the  *)
(* prefix, so those of the log do: a line starts after a byte of the same *)
(* sequence.                                                              *)
LEMMA PrefixesFollow == IInv => EveryLinePrefixed
<1> SUFFICES ASSUME IInv, cfg.prefix, faults = {} PROVE LinesPrefixed(Out)
  BY DEF EveryLinePrefixed
<1>1. TypeOK /\ LinesPrefixed(Out \o buf)
  BY DEF IInv, FilesInv, SoundInv, LinesInv
<1>2. PICK out, b \in Seq(Byte) : out = Out /\ b = buf
  BY <1>1, Types, LogFacts DEF LogOK, Out
<1>3. /\ DOMAIN out \subseteq Nat
      /\ \A k \in DOMAIN out : k \in DOMAIN (out \o b) /\ (out \o b)[k] = out[k]
  BY ConcatAt
<1>4. \A k \in DOMAIN out : k = 1 \/ k - 1 \in DOMAIN out
  OBVIOUS
<1>5. LinesPrefixed(out)
  BY <1>1, <1>2, <1>3, <1>4 DEF LinesPrefixed
<1> QED BY <1>2, <1>5

(* README.md, "nanoinit prefixes every line", without failures. *)
THEOREM PrefixedLines == Spec => []EveryLinePrefixed
<1> QED BY PrefixesFollow, Invariance, PTL

(* README.md, "Number of rotated stdout files to keep": without failures a *)
(* file is removed only when all names are in use.                         *)
THEOREM RemovedWhenFull == Spec => RemovedOnlyWhenFullNoFaults
<1>1. IInv /\ [Next]_vars => [removed' # removed /\ faults = {} => AllInUse]_vars
  <2> SUFFICES ASSUME IInv, [Next]_vars, removed' # removed, faults = {} PROVE AllInUse
    OBVIOUS
  <2>1. TypeOK /\ ContiguousInv /\ cfg.count \in Nat
    BY Types DEF IInv, FilesInv, SoundInv
  <2>2. Rotate
    BY NoFaultSteps DEF Start, WriteChunk, ReadPipe, Close, AppWrites, Finished, vars
  <2>3. dir[cfg.count] # NoInode
    BY <2>2 DEF Rotate, Oldest
  <2>4. \A k \in 0..cfg.count : k = cfg.count \/ k < cfg.count
    BY <2>1
  <2>5. cfg.count \in 0..cfg.count
    BY <2>1
  <2> QED BY <2>1, <2>3, <2>4, <2>5 DEF ContiguousInv, AllInUse
<1> QED BY <1>1, Invariance, PTL DEF Spec, RemovedOnlyWhenFullNoFaults

=============================================================================
