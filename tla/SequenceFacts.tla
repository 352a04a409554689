--------------------------- MODULE SequenceFacts ----------------------------
(* Facts about the sequence operators that the models are built from, for   *)
(* sequences of any length.  An induction is a least counterexample: what   *)
(* is to be proved for every n is wrong for a least n, if it is wrong.      *)
EXTENDS Integers, Sequences, SequencesExt, SequenceTheorems,
        WellFoundedInduction, TLAPS

(* Every set of natural numbers has a least element. *)
LEMMA Least ==
    ASSUME NEW T \in SUBSET Nat, T # {}
    PROVE  \E n \in T : \A m \in T : n <= m
<1> DEFINE R == OpToRel(<, Nat)
<1>1. \E x \in T : \A y \in T : ~(<<y, x>> \in R)
  BY WFMin, NatLessThanWellFounded, Zenon
<1>2. R = {ss \in Nat \X Nat : ss[1] < ss[2]}
  BY Zenon DEF OpToRel
<1> HIDE DEF R
<1>3. \A x \in Nat, y \in Nat : <<y, x>> \in R <=> y < x
  BY <1>2
<1>4. PICK x \in T : \A y \in T : ~(<<y, x>> \in R)
  BY <1>1
<1>5. \A y \in T : ~(y < x)
  BY <1>3, <1>4
<1>6. \A y \in T : x <= y
  BY <1>5
<1> QED BY <1>6

-----------------------------------------------------------------------------
(* A sequence over a set is one over every larger set. *)
LEMMA SeqMonotone ==
    ASSUME NEW S, NEW T, S \subseteq T
    PROVE  Seq(S) \subseteq Seq(T)
<1> SUFFICES ASSUME NEW s \in Seq(S) PROVE s \in Seq(T)
  OBVIOUS
<1>1. Len(s) \in Nat /\ s \in [1..Len(s) -> S]
  OBVIOUS
<1>2. s \in [1..Len(s) -> T]
  BY <1>1
<1> QED BY <1>1, <1>2

(* A sequence to which an element is appended. *)
LEMMA Appended ==
    ASSUME NEW T, NEW s \in Seq(T), NEW e \in T
    PROVE  /\ Append(s, e) \in Seq(T)
           /\ DOMAIN s = 1..Len(s)
           /\ DOMAIN Append(s, e) = DOMAIN s \cup {Len(s) + 1}
           /\ Len(s) \in Nat /\ Len(s) + 1 \notin DOMAIN s
           /\ Append(s, e)[Len(s) + 1] = e
           /\ \A i \in DOMAIN s : Append(s, e)[i] = s[i]
<1> DEFINE t == Append(s, e)
           n == Len(s)
<1>1. /\ t \in Seq(T) /\ Len(t) = n + 1 /\ t[n + 1] = e /\ \A i \in 1..n : t[i] = s[i]
  BY AppendProperties
<1>2. n \in Nat /\ DOMAIN s = 1..n
  OBVIOUS
<1> HIDE DEF t, n
<1>3. DOMAIN t = 1..n + 1
  BY <1>1
<1>4. 1..n + 1 = (1..n) \cup {n + 1} /\ n + 1 \notin 1..n
  BY <1>2
<1> QED BY <1>1, <1>2, <1>3, <1>4 DEF t, n

(* A sequence of which one element is replaced. *)
LEMMA Replaced ==
    ASSUME NEW T, NEW s \in Seq(T), NEW i \in DOMAIN s, NEW e \in T
    PROVE  /\ [s EXCEPT ![i] = e] \in Seq(T)
           /\ DOMAIN [s EXCEPT ![i] = e] = DOMAIN s
           /\ [s EXCEPT ![i] = e][i] = e
           /\ \A j \in DOMAIN s : j # i => [s EXCEPT ![i] = e][j] = s[j]
<1> DEFINE t == [s EXCEPT ![i] = e]
<1>1. Len(s) \in Nat /\ DOMAIN s = 1..Len(s) /\ s \in [1..Len(s) -> T]
  OBVIOUS
<1>2. t \in [1..Len(s) -> T]
  BY <1>1
<1>3. t \in Seq(T)
  <2> HIDE DEF t
  <2> QED BY <1>1, <1>2
<1> QED BY <1>1, <1>2, <1>3

-----------------------------------------------------------------------------
(* FlattenSeq *)

(* f holds the concatenations of the first i members of s. *)
Flattens(f, s, S) ==
    /\ f \in [1..Len(s) -> Seq(S)]
    /\ f[1] = s[1]
    /\ \A i \in 2..Len(s) : f[i] = f[i - 1] \o s[i]

(* These concatenations exist. *)
LEMMA FlattensExists ==
    ASSUME NEW S, NEW s \in Seq(Seq(S)), s # <<>>
    PROVE  \E f : Flattens(f, s, S)
<1> DEFINE Upto(f, n) == /\ f \in [1..n -> Seq(S)]
                         /\ f[1] = s[1]
                         /\ \A i \in 2..n : f[i] = f[i - 1] \o s[i]
           bad == {n \in Nat : n \in 1..Len(s) /\ ~\E f : Upto(f, n)}
<1>1. Len(s) \in Nat \ {0} /\ \A i \in 1..Len(s) : s[i] \in Seq(S)
  OBVIOUS
<1>2. bad = {}
  <2> SUFFICES ASSUME bad # {} PROVE FALSE
    OBVIOUS
  <2>1. PICK n \in bad : \A m \in bad : n <= m
    BY Least
  <2>2. CASE n = 1
    <3>1. Upto([i \in 1..1 |-> s[1]], 1)
      BY <1>1
    <3> QED BY <2>1, <2>2, <3>1
  <2>3. CASE n # 1
    <3>1. n - 1 \in 1..Len(s) /\ n - 1 \in Nat /\ ~(n <= n - 1) /\ n \in 1..Len(s)
      BY <1>1, <2>1, <2>3
    <3>2. n - 1 \notin bad
      BY <2>1, <3>1
    <3>3. PICK f : Upto(f, n - 1)
      BY <3>1, <3>2
    <3> DEFINE g == [i \in 1..n |-> IF i = n THEN f[n - 1] \o s[n] ELSE f[i]]
    <3>4. /\ f \in [1..n - 1 -> Seq(S)]
          /\ f[1] = s[1]
          /\ \A i \in 2..n - 1 : f[i] = f[i - 1] \o s[i]
      BY <3>3
    <3>5. f[n - 1] \in Seq(S) /\ s[n] \in Seq(S)
      BY <1>1, <3>1, <3>4
    <3>6. f[n - 1] \o s[n] \in Seq(S)
      BY <3>5
    <3>7. g \in [1..n -> Seq(S)]
      <4>1. \A i \in 1..n : i # n => i \in 1..n - 1
        BY <3>1
      <4> QED BY <3>4, <3>6, <4>1
    <3>8. g[1] = s[1]
      BY <2>3, <3>1, <3>4
    <3>9. \A i \in 2..n : g[i] = g[i - 1] \o s[i]
      <4> TAKE i \in 2..n
      <4>1. i - 1 \in 1..n /\ i \in 1..n /\ i - 1 # n
        BY <3>1
      <4>2. g[i - 1] = f[i - 1]
        BY <4>1
      <4>3. CASE i = n
        BY <4>1, <4>2, <4>3
      <4>4. CASE i # n
        <5>1. i \in 2..n - 1
          BY <3>1, <4>4
        <5> QED BY <3>4, <4>1, <4>2, <4>4, <5>1
      <4> QED BY <4>3, <4>4
    <3>10. Upto(g, n)
      BY <3>7, <3>8, <3>9
    <3> QED BY <2>1, <3>10
  <2> QED BY <2>2, <2>3
<1>3. Len(s) \notin bad
  BY <1>2
<1>4. \E f : Upto(f, Len(s))
  <2> HIDE DEF Upto
  <2> QED BY <1>1, <1>3
<1> QED BY <1>4 DEF Flattens

(* They determine FlattenSeq. *)
LEMMA FlattenIsLast ==
    ASSUME NEW S, NEW s \in Seq(Seq(S)), s # <<>>, NEW f, Flattens(f, s, S)
    PROVE  FlattenSeq(s) = f[Len(s)]
<1> DEFINE Rec(g) == g = [i \in 1..Len(s) |-> IF i = 1 THEN s[i] ELSE g[i - 1] \o s[i]]
           h == CHOOSE h : Rec(h)
           bad == {i \in Nat : i \in 1..Len(s) /\ h[i] # f[i]}
<1>1. Len(s) \in Nat \ {0} /\ \A i \in 1..Len(s) : i # 1 => i \in 2..Len(s)
  OBVIOUS
<1>2. Rec(f)
  BY <1>1 DEF Flattens
<1>3. Rec(h)
  <2> HIDE DEF Rec
  <2> QED BY <1>2
<1>4. FlattenSeq(s) = h[Len(s)]
  BY <1>1 DEF FlattenSeq
<1> HIDE DEF h
<1>5. bad = {}
  <2> SUFFICES ASSUME bad # {} PROVE FALSE
    OBVIOUS
  <2>1. PICK n \in bad : \A m \in bad : n <= m
    BY Least
  <2>2. n # 1
    BY <1>2, <1>3, <2>1
  <2>3. n - 1 \in 1..Len(s) /\ n - 1 \in Nat /\ ~(n <= n - 1) /\ n \in 2..Len(s)
    BY <1>1, <2>1, <2>2
  <2>4. h[n - 1] = f[n - 1]
    BY <2>1, <2>3
  <2>5. h[n] = h[n - 1] \o s[n] /\ f[n] = f[n - 1] \o s[n]
    <3>1. n \in 1..Len(s) /\ n # 1
      BY <2>1, <2>2
    <3> QED BY <1>2, <1>3, <3>1
  <2> QED BY <2>1, <2>4, <2>5
<1>6. Len(s) \in Nat /\ Len(s) \in 1..Len(s)
  BY <1>1
<1>7. h[Len(s)] = f[Len(s)]
  BY <1>5, <1>6, Zenon
<1> QED BY <1>4, <1>7

(* The concatenation of no sequences. *)
LEMMA FlattenEmpty == FlattenSeq(<<>>) = <<>>
BY DEF FlattenSeq

(* A concatenation, as that of all sequences but the last, and the last. *)
LEMMA FlattenLast ==
    ASSUME NEW S, NEW s \in Seq(Seq(S)), NEW x \in Seq(S)
    PROVE  /\ FlattenSeq(s) \in Seq(S)
           /\ FlattenSeq(Append(s, x)) = FlattenSeq(s) \o x
<1> DEFINE t == Append(s, x)
           n == Len(s)
<1>1. /\ t \in Seq(Seq(S)) /\ t # <<>> /\ Len(t) = n + 1 /\ t[n + 1] = x
      /\ \A i \in 1..n : t[i] = s[i]
  BY AppendProperties
<1>2. n \in Nat /\ (n = 0 <=> s = <<>>)
  OBVIOUS
<1> HIDE DEF t
<1>3. PICK f : Flattens(f, t, S)
  BY <1>1, FlattensExists
<1>4. FlattenSeq(t) = f[n + 1]
  BY <1>1, <1>3, FlattenIsLast
<1>5. CASE s = <<>>
  <2>1. FlattenSeq(t) = x
    BY <1>1, <1>2, <1>3, <1>4, <1>5 DEF Flattens
  <2>2. FlattenSeq(s) = <<>>
    BY <1>5, FlattenEmpty
  <2>3. <<>> \in Seq(S) /\ <<>> \o x = x
    BY ConcatEmptySeq
  <2> QED BY <2>1, <2>2, <2>3 DEF t
<1>6. CASE s # <<>>
  <2> DEFINE g == [i \in 1..n |-> f[i]]
  <2>1. n \in Nat \ {0} /\ n \in 1..n
    BY <1>2, <1>6
  <2>2. /\ f \in [1..n + 1 -> Seq(S)]
        /\ f[1] = t[1]
        /\ \A i \in 2..n + 1 : f[i] = f[i - 1] \o t[i]
    BY <1>1, <1>3 DEF Flattens
  <2>3. Flattens(g, s, S)
    <3>1. g \in [1..n -> Seq(S)] /\ g[1] = s[1]
      BY <1>1, <2>1, <2>2
    <3>2. \A i \in 2..n : g[i] = g[i - 1] \o s[i]
      <4> TAKE i \in 2..n
      <4>1. i \in 1..n /\ i - 1 \in 1..n /\ i \in 2..n + 1
        BY <2>1
      <4>2. g[i] = f[i] /\ g[i - 1] = f[i - 1] /\ t[i] = s[i]
        BY <1>1, <4>1
      <4> QED BY <2>2, <4>1, <4>2
    <3> QED BY <3>1, <3>2 DEF Flattens
  <2>4. FlattenSeq(s) = f[n]
    BY <1>6, <2>1, <2>3, FlattenIsLast
  <2>5. f[n] \in Seq(S) /\ f[n + 1] = f[n] \o t[n + 1]
    <3> HIDE DEF n
    <3>1. n \in 1..n + 1 /\ n + 1 \in 2..n + 1 /\ (n + 1) - 1 = n
      BY <2>1
    <3>2. f[n + 1] = f[(n + 1) - 1] \o t[n + 1]
      BY <2>2, <3>1
    <3> QED BY <2>2, <3>1, <3>2
  <2> QED BY <1>1, <1>4, <2>4, <2>5 DEF t
<1> QED BY <1>5, <1>6

(* Sequences over S are flattened to a sequence over S. *)
LEMMA FlattenType ==
    ASSUME NEW S, NEW s \in Seq(Seq(S))
    PROVE  FlattenSeq(s) \in Seq(S)
<1>1. CASE s = <<>>
  <2>1. FlattenSeq(s) = <<>>
    BY <1>1, FlattenEmpty
  <2> QED BY <2>1
<1>2. CASE s # <<>>
  <2>1. PICK f : Flattens(f, s, S)
    BY <1>2, FlattensExists
  <2>2. FlattenSeq(s) = f[Len(s)]
    BY <1>2, <2>1, FlattenIsLast
  <2>3. Len(s) \in 1..Len(s)
    BY <1>2
  <2> QED BY <2>1, <2>2, <2>3 DEF Flattens
<1> QED BY <1>1, <1>2

(* Empty sequences are flattened to the empty sequence. *)
LEMMA FlattenNothing ==
    ASSUME NEW S, NEW s \in Seq(Seq(S)), \A i \in 1..Len(s) : s[i] = <<>>
    PROVE  FlattenSeq(s) = <<>>
<1>1. CASE s = <<>>
  BY <1>1, FlattenEmpty
<1>2. CASE s # <<>>
  <2> DEFINE n == Len(s)
  <2>1. n \in Nat \ {0}
    BY <1>2
  <2>2. PICK f : Flattens(f, s, S)
    BY <1>2, FlattensExists
  <2>3. FlattenSeq(s) = f[n]
    BY <1>2, <2>2, FlattenIsLast
  <2>4. f[1] = s[1] /\ \A i \in 2..n : f[i] = f[i - 1] \o s[i]
    BY <2>2 DEF Flattens
  <2>5. \A i \in 1..n : s[i] = <<>>
    OBVIOUS
  <2> DEFINE bad == {i \in Nat : i \in 1..n /\ f[i] # <<>>}
  <2> HIDE DEF n
  <2>6. bad = {}
    <3> SUFFICES ASSUME bad # {} PROVE FALSE
      OBVIOUS
    <3>1. PICK i \in bad : \A m \in bad : i <= m
      BY Least
    <3>2. i # 1
      BY <2>1, <2>4, <2>5, <3>1
    <3>3. i \in 2..n /\ i - 1 \in 1..n /\ i - 1 \in Nat /\ ~(i <= i - 1)
      BY <2>1, <3>1, <3>2
    <3>4. f[i - 1] = <<>>
      BY <3>1, <3>3
    <3>5. f[i] = <<>> \o <<>>
      BY <2>4, <2>5, <3>1, <3>3, <3>4
    <3>6. <<>> \o <<>> = <<>>
      OBVIOUS
    <3> QED BY <3>1, <3>5, <3>6
  <2> QED BY <2>1, <2>3, <2>6
<1> QED BY <1>1, <1>2

(* Concatenation under a name the provers do not interpret. *)
Cat(a, b) == a \o b

(* Concatenation of three sequences needs no parentheses. *)
LEMMA CatAssociative ==
    ASSUME NEW S
    PROVE  \A a, b, c \in Seq(S) : Cat(Cat(a, b), c) = Cat(a, Cat(b, c))
<1> TAKE a, b, c \in Seq(S)
<1> QED BY DEF Cat

(* A sequence in front of the others. *)
LEMMA FlattenFirst ==
    ASSUME NEW S, NEW s \in Seq(Seq(S)), NEW x \in Seq(S), NEW t \in Seq(Seq(S)),
           Len(t) = Len(s) + 1, t[1] = x, \A i \in 1..Len(s) : t[i + 1] = s[i]
    PROVE  FlattenSeq(t) = x \o FlattenSeq(s)
<1> DEFINE n == Len(s)
<1>1. n \in Nat /\ (n = 0 <=> s = <<>>) /\ t # <<>> /\ Len(t) = n + 1
  OBVIOUS
<1>2. \A i \in 1..n : s[i] \in Seq(S) /\ t[i + 1] = s[i]
  OBVIOUS
<1>3. CASE s = <<>>
  <2> DEFINE g == [i \in 1..1 |-> x]
  <2>1. n = 0
    BY <1>1, <1>3
  <2>2. Flattens(g, t, S)
    <3>1. Len(t) = 1 /\ 1..Len(t) = 1..1 /\ \A i \in 2..Len(t) : FALSE
      BY <1>1, <2>1
    <3>2. g \in [1..1 -> Seq(S)] /\ g[1] = t[1]
      OBVIOUS
    <3> HIDE DEF g
    <3> QED BY <3>1, <3>2 DEF Flattens
  <2>3. FlattenSeq(t) = x
    BY <1>1, <2>1, <2>2, FlattenIsLast
  <2>4. FlattenSeq(s) = <<>> /\ x \o <<>> = x
    BY <1>3, FlattenEmpty, ConcatEmptySeq
  <2> QED BY <2>3, <2>4
<1>4. CASE s # <<>>
  <2> HIDE DEF n
  <2>1. n \in Nat \ {0}
    BY <1>1, <1>4
  <2>2. PICK f : Flattens(f, s, S)
    BY <1>4, FlattensExists
  <2>3. /\ f \in [1..n -> Seq(S)]
        /\ f[1] = s[1]
        /\ \A i \in 2..n : f[i] = f[i - 1] \o s[i]
    BY <2>2 DEF Flattens, n
  <2> DEFINE g == [i \in 1..n + 1 |-> IF i = 1 THEN x ELSE x \o f[i - 1]]
  <2>4. \A i \in 2..n + 1 : /\ i - 1 \in 1..n /\ i # 1 /\ i \in 1..n + 1 /\ i - 1 \in 1..n + 1
                            /\ (i - 1) + 1 = i
    BY <2>1
  <2>5. g \in [1..n + 1 -> Seq(S)]
    <3>1. \A i \in 1..n + 1 : i # 1 => i \in 2..n + 1
      BY <2>1
    <3>2. \A i \in 2..n + 1 : x \o f[i - 1] \in Seq(S)
      <4> TAKE i \in 2..n + 1
      <4>1. f[i - 1] \in Seq(S)
        BY <2>3, <2>4
      <4> QED BY <4>1
    <3> QED BY <3>1, <3>2
  <2>6. g[1] = t[1]
    BY <2>1
  <2>7. \A i \in 2..n + 1 : g[i] = g[i - 1] \o t[i]
    <3> TAKE i \in 2..n + 1
    <3>1. g[i] = x \o f[i - 1]
      BY <2>4
    <3>2. t[i] = s[i - 1]
      BY <1>2, <2>4 DEF n
    <3>3. CASE i = 2
      <4>1. i - 1 = 1 /\ g[1] = x
        BY <2>1, <3>3
      <4> QED BY <2>3, <3>1, <3>2, <4>1
    <3>4. CASE i # 2
      <4>1. i - 1 \in 2..n /\ i - 1 # 1 /\ (i - 1) - 1 \in 1..n
        BY <2>1, <3>4
      <4>2. g[i - 1] = x \o f[(i - 1) - 1]
        BY <2>4, <4>1
      <4>3. f[i - 1] = f[(i - 1) - 1] \o s[i - 1]
        BY <2>3, <4>1
      <4>4. f[(i - 1) - 1] \in Seq(S) /\ s[i - 1] \in Seq(S)
        BY <1>2, <2>3, <2>4, <4>1
      <4>5. x \o (f[(i - 1) - 1] \o s[i - 1]) = (x \o f[(i - 1) - 1]) \o s[i - 1]
        <5>1. Cat(x, Cat(f[(i - 1) - 1], s[i - 1])) = Cat(Cat(x, f[(i - 1) - 1]), s[i - 1])
          BY <4>4, CatAssociative
        <5> QED BY <5>1 DEF Cat
      <4> QED BY <3>1, <3>2, <4>2, <4>3, <4>5
    <3> QED BY <3>3, <3>4
  <2>8. Flattens(g, t, S)
    BY <1>1, <2>5, <2>6, <2>7 DEF Flattens
  <2>9. FlattenSeq(t) = g[n + 1] /\ FlattenSeq(s) = f[n]
    BY <1>1, <1>4, <2>2, <2>8, FlattenIsLast DEF n
  <2>10. g[n + 1] = x \o f[n]
    <3>1. n + 1 \in 2..n + 1 /\ (n + 1) - 1 = n
      BY <2>1
    <3>2. g[n + 1] = x \o f[(n + 1) - 1]
      BY <2>4, <3>1
    <3> QED BY <3>1, <3>2
  <2> QED BY <2>9, <2>10
<1> QED BY <1>3, <1>4

(* Something is appended to a sequence after which all others are empty. *)
LEMMA FlattenAppendAt ==
    ASSUME NEW S, NEW s \in Seq(Seq(S)), NEW x \in Seq(S), NEW j \in 1..Len(s),
           NEW t \in Seq(Seq(S)), Len(t) = Len(s), t[j] = s[j] \o x,
           \A i \in 1..Len(s) : i < j => t[i] = s[i],
           \A i \in 1..Len(s) : i > j => s[i] = <<>> /\ t[i] = <<>>
    PROVE  FlattenSeq(t) = FlattenSeq(s) \o x
<1> DEFINE n == Len(s)
<1>1. n \in Nat \ {0} /\ s # <<>> /\ t # <<>> /\ Len(t) = n /\ j \in 1..n
  OBVIOUS
<1>2. \A i \in 1..n : s[i] \in Seq(S) /\ t[i] \in Seq(S)
  OBVIOUS
<1>3. /\ \A i \in 1..n : i < j => t[i] = s[i]
      /\ \A i \in 1..n : i > j => s[i] = <<>> /\ t[i] = <<>>
  OBVIOUS
<1> HIDE DEF n
<1>4. PICK f : Flattens(f, s, S)
  BY <1>1, FlattensExists
<1>5. /\ f \in [1..n -> Seq(S)]
      /\ f[1] = s[1]
      /\ \A i \in 2..n : f[i] = f[i - 1] \o s[i]
  BY <1>4 DEF Flattens, n
<1> DEFINE g == [i \in 1..n |-> IF i < j THEN f[i] ELSE f[i] \o x]
<1>6. g \in [1..n -> Seq(S)]
  <2>1. \A i \in 1..n : f[i] \in Seq(S)
    BY <1>5
  <2>2. \A i \in 1..n : f[i] \o x \in Seq(S)
    BY <2>1
  <2> QED BY <2>1, <2>2
<1>7. g[1] = t[1]
  <2>1. CASE j = 1
    BY <1>1, <1>5, <2>1
  <2>2. CASE j # 1
    <3>1. 1 < j /\ 1 \in 1..n
      BY <1>1, <2>2
    <3> QED BY <1>3, <1>5, <3>1
  <2> QED BY <2>1, <2>2
<1>8. \A i \in 2..n : g[i] = g[i - 1] \o t[i]
  <2> TAKE i \in 2..n
  <2>1. i \in 1..n /\ i - 1 \in 1..n
    BY <1>1
  <2>2. f[i - 1] \in Seq(S) /\ s[i] \in Seq(S) /\ f[i] = f[i - 1] \o s[i] /\ f[i] \in Seq(S)
    BY <1>2, <1>5, <2>1
  <2>3. CASE i < j
    <3>1. i - 1 < j
      BY <1>1, <2>1, <2>3
    <3> QED BY <1>3, <2>1, <2>2, <2>3, <3>1
  <2>4. CASE i = j
    <3>1. i - 1 < j /\ ~(i < j)
      BY <1>1, <2>1, <2>4
    <3>2. g[i] = (f[i - 1] \o s[i]) \o x
      BY <2>1, <2>2, <3>1
    <3>3. g[i - 1] = f[i - 1] /\ t[i] = s[i] \o x
      BY <2>1, <2>4, <3>1
    <3>4. (f[i - 1] \o s[i]) \o x = f[i - 1] \o (s[i] \o x)
      <4>1. PICK a, b : a = f[i - 1] /\ b = s[i]
        OBVIOUS
      <4>2. a \in Seq(S) /\ b \in Seq(S)
        BY <2>2, <4>1
      <4>3. Cat(Cat(a, b), x) = Cat(a, Cat(b, x))
        BY <4>2, CatAssociative
      <4> QED BY <4>1, <4>3 DEF Cat
    <3> QED BY <3>2, <3>3, <3>4
  <2>5. CASE i > j
    <3>1. ~(i < j) /\ ~(i - 1 < j)
      BY <1>1, <2>1, <2>5
    <3>2. s[i] = <<>> /\ t[i] = <<>>
      BY <1>3, <2>1, <2>5
    <3>3. f[i] = f[i - 1]
      BY <2>2, <3>2, ConcatEmptySeq
    <3>4. g[i] = f[i - 1] \o x /\ g[i - 1] = f[i - 1] \o x
      BY <2>1, <3>1, <3>3
    <3>5. f[i - 1] \o x \in Seq(S)
      BY <2>2
    <3>6. (f[i - 1] \o x) \o <<>> = f[i - 1] \o x
      BY <3>5, ConcatEmptySeq
    <3> QED BY <3>2, <3>4, <3>6
  <2>6. i < j \/ i = j \/ i > j
    BY <1>1, <2>1
  <2> QED BY <2>3, <2>4, <2>5, <2>6
<1>9. Flattens(g, t, S)
  BY <1>1, <1>6, <1>7, <1>8 DEF Flattens
<1>10. FlattenSeq(t) = g[n] /\ FlattenSeq(s) = f[n]
  BY <1>1, <1>4, <1>9, FlattenIsLast DEF n
<1>11. g[n] = f[n] \o x
  <2>1. n \in 1..n /\ ~(n < j)
    BY <1>1
  <2> QED BY <2>1
<1> QED BY <1>10, <1>11
=============================================================================
