----------------------------- MODULE Lists_proofs -----------------------------
(***************************************************************************)
(* What is proved of lists that are worked through: the commands of a LAG, *)
(* for any interfaces, addresses and configurations, and the samples of    *)
(* the internet monitor, for any destinations and any flush_every_n.       *)
(***************************************************************************)
EXTENDS LagResource, InternetMonitor, SequenceTheorems, FiniteSetTheorems, WellFoundedInduction, TLAPS

-----------------------------------------------------------------------------
(* Lists.  Induction is on a set of numbers, which a well-founded order    *)
(* gives: what is flattened is put together in any number of steps.        *)

LEMMA SetInduction ==
    ASSUME NEW S, 0 \in S, \A n \in S \cap Nat : n + 1 \in S
    PROVE  Nat \subseteq S
<1> DEFINE T == Nat \ S
<1>1. SUFFICES ASSUME T # {} PROVE FALSE
  OBVIOUS
<1>2. PICK x \in T : \A y \in T : ~(<<y, x>> \in OpToRel(<, Nat))
  <2>1. T \subseteq Nat
    OBVIOUS
  <2> HIDE DEF T
  <2> QED BY <1>1, <2>1, NatLessThanWellFounded, WFMin
<1>3. x \in Nat /\ x # 0 /\ x - 1 \in Nat /\ x = (x - 1) + 1
  OBVIOUS
<1>4. <<x - 1, x>> \in OpToRel(<, Nat)
  BY <1>3 DEF OpToRel
<1>5. x - 1 \notin T
  BY <1>2, <1>4
<1> QED BY <1>2, <1>3, <1>5

Elems(q) == {q[i] : i \in 1..Len(q)}

(* Whatever comes before something else may come before it. *)
Pairwise(R, q) == \A i, j \in 1..Len(q) : i < j => <<q[i], q[j]>> \in R

LEMMA Joined ==
    ASSUME NEW S, NEW R, NEW p \in Seq(S), NEW q \in Seq(S),
           Pairwise(R, p), Pairwise(R, q), \A c \in Elems(p), d \in Elems(q) : <<c, d>> \in R
    PROVE  /\ p \o q \in Seq(S)
           /\ Elems(p \o q) = Elems(p) \cup Elems(q)
           /\ Pairwise(R, p \o q)
<1> DEFINE r == p \o q
           m == Len(p)
           n == Len(q)
<1>1. r \in Seq(S) /\ Len(r) = m + n /\ m \in Nat /\ n \in Nat
  OBVIOUS
<1>2. \A i \in 1..m : r[i] = p[i]
  OBVIOUS
<1>3. \A i \in 1..n : r[m + i] = q[i]
  OBVIOUS
<1> HIDE DEF r
<1>4. ASSUME NEW i \in 1..Len(r), i \notin 1..m PROVE i - m \in 1..n /\ i = m + (i - m)
  BY <1>1, <1>4
<1>5. ASSUME NEW i \in 1..Len(r) PROVE (i \in 1..m /\ r[i] = p[i]) \/ (i > m /\ i - m \in 1..n /\ r[i] = q[i - m])
  BY <1>1, <1>2, <1>3, <1>4
<1>6. Elems(r) = Elems(p) \cup Elems(q)
  <2>1. ASSUME NEW x \in Elems(r) PROVE x \in Elems(p) \cup Elems(q)
    <3>1. PICK i \in 1..Len(r) : x = r[i]
      BY <2>1 DEF Elems
    <3>2. CASE i \in 1..m
      BY <1>2, <3>1, <3>2 DEF Elems
    <3>3. CASE i \notin 1..m
      <4>1. i - m \in 1..n /\ r[i] = q[i - m]
        BY <1>3, <1>4, <3>3
      <4> QED BY <3>1, <4>1 DEF Elems
    <3> QED BY <3>2, <3>3
  <2>2. ASSUME NEW x \in Elems(p) PROVE x \in Elems(r)
    <3>1. PICK i \in 1..m : x = p[i]
      BY <2>2 DEF Elems
    <3>2. i \in 1..Len(r) /\ x = r[i]
      BY <1>1, <1>2, <3>1
    <3> QED BY <3>2 DEF Elems
  <2>3. ASSUME NEW x \in Elems(q) PROVE x \in Elems(r)
    <3>1. PICK i \in 1..n : x = q[i]
      BY <2>3 DEF Elems
    <3>2. m + i \in 1..Len(r) /\ x = r[m + i]
      BY <1>1, <1>3, <3>1
    <3> QED BY <3>2 DEF Elems
  <2> QED BY <2>1, <2>2, <2>3
<1>7. ASSUME NEW i \in 1..Len(r), NEW j \in 1..Len(r), i < j PROVE <<r[i], r[j]>> \in R
  <2>1. CASE j \in 1..m
    <3>1. i \in 1..m
      BY <1>1, <1>7, <2>1
    <3> QED BY <1>2, <1>7, <2>1, <3>1 DEF Pairwise
  <2>2. CASE i \in 1..m /\ j \notin 1..m
    <3>1. j - m \in 1..n /\ r[j] = q[j - m] /\ r[i] = p[i]
      BY <1>2, <1>3, <1>4, <2>2
    <3>2. p[i] \in Elems(p) /\ q[j - m] \in Elems(q)
      BY <2>2, <3>1 DEF Elems
    <3> QED BY <3>1, <3>2
  <2>3. CASE i \notin 1..m /\ j \notin 1..m
    <3>1. j - m \in 1..n /\ r[j] = q[j - m] /\ i - m \in 1..n /\ r[i] = q[i - m]
      BY <1>3, <1>4, <2>3
    <3>2. i - m < j - m
      BY <1>1, <1>7
    <3> QED BY <3>1, <3>2 DEF Pairwise
  <2>4. i \notin 1..m => j \notin 1..m
    BY <1>1, <1>7
  <2> QED BY <2>1, <2>2, <2>3, <2>4
<1>8. Pairwise(R, r)
  BY <1>7 DEF Pairwise
<1> QED BY <1>1, <1>6, <1>8 DEF r

(* One sequence after the other; its definition recurs on how many there    *)
(* are, and so does the proof.                                             *)
(* A flattened sequence is put together one element after the other. *)
LEMMA Unfolded ==
    ASSUME NEW S, NEW qs \in Seq(S), Len(qs) # 0
    PROVE  \E fl : /\ FlattenSeq(qs) = fl[Len(qs)]
                   /\ \A n \in 1..Len(qs) : fl[n] = IF n = 1 THEN qs[n] ELSE fl[n - 1] \o qs[n]
<1> DEFINE L == Len(qs)
           Flat(f, n) == f = [i \in 1..n |-> IF i = 1 THEN qs[i] ELSE f[i - 1] \o qs[i]]
           Exist(n) == 1 <= n /\ n <= L => \E f : Flat(f, n)
           fl == CHOOSE f : Flat(f, L)
<1>0. L \in Nat /\ 1 <= L
  <2>1. L \in Nat /\ L # 0
    OBVIOUS
  <2> HIDE DEF L
  <2> QED BY <2>1
<1>1. \A n \in Nat : Exist(n)
  <2> DEFINE I == {n \in Nat : Exist(n)}
  <2>1. Exist(0)
    OBVIOUS
  <2>2. ASSUME NEW n \in Nat, Exist(n) PROVE Exist(n + 1)
    <3>1. SUFFICES ASSUME n + 1 <= L PROVE \E f : Flat(f, n + 1)
      OBVIOUS
    <3>2. CASE n = 0
      <4> DEFINE g == [i \in 1..1 |-> qs[1]]
      <4>1. g = [i \in 1..1 |-> IF i = 1 THEN qs[i] ELSE g[i - 1] \o qs[i]]
        OBVIOUS
      <4>2. n + 1 = 1 /\ Flat(g, 1)
        BY <3>2, <4>1
      <4> QED BY <4>2
    <3>3. CASE n # 0
      <4>0. 1 <= n /\ n <= L
        BY <1>0, <3>1, <3>3
      <4>1. PICK f : Flat(f, n)
        BY <2>2, <4>0
      <4> DEFINE g == [i \in 1..n + 1 |-> IF i <= n THEN f[i] ELSE f[n] \o qs[n + 1]]
      <4>2. ASSUME NEW i \in 1..n + 1 PROVE g[i] = IF i = 1 THEN qs[i] ELSE g[i - 1] \o qs[i]
        <5>1. CASE i = n + 1
          <6>1. n \in 1..n + 1 /\ n <= n /\ ~(i <= n) /\ i - 1 = n /\ i # 1
            BY <3>3, <5>1
          <6>2. g[i] = f[n] \o qs[i] /\ g[i - 1] = f[n]
            BY <5>1, <6>1
          <6> QED BY <6>1, <6>2
        <5>2. CASE i # n + 1
          <6>1. i \in 1..n /\ g[i] = f[i] /\ (i # 1 => g[i - 1] = f[i - 1])
            BY <5>2
          <6>2. f[i] = IF i = 1 THEN qs[i] ELSE f[i - 1] \o qs[i]
            <7> DEFINE h == [k \in 1..n |-> IF k = 1 THEN qs[k] ELSE f[k - 1] \o qs[k]]
            <7>1. h[i] = IF i = 1 THEN qs[i] ELSE f[i - 1] \o qs[i]
              BY <6>1
            <7>2. f = h
              BY <4>1
            <7> HIDE DEF h
            <7> QED BY <7>1, <7>2
          <6> QED BY <6>1, <6>2
        <5> QED BY <5>1, <5>2
      <4>3. g = [i \in 1..n + 1 |-> g[i]]
        OBVIOUS
      <4>4. Flat(g, n + 1)
        <5> HIDE DEF g
        <5> QED BY <4>2, <4>3
      <4> QED BY <4>4
    <3> QED BY <3>2, <3>3
  <2> HIDE DEF Exist
  <2>3. Nat \subseteq I
    <3>1. 0 \in I /\ \A n \in I \cap Nat : n + 1 \in I
      BY <2>1, <2>2
    <3> HIDE DEF I
    <3> QED BY <3>1, SetInduction
  <2> QED BY <2>3
<1>2. Flat(fl, L)
  <2>1. \E f : Flat(f, L)
    <3>1. Exist(L) /\ 1 <= L /\ L <= L
      <4> HIDE DEF L, Exist
      <4> QED BY <1>0, <1>1
    <3> HIDE DEF L, Flat
    <3> QED BY <3>1
  <2> HIDE DEF Flat
  <2> QED BY <2>1
<1>3. FlattenSeq(qs) = fl[L]
  BY DEF FlattenSeq
<1> HIDE DEF fl
<1>4. \A n \in 1..L : fl[n] = IF n = 1 THEN qs[n] ELSE fl[n - 1] \o qs[n]
  <2> DEFINE h == [k \in 1..L |-> IF k = 1 THEN qs[k] ELSE fl[k - 1] \o qs[k]]
  <2>1. \A n \in 1..L : h[n] = IF n = 1 THEN qs[n] ELSE fl[n - 1] \o qs[n]
    OBVIOUS
  <2>2. fl = h
    BY <1>2
  <2> HIDE DEF h
  <2> QED BY <2>1, <2>2
<1> QED BY <1>3, <1>4

LEMMA Flattened ==
    ASSUME NEW S, NEW R, NEW qs \in Seq(Seq(S)),
           \A n \in 1..Len(qs) : Pairwise(R, qs[n]),
           \A m, n \in 1..Len(qs) : m < n => \A c \in Elems(qs[m]), d \in Elems(qs[n]) : <<c, d>> \in R
    PROVE  /\ FlattenSeq(qs) \in Seq(S)
           /\ \A x : x \in Elems(FlattenSeq(qs)) <=> \E n \in 1..Len(qs) : x \in Elems(qs[n])
           /\ Pairwise(R, FlattenSeq(qs))
<1>0. Len(qs) \in Nat /\ DOMAIN qs = 1..Len(qs) /\ \A n \in 1..Len(qs) : qs[n] \in Seq(S)
  OBVIOUS
<1>1. CASE Len(qs) = 0
  <2>1. FlattenSeq(qs) = qs /\ qs = <<>>
    BY <1>0, <1>1 DEF FlattenSeq
  <2>2. <<>> \in Seq(S) /\ Len(<<>>) = 0
    OBVIOUS
  <2> QED BY <2>1, <2>2 DEF Elems, Pairwise
<1>2. CASE Len(qs) # 0
  <2> DEFINE L == Len(qs)
  <2>0. L \in Nat /\ 1 <= L
    <3>1. L \in Nat /\ L # 0
      BY <1>0, <1>2
    <3> HIDE DEF L
    <3> QED BY <3>1
  <2>1. PICK fl : FlattenSeq(qs) = fl[L] /\ \A n \in 1..L : fl[n] = IF n = 1 THEN qs[n] ELSE fl[n - 1] \o qs[n]
    BY <1>2, Unfolded
  <2> DEFINE Good(n) == 1 <= n /\ n <= L =>
                          /\ fl[n] \in Seq(S) /\ Pairwise(R, fl[n])
                          /\ \A x : x \in Elems(fl[n]) <=> \E k \in 1..n : x \in Elems(qs[k])
  <2>5. \A n \in Nat : Good(n)
    <3> DEFINE K == {n \in Nat : Good(n)}
    <3>1. Good(0)
      OBVIOUS
    <3>2. ASSUME NEW n \in Nat, Good(n) PROVE Good(n + 1)
      <4>1. SUFFICES ASSUME n + 1 <= L
                     PROVE  /\ fl[n + 1] \in Seq(S) /\ Pairwise(R, fl[n + 1])
                            /\ \A x : x \in Elems(fl[n + 1]) <=> \E k \in 1..n + 1 : x \in Elems(qs[k])
        OBVIOUS
      <4>2. CASE n = 0
        <5>1. fl[1] = qs[1] /\ 1 \in 1..L
          BY <1>0, <2>1, <4>1, <4>2
        <5>2. 1..n + 1 = {1}
          BY <4>2
        <5> QED BY <1>0, <4>2, <5>1, <5>2
      <4>3. CASE n # 0
        <5>1. fl[n + 1] = fl[n] \o qs[n + 1] /\ n + 1 \in 1..L /\ qs[n + 1] \in Seq(S)
          <6>1. n + 1 \in 1..L /\ n + 1 # 1 /\ (n + 1) - 1 = n
            <7> HIDE DEF L
            <7> QED BY <2>0, <4>1, <4>3
          <6> QED BY <1>0, <2>1, <6>1
        <5>2. /\ fl[n] \in Seq(S) /\ Pairwise(R, fl[n])
              /\ \A x : x \in Elems(fl[n]) <=> \E k \in 1..n : x \in Elems(qs[k])
          BY <1>0, <3>2, <4>1, <4>3
        <5>3. \A c \in Elems(fl[n]), d \in Elems(qs[n + 1]) : <<c, d>> \in R
          <6>1. \A k \in 1..n : k \in 1..L /\ k < n + 1
            BY <1>0, <4>1
          <6> QED BY <5>1, <5>2, <6>1
        <5> DEFINE p == fl[n]
                   q == qs[n + 1]
        <5>4. p \in Seq(S) /\ q \in Seq(S) /\ Pairwise(R, p) /\ Pairwise(R, q)
              /\ \A c \in Elems(p), d \in Elems(q) : <<c, d>> \in R
          BY <5>1, <5>2, <5>3
        <5> HIDE DEF p, q
        <5>5. p \o q \in Seq(S) /\ Elems(p \o q) = Elems(p) \cup Elems(q) /\ Pairwise(R, p \o q)
          BY <5>4, Joined
        <5>6. 1..n + 1 = 1..n \cup {n + 1}
          OBVIOUS
        <5> USE DEF p, q
        <5>7. ASSUME NEW x PROVE x \in Elems(fl[n + 1]) <=> \E k \in 1..n + 1 : x \in Elems(qs[k])
          BY <5>1, <5>2, <5>5, <5>6
        <5> QED BY <5>1, <5>5, <5>7
      <4> QED BY <4>2, <4>3
    <3> HIDE DEF Good
    <3>3. Nat \subseteq K
      <4>1. 0 \in K /\ \A n \in K \cap Nat : n + 1 \in K
        BY <3>1, <3>2
      <4> HIDE DEF K
      <4> QED BY <4>1, SetInduction
    <3> QED BY <3>3
  <2>6. Good(L) /\ 1 <= L /\ L <= L
    <3> HIDE DEF L, Good
    <3> QED BY <2>0, <2>5
  <2> QED BY <2>1, <2>6
<1> QED BY <1>1, <1>2

(* What holds of every part and of any two parts joined holds of the whole. *)
LEMMA FlattenedIn ==
    ASSUME NEW G, NEW qs \in Seq(G), Len(qs) # 0, \A p, q \in G : p \o q \in G
    PROVE  FlattenSeq(qs) \in G
<1> DEFINE L == Len(qs)
<1>1. L \in Nat /\ 1 <= L /\ \A n \in 1..L : qs[n] \in G
  <2>1. L \in Nat /\ L # 0 /\ \A n \in 1..L : qs[n] \in G
    OBVIOUS
  <2> HIDE DEF L
  <2> QED BY <2>1
<1>2. PICK fl : FlattenSeq(qs) = fl[L] /\ \A n \in 1..L : fl[n] = IF n = 1 THEN qs[n] ELSE fl[n - 1] \o qs[n]
  BY Unfolded
<1> HIDE DEF L
<1> DEFINE K == {n \in Nat : n \in 1..L => fl[n] \in G}
<1>3. 0 \in K
  OBVIOUS
<1>4. ASSUME NEW n \in K \cap Nat PROVE n + 1 \in K
  <2>1. SUFFICES ASSUME n + 1 \in 1..L PROVE fl[n + 1] \in G
    OBVIOUS
  <2>2. CASE n = 0
    BY <1>1, <1>2, <2>1, <2>2
  <2>3. CASE n # 0
    <3>1. n \in 1..L /\ n + 1 # 1 /\ (n + 1) - 1 = n
      BY <1>1, <2>1, <2>3
    <3>2. fl[n + 1] = fl[n] \o qs[n + 1]
      BY <1>2, <2>1, <3>1
    <3> QED BY <1>1, <1>4, <2>1, <3>1, <3>2
  <2> QED BY <2>2, <2>3
<1>5. Nat \subseteq K
  <2> HIDE DEF K
  <2> QED BY <1>3, <1>4, SetInduction
<1> QED BY <1>1, <1>2, <1>5

(* What is left of a list when its first element is done. *)
LEMMA Behead ==
    ASSUME NEW S, NEW R, NEW q \in Seq(S), q # <<>>, Pairwise(R, q)
    PROVE  /\ Head(q) \in S /\ Tail(q) \in Seq(S) /\ Pairwise(R, Tail(q))
           /\ Elems(q) = {Head(q)} \cup Elems(Tail(q))
           /\ \A d \in Elems(Tail(q)) : <<Head(q), d>> \in R
<1> DEFINE t == Tail(q)
           m == Len(q)
<1>1. m \in Nat /\ m > 0 /\ Head(q) = q[1] /\ q[1] \in S
  OBVIOUS
<1>2. t \in Seq(S) /\ Len(t) = m - 1 /\ \A i \in 1..(m - 1) : t[i] = q[i + 1]
  OBVIOUS
<1>3. Pairwise(R, q) /\ Elems(q) = {q[i] : i \in 1..m}
  BY DEF Elems
<1>4. \A i, j \in 1..m : i < j => <<q[i], q[j]>> \in R
  BY <1>3 DEF Pairwise
<1> HIDE DEF t, m
<1>5. \A i \in 1..(m - 1) : i + 1 \in 1..m /\ 1 < i + 1
  BY <1>1
<1>6. Pairwise(R, t)
  <2>1. ASSUME NEW i \in 1..(m - 1), NEW j \in 1..(m - 1), i < j PROVE <<t[i], t[j]>> \in R
    <3>1. i + 1 < j + 1
      BY <1>1, <2>1
    <3> QED BY <3>1, <1>2, <1>4, <1>5
  <2> QED BY <2>1, <1>2 DEF Pairwise
<1>7. \A d \in Elems(t) : <<q[1], d>> \in R /\ d \in Elems(q)
  <2>1. ASSUME NEW d \in Elems(t) PROVE <<q[1], d>> \in R /\ d \in Elems(q)
    <3>1. PICK i \in 1..(m - 1) : d = q[i + 1]
      BY <1>2 DEF Elems
    <3>2. 1 \in 1..m
      BY <1>1
    <3> QED BY <3>1, <3>2, <1>3, <1>4, <1>5
  <2> QED BY <2>1
<1>8. \A d \in Elems(q) : d = q[1] \/ d \in Elems(t)
  <2>1. ASSUME NEW i \in 1..m, i # 1 PROVE q[i] \in Elems(t)
    <3>1. i - 1 \in 1..(m - 1) /\ (i - 1) + 1 = i
      BY <1>1, <2>1
    <3>2. t[i - 1] = q[i]
      BY <3>1, <1>2
    <3> QED BY <3>1, <3>2, <1>2 DEF Elems
  <2> QED BY <2>1, <1>3
<1>9. q[1] \in Elems(q)
  BY <1>1, <1>3
<1> QED BY <1>1, <1>2, <1>6, <1>7, <1>8, <1>9 DEF t

(* A finite set as a sequence has its elements, each once. *)
LEMMA Listed ==
    ASSUME NEW T, IsFiniteSet(T)
    PROVE  /\ SetToSeq(T) \in Seq(T) /\ Elems(SetToSeq(T)) = T
           /\ \A i, j \in 1..Len(SetToSeq(T)) : i # j => SetToSeq(T)[i] # SetToSeq(T)[j]
<1> DEFINE n == Cardinality(T)
           f == SetToSeq(T)
<1>1. n \in Nat /\ ExistsBijection(1..n, T)
  BY FS_CardinalityType
<1>2. \E g \in [1..n -> T] : IsInjective(g)
  BY <1>1 DEF ExistsBijection, Bijection, Injection, IsInjective
<1>3. f \in [1..n -> T] /\ IsInjective(f)
  BY <1>2 DEF SetToSeq
<1>4. f \in Injection(1..n, T)
  BY <1>3 DEF Injection, IsInjective
<1>5. IsFiniteSet(1..n) /\ Cardinality(1..n) = n
  <2>1. 1 \in Int /\ n \in Int
    BY <1>1
  <2> HIDE DEF n
  <2>2. IsFiniteSet(1..n) /\ Cardinality(1..n) = IF 1 > n THEN 0 ELSE n - 1 + 1
    BY <2>1, FS_Interval
  <2> QED BY <1>1, <2>2
<1>6. f \in Surjection(1..n, T)
  <2> HIDE DEF f
  <2> QED BY <1>4, <1>5, FS_Injection
<1> HIDE DEF f, n
<1>7. f \in Seq(T) /\ Len(f) = n
  BY <1>1, <1>3
<1>8. \A x \in T : \E i \in 1..n : f[i] = x
  BY <1>6 DEF Surjection
<1>9. \A i, j \in 1..n : i # j => f[i] # f[j]
  BY <1>3 DEF IsInjective
<1>10. Elems(f) = T
  BY <1>3, <1>7, <1>8 DEF Elems
<1> QED BY <1>7, <1>9, <1>10 DEF f

LEMMA Divides ==
    ASSUME NEW p \in Nat \ {0}, NEW q \in Nat, NEW r \in Nat, r < p
    PROVE  (q * p + r) \div p = q /\ (q * p + r) % p = r
OBVIOUS

LEMMA Division ==
    ASSUME NEW p \in Nat \ {0}, NEW a \in Nat
    PROVE  a \div p \in Nat /\ a % p \in Nat /\ a % p < p /\ a = (a \div p) * p + (a % p)
<1>1. a % p \in Nat /\ a % p < p
  OBVIOUS
<1>2. a = (a \div p) * p + (a % p)
  OBVIOUS
<1>3. a \div p \in Nat
  OBVIOUS
<1> QED BY <1>1, <1>2, <1>3

LEMMA NextMod ==
    ASSUME NEW p \in Nat \ {0}, NEW s \in Nat
    PROVE  (s + 1) % p = 0 \/ (s + 1) % p = (s % p) + 1
<1> DEFINE q == s \div p
           r == s % p
<1>1. q \in Nat /\ r \in Nat /\ r < p /\ s = q * p + r
  BY Division
<1> HIDE DEF q, r
<1>2. CASE r + 1 < p
  <2>1. s + 1 = q * p + (r + 1)
    BY <1>1
  <2>2. (q * p + (r + 1)) % p = r + 1
    BY <1>1, <1>2, Divides
  <2> QED BY <2>1, <2>2 DEF r
<1>3. CASE ~(r + 1 < p)
  <2>1. r + 1 = p
    BY <1>1, <1>3
  <2>2. s + 1 = (q + 1) * p + 0
    BY <1>1, <2>1
  <2>3. ((q + 1) * p + 0) % p = 0
    BY <1>1, Divides
  <2> QED BY <2>2, <2>3
<1> QED BY <1>2, <1>3

-----------------------------------------------------------------------------
(* A LAG.  Its commands, and which may follow which: nothing follows the    *)
(* save, the bond is read last, an address is deleted before one is added,  *)
(* and an interface that was brought up is not taken down again.           *)
LagCmds ==
    [cmd : {"add", "set", "down", "enslave", "up", "release", "addr_add", "addr_del", "show", "addrs",
            "members", "save", "delete", "remove"},
     arg : AllPorts \cup LagAddresses \cup {LagNone}]

MayPrecede(c, d) ==
    /\ d.cmd # "add" /\ c.cmd # "save"
    /\ c.cmd = "members" => d.cmd = "save"
    /\ c.cmd = "addrs" => d.cmd \in {"members", "save"}
    /\ c.cmd = "show" => d.cmd \in {"addrs", "members", "save"}
    /\ c.cmd = "addr_add" => d.cmd \notin {"addr_add", "addr_del"}
    /\ c.cmd = "up" => d # Cmd("down", c.arg)

LagOrder == {p \in LagCmds \X LagCmds : MayPrecede(p[1], p[2])}

LagShow    == Cmd("show", LagNone)
LagAddrs   == Cmd("addrs", LagNone)
LagMembers == Cmd("members", LagNone)
LagToSave  == Cmd("save", LagNone)

SavedMembers == IF lagSaved = LagNone THEN {} ELSE lagSaved.members
LagPending   == Elems(lagOp.todo)
LagAlters    == lagOp.name \in {"create", "update"} /\ lagOp.todo # <<>>
LagWorks     == lagOp.name \in {"create", "read", "update"} /\ lagOp.todo # <<>>

(* What an operation has left to do. *)
LagTodo ==
    /\ lagOp = [name |-> lagOp.name, todo |-> lagOp.todo, plan |-> lagOp.plan]
    /\ lagOp.todo \in Seq(LagCmds) /\ Pairwise(LagOrder, lagOp.todo)
    /\ lagOp.name \notin {"create", "read", "update", "delete"} => lagOp.todo = <<>>
    /\ LagWorks => /\ LagToSave \in LagPending /\ lagOp.plan \in LagModels
                   /\ LagMembers \in LagPending \/ LagPending \subseteq {LagToSave}
                   /\ LagAddrs \in LagPending \/ LagPending \subseteq {LagMembers, LagToSave}
                   /\ lagOp.plan.members \subseteq IF lagOp.name = "read" THEN SavedMembers ELSE lagConfig.members
    /\ lagOp.name = "read" => LagPending \subseteq {LagShow, LagAddrs, LagMembers, LagToSave}
    /\ lagOp.name = "delete" => LagPending \subseteq {Cmd("delete", LagNone), Cmd("remove", LagNone)}
    /\ \A c \in LagPending :
         /\ c.cmd \in {"down", "enslave", "up", "release"} => c.arg \in Ports
         /\ c.cmd \in {"down", "enslave"} => c.arg \notin SavedMembers
         /\ c.cmd = "down" => Cmd("up", c.arg) \in LagPending
         /\ c.cmd \in {"addr_add", "addr_del"} => c.arg \in LagAddresses
         /\ c.cmd \in {"show", "addrs", "members", "save"} => c.arg = LagNone

(* An interface this LAG enslaved and did not release: it is attached, or   *)
(* another LAG has taken it off the bond since.                            *)
Attached(i) == port[i].master = ThisLag \/ i \in otherLag.took

(* Only interfaces of the configuration are members, those that were saved  *)
(* are up as long as they are attached, and a bond that is not there has    *)
(* none.                                                                   *)
LagPorts ==
    /\ SavedMembers \subseteq Ports
    /\ \A i \in SavedMembers : Attached(i) => port[i].up
    /\ ~bond.exists => bond.addrs = {} /\ \A i \in AllPorts : port[i].master # ThisLag

(* What Create and Update bring about: an interface that is enslaved is up, *)
(* or is brought up, and what was read back is so.                         *)
LagProgress ==
    /\ LagAlters => \A i \in lagConfig.members \ SavedMembers : port[i].up \/ Cmd("up", i) \in LagPending
    /\ LagAlters /\ LagMembers \notin LagPending /\ bond.exists =>
         \A i \in lagOp.plan.members : Attached(i)
    /\ lagOp.name = "applied" /\ bond.exists =>
         lagSaved.members \subseteq lagConfig.members /\ \A i \in lagSaved.members : Attached(i)

(* There is one address: before one is added, the one there is deleted.    *)
OneAddress ==
    /\ \A a, b \in bond.addrs : a = b
    /\ (\E c \in LagPending : c.cmd = "addr_add") /\ (\A c \in LagPending : c.cmd # "add") =>
         \A a \in bond.addrs : Cmd("addr_del", a) \in LagPending
    /\ LagWorks /\ LagAddrs \notin LagPending => bond.addrs \subseteq {lagOp.plan.addr}
    /\ lagOp.name \in {"refreshed", "applied"} => lagSaved # LagNone /\ bond.addrs \subseteq {lagSaved.addr}

LagInv == LagTypeOK /\ LagTodo /\ LagPorts /\ LagProgress /\ OneAddress

(* A list of commands in an order that keeps to LagOrder. *)
Runs(q, E) == q \in Seq(LagCmds) /\ Elems(q) = E /\ Pairwise(LagOrder, q)

LEMMA Nothing == Runs(<<>>, {})
BY DEF Runs, Elems, Pairwise

LEMMA One ==
    ASSUME NEW c \in LagCmds
    PROVE  Runs(<<c>>, {c})
<1>1. <<c>> \in Seq(LagCmds) /\ Len(<<c>>) = 1 /\ <<c>>[1] = c
  OBVIOUS
<1>2. 1..1 = {1}
  OBVIOUS
<1> QED BY <1>1, <1>2 DEF Runs, Elems, Pairwise

LEMMA Two ==
    ASSUME NEW c \in LagCmds, NEW d \in LagCmds, MayPrecede(c, d)
    PROVE  Runs(<<c, d>>, {c, d})
<1> DEFINE q == <<c, d>>
<1>1. q \in Seq(LagCmds) /\ Len(q) = 2 /\ q[1] = c /\ q[2] = d /\ 1..2 = {1, 2}
  OBVIOUS
<1> HIDE DEF q
<1>2. Elems(q) = {c, d}
  BY <1>1 DEF Elems
<1>3. Pairwise(LagOrder, q)
  <2>1. \A i, j \in {1, 2} : i < j => i = 1 /\ j = 2
    OBVIOUS
  <2>2. <<q[1], q[2]>> \in LagOrder
    BY <1>1 DEF LagOrder
  <2> QED BY <1>1, <2>1, <2>2 DEF Pairwise
<1> QED BY <1>1, <1>2, <1>3 DEF Runs, q

LEMMA Then ==
    ASSUME NEW p, NEW q, NEW D, NEW E, Runs(p, D), Runs(q, E),
           \A c \in D, d \in E : MayPrecede(c, d)
    PROVE  Runs(p \o q, D \cup E)
<1>1. D \subseteq LagCmds /\ E \subseteq LagCmds
  BY DEF Runs, Elems
<1>2. \A c \in Elems(p), d \in Elems(q) : <<c, d>> \in LagOrder
  BY <1>1 DEF Runs, LagOrder
<1>3. p \in Seq(LagCmds) /\ q \in Seq(LagCmds) /\ Pairwise(LagOrder, p) /\ Pairwise(LagOrder, q)
  BY DEF Runs
<1> QED BY <1>2, <1>3, Joined DEF Runs

LEMMA PlainCmds ==
    ASSUME NEW n \in {"add", "set", "show", "addrs", "members", "save", "delete", "remove"}
    PROVE  Cmd(n, LagNone) \in LagCmds
BY DEF Cmd, LagCmds

(* The lists the operations are made of. *)
EnslaveCmds(ports) == {Cmd(c, i) : c \in {"down", "enslave", "up"}, i \in ports}
ReleaseCmds(ports) == {Cmd("release", i) : i \in ports}
AddCmds(a) == IF a = LagNone THEN {} ELSE {Cmd("addr_add", a)}
DelCmds(a) == IF a = LagNone THEN {} ELSE {Cmd("addr_del", a)}

LEMMA EnslavesOne ==
    ASSUME NEW i \in Ports
    PROVE  Runs(EnslaveMember(i), EnslaveCmds({i}))
<1> DEFINE down == Cmd("down", i)
           ensl == Cmd("enslave", i)
           up   == Cmd("up", i)
           q    == EnslaveMember(i)
<1>1. down \in LagCmds /\ ensl \in LagCmds /\ up \in LagCmds
  BY DEF Cmd, LagCmds, AllPorts
<1>2. MayPrecede(down, ensl) /\ MayPrecede(down, up) /\ MayPrecede(ensl, up)
  BY DEF MayPrecede, Cmd
<1>3. EnslaveCmds({i}) = {down, ensl, up}
  BY DEF EnslaveCmds
<1> HIDE DEF down, ensl, up
<1>4. q = <<down, ensl, up>>
  BY DEF EnslaveMember, down, ensl, up
<1>5. q \in Seq(LagCmds) /\ Len(q) = 3 /\ q[1] = down /\ q[2] = ensl /\ q[3] = up /\ 1..3 = {1, 2, 3}
  BY <1>1, <1>4
<1> HIDE DEF q
<1>6. Elems(q) = {down, ensl, up}
  BY <1>5 DEF Elems
<1>7. Pairwise(LagOrder, q)
  <2>1. \A k, m \in {1, 2, 3} : k < m => <<k, m>> \in {<<1, 2>>, <<1, 3>>, <<2, 3>>}
    OBVIOUS
  <2>2. <<q[1], q[2]>> \in LagOrder /\ <<q[1], q[3]>> \in LagOrder /\ <<q[2], q[3]>> \in LagOrder
    BY <1>1, <1>2, <1>5 DEF LagOrder
  <2> QED BY <1>5, <2>1, <2>2 DEF Pairwise
<1>8. EnslaveMember(i) = q
  BY DEF q
<1> QED BY <1>3, <1>5, <1>6, <1>7, <1>8 DEF Runs

LEMMA Enslaves ==
    ASSUME NEW ports, ports \subseteq Ports
    PROVE  Runs(EnslaveAll(ports), EnslaveCmds(ports))
<1> DEFINE l  == SetToSeq(ports)
           n  == Len(l)
           qs == [k \in 1..n |-> EnslaveMember(l[k])]
<1>1. IsFiniteSet(ports)
  BY LagAssumption, FS_Subset
<1>2. l \in Seq(ports) /\ Elems(l) = ports /\ \A i, j \in 1..n : i # j => l[i] # l[j]
  BY <1>1, Listed
<1>3. EnslaveAll(ports) = FlattenSeq(qs)
  BY DEF EnslaveAll
<1> HIDE DEF l
<1>4. n \in Nat /\ \A k \in 1..n : l[k] \in ports /\ l[k] \in Ports
  BY <1>2
<1>5. \A x \in ports : \E k \in 1..n : x = l[k]
  BY <1>2 DEF Elems
<1> HIDE DEF n
<1>6. \A k \in 1..n : Runs(qs[k], EnslaveCmds({l[k]}))
  BY <1>4, EnslavesOne
<1>7. qs \in Seq(Seq(LagCmds)) /\ Len(qs) = n
  <2>1. qs \in [1..n -> Seq(LagCmds)] /\ DOMAIN qs = 1..n
    <3>1. \A k \in 1..n : EnslaveMember(l[k]) \in Seq(LagCmds)
      BY <1>6 DEF Runs
    <3> QED BY <3>1
  <2> HIDE DEF qs
  <2> QED BY <1>4, <2>1
<1> HIDE DEF qs
<1>8. ASSUME NEW k \in 1..n, NEW m \in 1..n, k < m, NEW c \in Elems(qs[k]), NEW d \in Elems(qs[m])
      PROVE  <<c, d>> \in LagOrder
  <2>1. c \in EnslaveCmds({l[k]}) /\ d \in EnslaveCmds({l[m]})
    BY <1>6 DEF Runs
  <2>2. c \in LagCmds /\ d \in LagCmds
    BY <2>1, <1>4 DEF EnslaveCmds, Cmd, LagCmds, AllPorts
  <2>3. l[k] # l[m]
    BY <1>2, <1>4, <1>8 DEF n
  <2>4. MayPrecede(c, d)
    BY <2>1, <2>3 DEF MayPrecede, EnslaveCmds, Cmd
  <2> QED BY <2>2, <2>4 DEF LagOrder
<1>9. \A k \in 1..Len(qs) : Pairwise(LagOrder, qs[k])
  BY <1>6, <1>7 DEF Runs
<1>10. \A k, m \in 1..Len(qs) : k < m => \A c \in Elems(qs[k]), d \in Elems(qs[m]) : <<c, d>> \in LagOrder
  BY <1>7, <1>8
<1>11. /\ FlattenSeq(qs) \in Seq(LagCmds)
       /\ \A x : x \in Elems(FlattenSeq(qs)) <=> \E k \in 1..Len(qs) : x \in Elems(qs[k])
       /\ Pairwise(LagOrder, FlattenSeq(qs))
  BY <1>7, <1>9, <1>10, Flattened
<1>12. Elems(FlattenSeq(qs)) = EnslaveCmds(ports)
  <2>1. \A x : x \in Elems(FlattenSeq(qs)) <=> \E k \in 1..n : x \in EnslaveCmds({l[k]})
    <3>1. \A k \in 1..n : Elems(qs[k]) = EnslaveCmds({l[k]})
      BY <1>6 DEF Runs
    <3> QED BY <3>1, <1>7, <1>11
  <2>2. \A x : x \in EnslaveCmds(ports) <=> \E k \in 1..n : x \in EnslaveCmds({l[k]})
    BY <1>4, <1>5 DEF EnslaveCmds
  <2> QED BY <2>1, <2>2
<1> QED BY <1>3, <1>11, <1>12 DEF Runs

LEMMA Releases ==
    ASSUME NEW ports, ports \subseteq Ports
    PROVE  Runs(ReleaseAll(ports), ReleaseCmds(ports))
<1> DEFINE l == SetToSeq(ports)
           n == Len(l)
           q == [k \in 1..n |-> Cmd("release", l[k])]
<1>1. IsFiniteSet(ports)
  BY LagAssumption, FS_Subset
<1>2. l \in Seq(ports) /\ Elems(l) = ports
  BY <1>1, Listed
<1>3. ReleaseAll(ports) = q
  BY DEF ReleaseAll
<1> HIDE DEF l
<1>4. n \in Nat /\ \A k \in 1..n : l[k] \in ports /\ l[k] \in Ports
  BY <1>2
<1>5. ports = {l[k] : k \in 1..n}
  BY <1>2 DEF Elems
<1> HIDE DEF n
<1>6. \A k \in 1..n : q[k] = Cmd("release", l[k]) /\ q[k] \in LagCmds
  BY <1>4 DEF Cmd, LagCmds, AllPorts
<1>7. q \in Seq(LagCmds) /\ Len(q) = n
  BY <1>4, <1>6
<1> HIDE DEF q
<1>8. Elems(q) = ReleaseCmds(ports)
  BY <1>5, <1>6, <1>7 DEF Elems, ReleaseCmds
<1>9. \A i, j \in 1..n : MayPrecede(q[i], q[j])
  <2>1. ASSUME NEW k \in 1..n PROVE q[k].cmd = "release"
    <3>1. Cmd("release", l[k]).cmd = "release"
      BY DEF Cmd
    <3> QED BY <1>6, <3>1
  <2> QED BY <2>1 DEF MayPrecede
<1>10. Pairwise(LagOrder, q)
  BY <1>6, <1>7, <1>9 DEF Pairwise, LagOrder
<1> QED BY <1>3, <1>7, <1>8, <1>10 DEF Runs

LEMMA Addresses ==
    ASSUME NEW a \in LagAddresses \cup {LagNone}
    PROVE  Runs(AddAddress(a), AddCmds(a)) /\ Runs(DelAddress(a), DelCmds(a))
<1>1. Cmd("addr_add", a) \in LagCmds /\ Cmd("addr_del", a) \in LagCmds
  BY DEF Cmd, LagCmds
<1> QED BY <1>1, One, Nothing DEF AddAddress, DelAddress, AddCmds, DelCmds

LEMMA Readdresses ==
    ASSUME NEW old \in LagAddresses \cup {LagNone}, NEW new \in LagAddresses \cup {LagNone}
    PROVE  Runs(ReconcileAddr(old, new), IF old = new THEN {} ELSE DelCmds(old) \cup AddCmds(new))
<1>1. CASE old = new
  BY <1>1, Nothing DEF ReconcileAddr
<1>2. CASE old # new
  <2>1. \A c \in DelCmds(old), d \in AddCmds(new) : MayPrecede(c, d)
    BY DEF DelCmds, AddCmds, MayPrecede, Cmd
  <2>2. Runs(DelAddress(old) \o AddAddress(new), DelCmds(old) \cup AddCmds(new))
    BY <2>1, Addresses, Then
  <2> QED BY <1>2, <2>2 DEF ReconcileAddr
<1> QED BY <1>1, <1>2

LEMMA ReadsBack ==
    Runs(ReadBack, {LagShow, LagAddrs, LagMembers}) /\ Runs(<<LagToSave>>, {LagToSave})
    /\ Runs(ReadBack \o <<LagToSave>>, {LagShow, LagAddrs, LagMembers, LagToSave})
<1>1. LagShow \in LagCmds /\ LagAddrs \in LagCmds /\ LagMembers \in LagCmds /\ LagToSave \in LagCmds
  BY PlainCmds DEF LagShow, LagAddrs, LagMembers, LagToSave
<1>2. /\ MayPrecede(LagShow, LagAddrs) /\ MayPrecede(LagShow, LagMembers) /\ MayPrecede(LagShow, LagToSave)
      /\ MayPrecede(LagAddrs, LagMembers) /\ MayPrecede(LagAddrs, LagToSave) /\ MayPrecede(LagMembers, LagToSave)
  BY DEF MayPrecede, LagShow, LagAddrs, LagMembers, LagToSave, Cmd
<1>3. Runs(<<LagShow, LagAddrs>>, {LagShow, LagAddrs}) /\ Runs(<<LagMembers>>, {LagMembers})
  BY <1>1, <1>2, Two, One
<1>4. ReadBack = <<LagShow, LagAddrs>> \o <<LagMembers>>
  BY DEF ReadBack, LagShow, LagAddrs, LagMembers
<1>5. Runs(<<LagShow, LagAddrs>> \o <<LagMembers>>, {LagShow, LagAddrs} \cup {LagMembers})
  BY <1>2, <1>3, Then
<1>6. {LagShow, LagAddrs} \cup {LagMembers} = {LagShow, LagAddrs, LagMembers}
  OBVIOUS
<1>7. Runs(ReadBack, {LagShow, LagAddrs, LagMembers}) /\ Runs(<<LagToSave>>, {LagToSave})
  BY <1>1, <1>4, <1>5, <1>6, One
<1>8. Runs(ReadBack \o <<LagToSave>>, {LagShow, LagAddrs, LagMembers} \cup {LagToSave})
  BY <1>2, <1>7, Then
<1>9. {LagShow, LagAddrs, LagMembers} \cup {LagToSave} = {LagShow, LagAddrs, LagMembers, LagToSave}
  OBVIOUS
<1> QED BY <1>7, <1>8, <1>9

(* Which commands an operation is made of. *)
LagSet == Cmd("set", LagNone)
LastCmds == {LagSet, LagShow, LagAddrs, LagMembers, LagToSave}

CreateCmds(c) == {Cmd("add", LagNone)} \cup EnslaveCmds(c.members) \cup AddCmds(c.addr) \cup LastCmds

UpdateCmds(old, new) ==
    (IF old.addr = new.addr THEN {} ELSE DelCmds(old.addr) \cup AddCmds(new.addr))
      \cup ReleaseCmds(old.members \ new.members) \cup EnslaveCmds(new.members \ old.members)
      \cup LastCmds

LEMMA ByName ==
    ASSUME NEW c, NEW d, d.cmd # "add",
           c.cmd \notin {"save", "members", "addrs", "show", "addr_add"},
           c.cmd # "up" \/ d.cmd # "down"
    PROVE  MayPrecede(c, d)
<1>1. ASSUME d = Cmd("down", c.arg) PROVE d.cmd = "down"
  BY <1>1 DEF Cmd
<1> QED BY <1>1 DEF MayPrecede

LEMMA Names ==
    ASSUME NEW ports, NEW a
    PROVE  /\ \A c \in EnslaveCmds(ports) : c.cmd \in {"down", "enslave", "up"}
           /\ \A c \in ReleaseCmds(ports) : c.cmd = "release"
           /\ \A c \in AddCmds(a) : c.cmd = "addr_add"
           /\ \A c \in DelCmds(a) : c.cmd = "addr_del"
           /\ Cmd("add", LagNone).cmd = "add" /\ LagSet.cmd = "set" /\ LagShow.cmd = "show"
           /\ LagAddrs.cmd = "addrs" /\ LagMembers.cmd = "members" /\ LagToSave.cmd = "save"
<1>1. \A c \in EnslaveCmds(ports) : c.cmd \in {"down", "enslave", "up"}
  BY DEF EnslaveCmds, Cmd
<1>2. \A c \in ReleaseCmds(ports) : c.cmd = "release"
  BY DEF ReleaseCmds, Cmd
<1>3. \A c \in AddCmds(a) : c.cmd = "addr_add"
  BY DEF AddCmds, Cmd
<1>4. \A c \in DelCmds(a) : c.cmd = "addr_del"
  BY DEF DelCmds, Cmd
<1>5. /\ Cmd("add", LagNone).cmd = "add" /\ LagSet.cmd = "set" /\ LagShow.cmd = "show"
      /\ LagAddrs.cmd = "addrs" /\ LagMembers.cmd = "members" /\ LagToSave.cmd = "save"
  BY DEF Cmd, LagSet, LagShow, LagAddrs, LagMembers, LagToSave
<1> QED BY <1>1, <1>2, <1>3, <1>4, <1>5

(* Every list ends with the bond set up, read back and saved. *)
LEMMA Ends ==
    ASSUME NEW q, NEW E, Runs(q, E),
           \A c \in E : c.cmd \notin {"save", "members", "addrs", "show"}
    PROVE  Runs(q \o <<LagSet>> \o ReadBack \o <<LagToSave>>, E \cup LastCmds)
<1>1. LagSet \in LagCmds /\ Runs(<<LagSet>>, {LagSet})
  BY PlainCmds, One DEF LagSet
<1>2. \A c \in E : MayPrecede(c, LagSet) /\ MayPrecede(c, LagShow) /\ MayPrecede(c, LagAddrs) /\ MayPrecede(c, LagMembers) /\ MayPrecede(c, LagToSave)
  BY DEF MayPrecede, LagSet, LagShow, LagAddrs, LagMembers, LagToSave, Cmd
<1>3. Runs(q \o <<LagSet>>, E \cup {LagSet})
  BY <1>1, <1>2, Then
<1>4. MayPrecede(LagSet, LagShow) /\ MayPrecede(LagSet, LagAddrs) /\ MayPrecede(LagSet, LagMembers) /\ MayPrecede(LagSet, LagToSave)
  BY DEF MayPrecede, LagSet, LagShow, LagAddrs, LagMembers, LagToSave, Cmd
<1>5. MayPrecede(LagShow, LagToSave) /\ MayPrecede(LagAddrs, LagToSave) /\ MayPrecede(LagMembers, LagToSave)
  BY DEF MayPrecede, LagShow, LagAddrs, LagMembers, LagToSave, Cmd
<1>6. Runs(q \o <<LagSet>> \o ReadBack, E \cup {LagSet} \cup {LagShow, LagAddrs, LagMembers})
  BY <1>2, <1>3, <1>4, ReadsBack, Then
<1>7. Runs(q \o <<LagSet>> \o ReadBack \o <<LagToSave>>, E \cup {LagSet} \cup {LagShow, LagAddrs, LagMembers} \cup {LagToSave})
  BY <1>2, <1>4, <1>5, <1>6, ReadsBack, Then
<1>8. E \cup {LagSet} \cup {LagShow, LagAddrs, LagMembers} \cup {LagToSave} = E \cup LastCmds
  BY DEF LastCmds
<1> QED BY <1>7, <1>8

LEMMA CreateRuns ==
    ASSUME NEW c \in LagModels, c.members \subseteq Ports
    PROVE  Runs(<<Cmd("add", LagNone), Cmd("set", LagNone)>> \o EnslaveAll(c.members)
                  \o AddAddress(c.addr) \o <<Cmd("set", LagNone)>> \o ReadBack \o <<Cmd("save", LagNone)>>,
                CreateCmds(c))
<1> DEFINE add == Cmd("add", LagNone)
           en  == EnslaveCmds(c.members)
           ad  == AddCmds(c.addr)
<1>1. c.addr \in LagAddresses \cup {LagNone}
  BY DEF LagModels
<1>2. Runs(EnslaveAll(c.members), en) /\ Runs(AddAddress(c.addr), ad)
  BY <1>1, Enslaves, Addresses
<1>3. /\ \A d \in en : d.cmd \in {"down", "enslave", "up"}
      /\ \A d \in ad : d.cmd = "addr_add"
      /\ add.cmd = "add" /\ LagSet.cmd = "set"
  BY Names
<1>4. add \in LagCmds /\ LagSet \in LagCmds
  BY PlainCmds DEF LagSet
<1> HIDE DEF add, en, ad
<1>5. Runs(<<add, LagSet>>, {add, LagSet})
  <2>1. MayPrecede(add, LagSet)
    BY <1>3, ByName
  <2> QED BY <2>1, <1>4, Two
<1>6. \A d \in en : MayPrecede(add, d) /\ MayPrecede(LagSet, d)
  BY <1>3, ByName
<1>7. \A d \in ad : MayPrecede(add, d) /\ MayPrecede(LagSet, d)
  BY <1>3, ByName
<1>8. \A e \in en, d \in ad : MayPrecede(e, d)
  BY <1>3, ByName
<1>9. Runs(<<add, LagSet>> \o EnslaveAll(c.members), {add, LagSet} \cup en)
  BY <1>2, <1>5, <1>6, Then
<1>10. Runs(<<add, LagSet>> \o EnslaveAll(c.members) \o AddAddress(c.addr), {add, LagSet} \cup en \cup ad)
  BY <1>2, <1>7, <1>8, <1>9, Then
<1>11. \A d \in {add, LagSet} \cup en \cup ad : d.cmd \notin {"save", "members", "addrs", "show"}
  BY <1>3
<1>12. Runs(<<add, LagSet>> \o EnslaveAll(c.members) \o AddAddress(c.addr) \o <<LagSet>> \o ReadBack \o <<LagToSave>>,
            {add, LagSet} \cup en \cup ad \cup LastCmds)
  BY <1>10, <1>11, Ends
<1>13. {add, LagSet} \cup en \cup ad \cup LastCmds = CreateCmds(c)
  BY DEF CreateCmds, LastCmds, add, en, ad
<1> QED BY <1>12, <1>13 DEF LagSet, LagToSave, add

LEMMA UpdateRuns ==
    ASSUME NEW old \in LagModels, NEW new \in LagModels, old.members \subseteq Ports, new.members \subseteq Ports
    PROVE  Runs(<<Cmd("set", LagNone)>> \o ReconcileAddr(old.addr, new.addr)
                  \o ReleaseAll(old.members \ new.members) \o EnslaveAll(new.members \ old.members)
                  \o <<Cmd("set", LagNone)>> \o ReadBack \o <<Cmd("save", LagNone)>>,
                UpdateCmds(old, new))
<1> DEFINE ad == IF old.addr = new.addr THEN {} ELSE DelCmds(old.addr) \cup AddCmds(new.addr)
           re == ReleaseCmds(old.members \ new.members)
           en == EnslaveCmds(new.members \ old.members)
           qa == ReconcileAddr(old.addr, new.addr)
           qr == ReleaseAll(old.members \ new.members)
           qe == EnslaveAll(new.members \ old.members)
<1>1. old.addr \in LagAddresses \cup {LagNone} /\ new.addr \in LagAddresses \cup {LagNone}
  BY DEF LagModels
<1>2. Runs(qa, ad) /\ Runs(qr, re) /\ Runs(qe, en)
  <2>1. old.members \ new.members \subseteq Ports /\ new.members \ old.members \subseteq Ports
    OBVIOUS
  <2> QED BY <1>1, <2>1, Readdresses, Releases, Enslaves
<1>3. /\ \A d \in ad : d.cmd \in {"addr_add", "addr_del"}
      /\ \A d \in re : d.cmd = "release"
      /\ \A d \in en : d.cmd \in {"down", "enslave", "up"}
      /\ LagSet.cmd = "set"
  BY Names
<1>4. LagSet \in LagCmds /\ Runs(<<LagSet>>, {LagSet})
  BY PlainCmds, One DEF LagSet
<1> HIDE DEF ad, re, en, qa, qr, qe
<1>5. \A d \in ad \cup re \cup en : MayPrecede(LagSet, d)
  BY <1>3, ByName
<1>6. ASSUME NEW e \in ad, NEW d \in re \cup en PROVE MayPrecede(e, d)
  <2>1. e.cmd \in {"addr_add", "addr_del"} /\ d.cmd \in {"release", "down", "enslave", "up"}
    BY <1>3
  <2> HIDE DEF ad, re, en
  <2> QED BY <2>1 DEF MayPrecede
<1>7. \A e \in re, d \in en : MayPrecede(e, d)
  BY <1>3, ByName
<1>8. Runs(<<LagSet>> \o qa, {LagSet} \cup ad)
  BY <1>2, <1>4, <1>5, Then
<1>9. Runs(<<LagSet>> \o qa \o qr, {LagSet} \cup ad \cup re)
  BY <1>2, <1>5, <1>6, <1>8, Then
<1>10. Runs(<<LagSet>> \o qa \o qr \o qe, {LagSet} \cup ad \cup re \cup en)
  BY <1>2, <1>5, <1>6, <1>7, <1>9, Then
<1>11. \A d \in {LagSet} \cup ad \cup re \cup en : d.cmd \notin {"save", "members", "addrs", "show"}
  BY <1>3
<1>12. Runs(<<LagSet>> \o qa \o qr \o qe \o <<LagSet>> \o ReadBack \o <<LagToSave>>,
            {LagSet} \cup ad \cup re \cup en \cup LastCmds)
  BY <1>10, <1>11, Ends
<1>13. {LagSet} \cup ad \cup re \cup en \cup LastCmds = UpdateCmds(old, new)
  BY DEF UpdateCmds, LastCmds, ad, re, en
<1> QED BY <1>12, <1>13 DEF LagSet, LagToSave, qa, qr, qe

LEMMA DeleteRuns ==
    Runs(<<Cmd("delete", LagNone), Cmd("remove", LagNone)>>, {Cmd("delete", LagNone), Cmd("remove", LagNone)})
<1>1. MayPrecede(Cmd("delete", LagNone), Cmd("remove", LagNone))
  BY DEF MayPrecede, Cmd
<1> QED BY <1>1, PlainCmds, Two

-----------------------------------------------------------------------------
(* The command that is done, and those after it. *)
LagHead == Head(lagOp.todo)
LagRest == Elems(Tail(lagOp.todo))

LEMMA Distinct ==
    /\ ForeignPort \notin Ports /\ ThisLag # OtherLag /\ LagNone # ThisLag /\ LagNone # OtherLag
    /\ LagNone \notin LagModels /\ LagNone \notin LagAddresses
    /\ \A c \in LagConfigs : c \in LagModels /\ c.members \subseteq Ports
BY LagAssumption DEF LagAddresses

LEMMA Doing ==
    ASSUME LagInv, ~LagIdle
    PROVE  /\ LagHead \in LagCmds /\ Tail(lagOp.todo) \in Seq(LagCmds) /\ Pairwise(LagOrder, Tail(lagOp.todo))
           /\ LagPending = {LagHead} \cup LagRest
           /\ \A d \in LagRest : d \in LagCmds /\ MayPrecede(LagHead, d)
           /\ lagOp.todo # <<>> /\ lagOp.name \in {"create", "read", "update", "delete"}
           /\ LagHead.cmd \notin {"delete", "remove"} => LagWorks
<1>1. lagOp.todo # <<>> /\ lagOp.todo \in Seq(LagCmds) /\ Pairwise(LagOrder, lagOp.todo)
  BY DEF LagInv, LagTodo, LagIdle
<1>2. /\ LagHead \in LagCmds /\ Tail(lagOp.todo) \in Seq(LagCmds) /\ Pairwise(LagOrder, Tail(lagOp.todo))
      /\ LagPending = {LagHead} \cup LagRest
      /\ \A d \in LagRest : <<LagHead, d>> \in LagOrder
  BY <1>1, Behead DEF LagHead, LagRest, LagPending
<1>3. \A d \in LagRest : d \in LagCmds /\ MayPrecede(LagHead, d)
  BY <1>2 DEF LagOrder
<1>4. lagOp.name \in {"create", "read", "update", "delete"}
  BY <1>1 DEF LagInv, LagTodo
<1>5. lagOp.name = "delete" => LagHead.cmd \in {"delete", "remove"}
  <2>1. lagOp.name = "delete" => LagHead \in {Cmd("delete", LagNone), Cmd("remove", LagNone)}
    BY <1>2 DEF LagInv, LagTodo
  <2> QED BY <2>1 DEF Cmd
<1> QED BY <1>1, <1>2, <1>3, <1>4, <1>5 DEF LagWorks

(* What a step finds, and leaves unless it is about it. *)
LEMMA Standing ==
    ASSUME LagInv
    PROVE  /\ bond \in [exists : BOOLEAN, addrs : SUBSET LagAddresses]
           /\ port \in [AllPorts -> [master : {ThisLag, OtherLag, LagNone}, up : BOOLEAN]]
           /\ lagSaved \in LagModels \cup {LagNone} /\ \A a, b \in bond.addrs : a = b
           /\ lagConfig \in LagConfigs /\ lagConfig \in LagModels /\ lagConfig.members \subseteq Ports /\ SavedMembers \subseteq Ports
           /\ otherLag \in [releases : SUBSET Ports, took : SUBSET Ports]
BY Distinct DEF LagInv, LagTypeOK, OneAddress, LagPorts

(* A command that is neither a read nor the save leaves those to be done,   *)
(* so that only the interfaces and the addresses can have changed.         *)
LEMMA GoesOn ==
    ASSUME LagInv, ~LagIdle, LagGoOn, UNCHANGED <<lagConfig, lagSaved>>,
           LagHead.cmd \notin {"addrs", "members", "save"},
           otherLag' \in [releases : SUBSET Ports, took : SUBSET Ports],
           bond' \in [exists : BOOLEAN, addrs : SUBSET LagAddresses],
           port' \in [AllPorts -> [master : {ThisLag, OtherLag, LagNone}, up : BOOLEAN]],
           LagPorts',
           \A i \in lagConfig.members \ SavedMembers :
             port[i].up \/ Cmd("up", i) \in LagPending => port'[i].up \/ Cmd("up", i) \in LagRest,
           \A a, b \in bond'.addrs : a = b,
           (\E c \in LagRest : c.cmd = "addr_add") /\ (\A c \in LagRest : c.cmd # "add")
             => \A a \in bond'.addrs : Cmd("addr_del", a) \in LagRest
    PROVE  LagInv'
<1>1. /\ LagHead \in LagCmds /\ Tail(lagOp.todo) \in Seq(LagCmds) /\ Pairwise(LagOrder, Tail(lagOp.todo))
      /\ LagPending = {LagHead} \cup LagRest
      /\ \A d \in LagRest : d \in LagCmds /\ MayPrecede(LagHead, d)
      /\ lagOp.todo # <<>> /\ lagOp.name \in {"create", "read", "update", "delete"}
  BY Doing
<1>2. lagOp' = [name |-> lagOp.name, todo |-> Tail(lagOp.todo), plan |-> lagOp.plan]
  BY DEF LagInv, LagTodo, LagGoOn
<1>3. lagOp'.name = lagOp.name /\ lagOp'.todo = Tail(lagOp.todo) /\ lagOp'.plan = lagOp.plan
  BY <1>2
<1>4. LagPending' = LagRest /\ SavedMembers' = SavedMembers /\ (LagAlters' => LagAlters) /\ (LagWorks' => LagWorks)
  BY <1>1, <1>3 DEF LagPending, LagRest, SavedMembers, LagAlters, LagWorks
<1>5. LagHead # LagAddrs /\ LagHead # LagMembers /\ LagHead # LagToSave
  BY DEF LagAddrs, LagMembers, LagToSave, Cmd
<1>6. LagWorks => LagAddrs \in LagRest /\ LagMembers \in LagRest /\ LagToSave \in LagRest
  BY <1>1, <1>5 DEF LagInv, LagTodo
<1>7. LagTypeOK'
  BY <1>3 DEF LagInv, LagTypeOK
<1>8. LagTodo'
  <2>1. lagOp' = [name |-> lagOp'.name, todo |-> lagOp'.todo, plan |-> lagOp'.plan]
        /\ lagOp'.todo \in Seq(LagCmds) /\ Pairwise(LagOrder, lagOp'.todo)
    BY <1>1, <1>2
  <2>2. LagWorks' => /\ LagToSave \in LagPending' /\ lagOp'.plan \in LagModels
                     /\ LagMembers \in LagPending' /\ LagAddrs \in LagPending'
                     /\ lagOp'.plan.members \subseteq IF lagOp'.name = "read" THEN SavedMembers' ELSE lagConfig'.members
    BY <1>3, <1>4, <1>6 DEF LagInv, LagTodo
  <2>3. lagOp'.name = "read" => LagPending' \subseteq {LagShow, LagAddrs, LagMembers, LagToSave}
    BY <1>1, <1>3, <1>4 DEF LagInv, LagTodo
  <2>4. lagOp'.name = "delete" => LagPending' \subseteq {Cmd("delete", LagNone), Cmd("remove", LagNone)}
    BY <1>1, <1>3, <1>4 DEF LagInv, LagTodo
  <2>5. ASSUME NEW c \in LagPending' PROVE
         /\ c.cmd \in {"down", "enslave", "up", "release"} => c.arg \in Ports
         /\ c.cmd \in {"down", "enslave"} => c.arg \notin SavedMembers'
         /\ c.cmd = "down" => Cmd("up", c.arg) \in LagPending'
         /\ c.cmd \in {"addr_add", "addr_del"} => c.arg \in LagAddresses
         /\ c.cmd \in {"show", "addrs", "members", "save"} => c.arg = LagNone
    <3>1. c \in LagRest /\ c \in LagPending /\ c \in LagCmds /\ MayPrecede(LagHead, c)
      BY <1>1, <1>4, <2>5
    <3>2. ASSUME c.cmd = "down" PROVE LagHead # Cmd("up", c.arg)
      <4>1. SUFFICES ASSUME LagHead = Cmd("up", c.arg) PROVE FALSE
        OBVIOUS
      <4>2. LagHead.cmd = "up" /\ LagHead.arg = c.arg
        BY <4>1 DEF Cmd
      <4>3. c = Cmd("down", c.arg)
        BY <3>1, <3>2 DEF LagCmds, Cmd
      <4> QED BY <3>1, <4>2, <4>3 DEF MayPrecede
    <3> QED BY <3>1, <3>2, <1>1, <1>4 DEF LagInv, LagTodo
  <2>6. lagOp'.name \notin {"create", "read", "update", "delete"} => lagOp'.todo = <<>>
    BY <1>1, <1>3
  <2> QED BY <2>1, <2>2, <2>3, <2>4, <2>5, <2>6 DEF LagTodo
<1>9. LagProgress'
  <2>1. LagAlters' => \A i \in lagConfig'.members \ SavedMembers' : port'[i].up \/ Cmd("up", i) \in LagPending'
    BY <1>4 DEF LagInv, LagProgress
  <2>2. LagAlters' => LagMembers \in LagPending'
    BY <1>4, <1>6 DEF LagAlters, LagWorks
  <2> QED BY <1>1, <1>3, <2>1, <2>2 DEF LagProgress
<1>10. OneAddress'
  BY <1>1, <1>3, <1>4, <1>6 DEF OneAddress
<1> QED BY <1>7, <1>8, <1>9, <1>10 DEF LagInv

(* An operation that is over has nothing left to do. *)
LEMMA Stops ==
    ASSUME LagInv, NEW n \in {"none", "failed", "refreshed", "applied"}, LagEnd(n), lagConfig' \in LagConfigs,
           otherLag' \in [releases : SUBSET Ports, took : SUBSET Ports],
           bond' \in [exists : BOOLEAN, addrs : SUBSET LagAddresses],
           port' \in [AllPorts -> [master : {ThisLag, OtherLag, LagNone}, up : BOOLEAN]],
           lagSaved' \in LagModels \cup {LagNone},
           LagPorts',
           n = "applied" /\ bond'.exists => /\ lagSaved'.members \subseteq lagConfig'.members
                                        /\ \A i \in lagSaved'.members : Attached(i)',
           \A a, b \in bond'.addrs : a = b,
           n \in {"refreshed", "applied"} => lagSaved' # LagNone /\ bond'.addrs \subseteq {lagSaved'.addr}
    PROVE  LagInv'
<1>1. lagOp' = [name |-> n, todo |-> <<>>, plan |-> LagNone]
  BY DEF LagEnd
<1>2. lagOp'.name = n /\ lagOp'.todo = <<>> /\ lagOp'.plan = LagNone
  BY <1>1
<1>3. LagPending' = {} /\ ~LagAlters' /\ ~LagWorks'
  BY <1>2 DEF LagPending, Elems, LagAlters, LagWorks
<1>4. LagTypeOK'
  BY <1>2 DEF LagInv, LagTypeOK
<1>5. LagTodo'
  <2>1. <<>> \in Seq(LagCmds) /\ Pairwise(LagOrder, <<>>)
    BY DEF Pairwise
  <2> QED BY <1>1, <1>2, <1>3, <2>1 DEF LagTodo
<1>6. LagProgress'
  BY <1>2, <1>3 DEF LagProgress
<1>7. OneAddress'
  BY <1>2, <1>3 DEF OneAddress
<1> QED BY <1>4, <1>5, <1>6, <1>7 DEF LagInv

(* The commands, one by one. *)
LEMMA AddBondKeeps == LagInv /\ AddBond => LagInv'
<1> SUFFICES ASSUME LagInv, AddBond PROVE LagInv'
  OBVIOUS
<1>1. ~LagIdle /\ LagHead.cmd = "add" /\ LagGoOn /\ ~bond.exists /\ UNCHANGED <<port, lagConfig, lagSaved, otherLag>>
  BY DEF AddBond, LagDo, LagHead
<1>2. bond' = [exists |-> TRUE, addrs |-> {}] /\ bond' \in [exists : BOOLEAN, addrs : SUBSET LagAddresses]
  BY <1>1 DEF AddBond, LagInv, LagTypeOK, LagPorts
<1>3. port' \in [AllPorts -> [master : {ThisLag, OtherLag, LagNone}, up : BOOLEAN]]
  BY <1>1 DEF LagInv, LagTypeOK
<1>4. LagPorts'
  BY <1>1, <1>2 DEF LagInv, LagPorts, SavedMembers, Attached
<1>5. \A i : Cmd("up", i) \in LagPending => Cmd("up", i) \in LagRest
  <2>1. \A i : Cmd("up", i) # LagHead
    BY <1>1 DEF Cmd
  <2> QED BY <2>1, <1>1, Doing
<1> QED BY <1>1, <1>2, <1>3, <1>4, <1>5, Standing, GoesOn

(* A command that only goes on: the settings, and the look for the bond. *)
LEMMA Passes ==
    ASSUME LagInv, ~LagIdle, LagHead.cmd \in {"set", "show"}, LagGoOn,
           UNCHANGED <<bond, port, lagConfig, lagSaved, otherLag>>
    PROVE  LagInv'
<1>1. LagHead.cmd \notin {"addr_del", "up", "addr_add", "addrs", "members", "save"}
  OBVIOUS
<1>2. /\ bond' \in [exists : BOOLEAN, addrs : SUBSET LagAddresses]
      /\ port' \in [AllPorts -> [master : {ThisLag, OtherLag, LagNone}, up : BOOLEAN]]
  BY DEF LagInv, LagTypeOK
<1>3. LagPorts'
  BY DEF LagInv, LagPorts, SavedMembers, Attached
<1>4. \A i : Cmd("up", i) # LagHead /\ Cmd("addr_del", i) # LagHead
  BY <1>1 DEF Cmd
<1>5. LagPending = {LagHead} \cup LagRest
  BY Doing
<1>6. (\E c \in LagRest : c.cmd = "addr_add") /\ (\A c \in LagRest : c.cmd # "add")
        => \A a \in bond'.addrs : Cmd("addr_del", a) \in LagRest
  BY <1>1, <1>4, <1>5 DEF LagInv, OneAddress
<1>7. \A a, b \in bond'.addrs : a = b
  BY DEF LagInv, OneAddress
<1> QED BY <1>1, <1>2, <1>3, <1>4, <1>5, <1>6, <1>7, Standing, GoesOn

LEMMA SetLinkKeeps == LagInv /\ SetLink => LagInv'
BY Passes DEF SetLink, LagDo, LagHead

(* An interface is changed: which of its settings, and to what. *)
LEMMA PortCommand ==
    ASSUME LagInv, ~LagIdle, LagGoOn, UNCHANGED <<bond, lagConfig, lagSaved>>,
           otherLag' \in [releases : SUBSET Ports, took : SUBSET Ports],
           LagHead.cmd \in {"down", "enslave", "up", "release"},
           NEW r \in [master : {ThisLag, OtherLag, LagNone}, up : BOOLEAN],
           port' = [port EXCEPT ![LagHead.arg] = r],
           otherLag'.took \subseteq otherLag.took,
           LagHead.arg \in SavedMembers /\ (r.master = ThisLag \/ LagHead.arg \in otherLag.took) => r.up,
           r.master = ThisLag => bond.exists,
           port[LagHead.arg].up \/ LagHead.cmd = "up"
             => r.up \/ (LagHead.cmd = "down" /\ Cmd("up", LagHead.arg) \in LagPending)
    PROVE  LagInv'
<1> DEFINE p == LagHead.arg
<1>1. LagPending = {LagHead} \cup LagRest /\ LagHead \in LagCmds
  BY Doing
<1>2. p \in Ports /\ p \in AllPorts
  BY <1>1 DEF LagInv, LagTodo, AllPorts
<1>3. /\ bond' \in [exists : BOOLEAN, addrs : SUBSET LagAddresses]
      /\ port \in [AllPorts -> [master : {ThisLag, OtherLag, LagNone}, up : BOOLEAN]]
      /\ port' \in [AllPorts -> [master : {ThisLag, OtherLag, LagNone}, up : BOOLEAN]]
  BY <1>2 DEF LagInv, LagTypeOK
<1> HIDE DEF p
<1>4. port'[p] = r /\ \A i \in AllPorts : i # p => port'[i] = port[i]
  BY <1>2, <1>3 DEF p
<1>5. LagPorts'
  <2>1. SavedMembers' = SavedMembers /\ SavedMembers \subseteq Ports /\ lagConfig.members \subseteq Ports
    BY Distinct DEF SavedMembers, LagInv, LagPorts, LagTypeOK
  <2>2. \A i \in SavedMembers : Attached(i)' => port'[i].up
    BY <1>4, <2>1 DEF LagInv, LagPorts, Attached, p, AllPorts
  <2>3. ~bond.exists => bond.addrs = {} /\ \A i \in AllPorts : port'[i].master # ThisLag
    BY <1>4 DEF LagInv, LagPorts, Attached
  <2> QED BY <2>1, <2>2, <2>3 DEF LagPorts, Attached
<1>6. \A i : Cmd("addr_del", i) # LagHead
  BY DEF Cmd
<1>7. (\E c \in LagRest : c.cmd = "addr_add") /\ (\A c \in LagRest : c.cmd # "add")
        => \A a \in bond'.addrs : Cmd("addr_del", a) \in LagRest
  BY <1>1, <1>6 DEF LagInv, OneAddress
<1>8. \A a, b \in bond'.addrs : a = b
  BY DEF LagInv, OneAddress
<1>9. ASSUME NEW i \in lagConfig.members \ SavedMembers, port[i].up \/ Cmd("up", i) \in LagPending
      PROVE  port'[i].up \/ Cmd("up", i) \in LagRest
  <2>1. i \in AllPorts
    BY Distinct DEF LagInv, LagTypeOK, AllPorts
  <2>2. CASE i # p
    <3>1. LagHead # Cmd("up", i)
      BY <2>2 DEF p, Cmd
    <3> QED BY <3>1, <2>1, <2>2, <1>1, <1>4, <1>9
  <2>3. CASE i = p
    <3>1. LagHead = Cmd("up", i) => LagHead.cmd = "up"
      BY DEF Cmd
    <3>2. LagHead.cmd = "down" => LagHead # Cmd("up", i)
      BY DEF Cmd
    <3>3. CASE port[i].up \/ LagHead.cmd = "up"
      BY <3>2, <3>3, <2>3, <1>1, <1>4 DEF p
    <3>4. CASE LagHead.cmd # "up"
      BY <3>1, <3>2, <3>4, <2>3, <1>1, <1>4, <1>9 DEF p
    <3> QED BY <3>3, <3>4
  <2> QED BY <2>2, <2>3
<1>10. LagHead.cmd \notin {"addrs", "members", "save"} /\ UNCHANGED <<lagConfig, lagSaved>>
  OBVIOUS
<1> QED BY <1>3, <1>5, <1>7, <1>8, <1>9, <1>10, GoesOn

LEMMA EnslaveKeeps == LagInv /\ Enslave => LagInv'
<1> SUFFICES ASSUME LagInv, Enslave PROVE LagInv'
  OBVIOUS
<1> DEFINE p == LagArg
           type == [master : {ThisLag, OtherLag, LagNone}, up : BOOLEAN]
<1>1. ~LagIdle /\ LagHead.cmd \in {"down", "enslave", "up"} /\ LagGoOn /\ UNCHANGED <<bond, lagConfig, lagSaved>>
  BY DEF Enslave, LagDo, LagHead
<1>2. LagHead \in LagPending /\ p = LagHead.arg
  BY <1>1, Doing DEF LagArg, LagHead
<1>3. p \in Ports /\ p \in AllPorts /\ port \in [AllPorts -> type] /\ port[p] \in type
  BY <1>1, <1>2 DEF LagInv, LagTodo, LagTypeOK, AllPorts
<1> DEFINE mtype == [releases : SUBSET Ports, took : SUBSET Ports]
<1>4. otherLag \in mtype /\ [otherLag EXCEPT !.took = @ \ {p}] \in mtype
  BY Standing
<1>5. otherLag' \in mtype /\ otherLag'.took \subseteq otherLag.took
  <2>1. [otherLag EXCEPT !.took = @ \ {p}].took = otherLag.took \ {p}
    BY <1>4 DEF mtype
  <2> QED BY <1>4, <2>1 DEF Enslave
<1> HIDE DEF mtype
<1>6. CASE LagHead.cmd = "down" /\ port' = [port EXCEPT ![p].up = FALSE]
  <2> DEFINE r == [port[p] EXCEPT !.up = FALSE]
  <2>1. r \in type /\ r.up = FALSE /\ r.master = port[p].master /\ port' = [port EXCEPT ![p] = r]
    BY <1>3, <1>6
  <2>2. p \notin SavedMembers /\ Cmd("up", p) \in LagPending
    BY <1>2, <1>6 DEF LagInv, LagTodo
  <2>3. r.master = ThisLag => bond.exists
    BY <2>1, <1>3 DEF LagInv, LagPorts, Attached
  <2> HIDE DEF r, p
  <2> QED BY <1>1, <1>2, <1>6, <1>5, <2>1, <2>2, <2>3, PortCommand DEF mtype
<1>7. CASE LagHead.cmd = "enslave" /\ bond.exists /\ ~port[p].up /\ port' = [port EXCEPT ![p].master = ThisLag]
  <2> DEFINE r == [port[p] EXCEPT !.master = ThisLag]
  <2>1. r \in type /\ r.up = port[p].up /\ r.master = ThisLag /\ port' = [port EXCEPT ![p] = r]
    BY <1>3, <1>7
  <2>2. p \notin SavedMembers
    BY <1>2, <1>7 DEF LagInv, LagTodo
  <2> HIDE DEF r, p
  <2> QED BY <1>1, <1>2, <1>7, <1>5, <2>1, <2>2, Distinct, PortCommand DEF mtype
<1>8. CASE LagHead.cmd = "up" /\ port' = [port EXCEPT ![p].up = TRUE]
  <2> DEFINE r == [port[p] EXCEPT !.up = TRUE]
  <2>1. r \in type /\ r.up = TRUE /\ r.master = port[p].master /\ port' = [port EXCEPT ![p] = r]
    BY <1>3, <1>8
  <2>2. r.master = ThisLag => bond.exists
    BY <2>1, <1>3 DEF LagInv, LagPorts, Attached
  <2> HIDE DEF r, p
  <2> QED BY <1>1, <1>2, <1>8, <1>5, <2>1, <2>2, PortCommand DEF mtype
<1> QED BY <1>6, <1>7, <1>8 DEF Enslave, LagDo, LagHead

LEMMA ReleaseKeeps == LagInv /\ ReleaseMember => LagInv'
<1> SUFFICES ASSUME LagInv, ReleaseMember PROVE LagInv'
  OBVIOUS
<1> DEFINE p == LagArg
           type == [master : {ThisLag, OtherLag, LagNone}, up : BOOLEAN]
           r == [port[p] EXCEPT !.master = LagNone]
<1>1. ~LagIdle /\ LagHead.cmd = "release" /\ LagGoOn /\ UNCHANGED <<bond, lagConfig, lagSaved, otherLag>>
  BY DEF ReleaseMember, LagDo, LagHead
<1>2. LagHead \in LagPending /\ p = LagHead.arg
  BY <1>1, Doing DEF LagArg, LagHead
<1>3. p \in Ports /\ p \in AllPorts /\ port \in [AllPorts -> type] /\ port[p] \in type
  BY <1>1, <1>2 DEF LagInv, LagTodo, LagTypeOK, AllPorts
<1>4. r \in type /\ r.up = port[p].up /\ r.master = LagNone /\ port' = [port EXCEPT ![p] = r]
  BY <1>3 DEF ReleaseMember
<1>5. p \in SavedMembers /\ p \in otherLag.took => r.up
  BY <1>4 DEF LagInv, LagPorts, Attached
<1> HIDE DEF r, p
<1> QED BY <1>1, <1>2, <1>4, <1>5, Standing, Distinct, PortCommand

LEMMA ChangeAddressKeeps == LagInv /\ ChangeAddress => LagInv'
<1> SUFFICES ASSUME LagInv, ChangeAddress PROVE LagInv'
  OBVIOUS
<1> DEFINE x == LagArg
<1>1. ~LagIdle /\ LagHead.cmd \in {"addr_add", "addr_del"} /\ LagGoOn /\ UNCHANGED <<port, lagConfig, lagSaved, otherLag>>
  BY DEF ChangeAddress, LagDo, LagHead
<1>2. LagPending = {LagHead} \cup LagRest /\ x = LagHead.arg /\ \A d \in LagRest : MayPrecede(LagHead, d)
  BY <1>1, Doing DEF LagArg, LagHead
<1>3. x \in LagAddresses
  BY <1>1, <1>2 DEF LagInv, LagTodo
<1>4. \A i : Cmd("up", i) # LagHead
  BY <1>1 DEF Cmd
<1>5. port' \in [AllPorts -> [master : {ThisLag, OtherLag, LagNone}, up : BOOLEAN]]
  BY <1>1 DEF LagInv, LagTypeOK
<1>6. LagHead \in LagCmds /\ bond \in [exists : BOOLEAN, addrs : SUBSET LagAddresses]
  BY <1>1, Doing DEF LagInv, LagTypeOK
<1>7. CASE LagHead.cmd = "addr_del" /\ bond' = [bond EXCEPT !.addrs = @ \ {x}]
  <2>1. bond'.exists = bond.exists /\ bond'.addrs = bond.addrs \ {x} /\ bond' \in [exists : BOOLEAN, addrs : SUBSET LagAddresses]
    BY <1>6, <1>7
  <2>2. LagPorts'
    BY <1>1, <2>1 DEF LagInv, LagPorts, SavedMembers, Attached
  <2>3. ASSUME \E c \in LagRest : c.cmd = "addr_add", \A c \in LagRest : c.cmd # "add", NEW a \in bond'.addrs
        PROVE  Cmd("addr_del", a) \in LagRest
    <3>1. \A c \in LagPending : c.cmd # "add"
      BY <1>2, <1>7, <2>3
    <3>2. Cmd("addr_del", a) \in LagPending
      BY <1>2, <2>1, <2>3, <3>1 DEF LagInv, OneAddress
    <3>3. Cmd("addr_del", a) # LagHead
      BY <1>2, <2>1, <2>3 DEF Cmd
    <3> QED BY <1>2, <3>2, <3>3
  <2>4. \A a, b \in bond'.addrs : a = b
    BY <2>1 DEF LagInv, OneAddress
  <2> HIDE DEF x
  <2>5. LagHead.cmd \notin {"addrs", "members", "save"}
    BY <1>1
  <2> QED BY <1>1, <1>2, <1>4, <1>5, <2>1, <2>2, <2>3, <2>4, <2>5, Standing, GoesOn
<1>8. CASE LagHead.cmd = "addr_add" /\ bond.exists /\ x \notin bond.addrs /\ bond' = [bond EXCEPT !.addrs = @ \cup {x}]
  <2>1. \A d \in LagRest : d.cmd \notin {"add", "addr_add", "addr_del"}
    BY <1>2, <1>8 DEF MayPrecede
  <2>2. \A a \in bond.addrs : Cmd("addr_del", a) \in LagPending
    <3>1. (\E c \in LagPending : c.cmd = "addr_add") /\ \A c \in LagPending : c.cmd # "add"
      BY <1>2, <1>8, <2>1
    <3> QED BY <3>1 DEF LagInv, OneAddress
  <2>3. bond.addrs = {}
    <3>1. \A a : Cmd("addr_del", a) # LagHead /\ Cmd("addr_del", a) \notin LagRest
      BY <1>8, <2>1 DEF Cmd
    <3> QED BY <3>1, <2>2, <1>2
  <2>4. bond'.exists /\ bond'.addrs = {x} /\ bond' \in [exists : BOOLEAN, addrs : SUBSET LagAddresses]
    BY <1>3, <1>6, <1>8, <2>3
  <2>5. LagPorts'
    BY <1>1, <2>4 DEF LagInv, LagPorts, SavedMembers, Attached
  <2> HIDE DEF x
  <2>6. LagHead.cmd \notin {"addrs", "members", "save"} /\ \A a, b \in bond'.addrs : a = b
    BY <1>1, <2>4
  <2> QED BY <1>1, <1>2, <1>4, <1>5, <2>1, <2>4, <2>5, <2>6, Standing, GoesOn
<1> QED BY <1>7, <1>8 DEF ChangeAddress, LagDo, LagHead

(* A bond that is gone has no address, and nothing has it as its master. *)
LEMMA Unbinds ==
    ASSUME LagInv, bond' = [exists |-> FALSE, addrs |-> {}], port' = Unbound, UNCHANGED <<lagConfig, lagSaved, otherLag>>
    PROVE  /\ bond' \in [exists : BOOLEAN, addrs : SUBSET LagAddresses]
           /\ port' \in [AllPorts -> [master : {ThisLag, OtherLag, LagNone}, up : BOOLEAN]]
           /\ ~bond'.exists /\ bond'.addrs = {}
           /\ \A i \in AllPorts : port'[i].up = port[i].up /\ port'[i].master # ThisLag
           /\ LagPorts'
<1> DEFINE type == [master : {ThisLag, OtherLag, LagNone}, up : BOOLEAN]
<1>1. port \in [AllPorts -> type]
  BY DEF LagInv, LagTypeOK
<1>2. ASSUME NEW i \in AllPorts
      PROVE  /\ port'[i] \in type /\ port'[i].up = port[i].up /\ port'[i].master # ThisLag
  <2>1. port[i] \in type /\ port'[i] = IF port[i].master = ThisLag THEN [port[i] EXCEPT !.master = LagNone] ELSE port[i]
    BY <1>1 DEF Unbound
  <2>2. CASE port[i].master = ThisLag
    BY <2>1, <2>2, Distinct
  <2>3. CASE port[i].master # ThisLag
    BY <2>1, <2>3
  <2> QED BY <2>2, <2>3
<1>3. port' \in [AllPorts -> type]
  <2>1. port' = [i \in AllPorts |-> port'[i]]
    BY DEF Unbound
  <2> QED BY <1>2, <2>1
<1>4. ~bond'.exists /\ bond'.addrs = {} /\ bond' \in [exists : BOOLEAN, addrs : SUBSET LagAddresses]
  OBVIOUS
<1>5. LagPorts'
  <2>1. SavedMembers' = SavedMembers /\ SavedMembers \subseteq Ports /\ lagConfig.members \subseteq Ports
    BY Distinct DEF SavedMembers, LagInv, LagPorts, LagTypeOK
  <2>2. \A i \in SavedMembers : i \in AllPorts
    BY <2>1 DEF AllPorts
  <2>3. \A i \in SavedMembers : Attached(i)' => port'[i].up
    BY <1>2, <2>2 DEF LagInv, LagPorts, Attached
  <2> QED BY <1>2, <1>4, <2>1, <2>3 DEF LagPorts, Attached
<1> QED BY <1>2, <1>3, <1>4, <1>5

LEMMA DeleteBondKeeps == LagInv /\ DeleteBond => LagInv'
<1> SUFFICES ASSUME LagInv, DeleteBond PROVE LagInv'
  OBVIOUS
<1>1. /\ ~LagIdle /\ LagHead.cmd = "delete" /\ LagGoOn /\ UNCHANGED <<lagConfig, lagSaved, otherLag>>
      /\ bond' = [exists |-> FALSE, addrs |-> {}] /\ port' = Unbound
  BY DEF DeleteBond, LagDo, LagHead
<1>2. /\ bond' \in [exists : BOOLEAN, addrs : SUBSET LagAddresses]
      /\ port' \in [AllPorts -> [master : {ThisLag, OtherLag, LagNone}, up : BOOLEAN]]
      /\ ~bond'.exists /\ bond'.addrs = {}
      /\ \A i \in AllPorts : port'[i].up = port[i].up /\ port'[i].master # ThisLag
      /\ LagPorts'
  BY <1>1, Unbinds
<1>3. LagPending = {LagHead} \cup LagRest /\ \A i : Cmd("up", i) # LagHead
  BY <1>1, Doing DEF Cmd
<1>4. lagConfig.members \subseteq AllPorts
  BY Distinct DEF LagInv, LagTypeOK, AllPorts
<1>5. LagHead.cmd \notin {"addrs", "members", "save"}
  BY <1>1
<1> QED BY <1>1, <1>2, <1>3, <1>4, <1>5, Standing, GoesOn

LEMMA LagFailKeeps == LagInv /\ LagFail => LagInv'
<1> SUFFICES ASSUME LagInv, LagFail PROVE LagInv'
  OBVIOUS
<1>1. LagEnd("failed") /\ UNCHANGED <<bond, port, lagConfig, lagSaved, otherLag>>
  BY DEF LagFail
<1>2. LagPorts'
  BY <1>1 DEF LagInv, LagPorts, SavedMembers, Attached
<1> QED BY <1>1, <1>2, Standing, Stops

LEMMA ForgetsKeeps == LagInv /\ (BondMissing \/ RemoveLag) => LagInv'
<1> SUFFICES ASSUME LagInv, BondMissing \/ RemoveLag PROVE LagInv'
  OBVIOUS
<1>1. LagEnd("none") /\ lagSaved' = LagNone /\ UNCHANGED <<bond, port, lagConfig, otherLag>>
  BY DEF BondMissing, RemoveLag
<1>2. LagPorts'
  BY <1>1 DEF LagInv, LagPorts, SavedMembers, Attached
<1> QED BY <1>1, <1>2, Standing, Stops

LEMMA LagSaveKeeps == LagInv /\ LagSave => LagInv'
<1> SUFFICES ASSUME LagInv, LagSave PROVE LagInv'
  OBVIOUS
<1> DEFINE n == IF lagOp.name = "read" THEN "refreshed" ELSE IF lagOp.plan = lagConfig THEN "applied" ELSE "failed"
           m == lagOp.plan
<1>1. ~LagIdle /\ LagHead.cmd = "save" /\ lagSaved' = m /\ LagEnd(n) /\ UNCHANGED <<bond, port, lagConfig, otherLag>>
  BY DEF LagSave, LagDo, LagHead
<1>2. LagWorks /\ LagPending = {LagHead} \cup LagRest /\ LagRest = {}
  BY <1>1, Doing DEF MayPrecede
<1>3. m \in LagModels /\ LagPending = {LagToSave}
      /\ m.members \subseteq IF lagOp.name = "read" THEN SavedMembers ELSE lagConfig.members
  BY <1>2 DEF LagInv, LagTodo
<1>4. LagAddrs \notin LagPending /\ LagMembers \notin LagPending /\ \A i : Cmd("up", i) \notin LagPending
  BY <1>3 DEF LagAddrs, LagMembers, LagToSave, Cmd
<1>5. lagSaved' # LagNone /\ SavedMembers' = m.members
  BY <1>1, <1>3, Distinct DEF SavedMembers
<1>6. bond.addrs \subseteq {m.addr}
  BY <1>2, <1>4 DEF LagInv, OneAddress
<1>7. n = "applied" => lagOp.name \in {"create", "update"}
  BY <1>2 DEF LagWorks
<1>8. LagPorts'
  <2>1. m.members \subseteq Ports
    BY <1>3, Standing
  <2>2. ASSUME NEW i \in m.members, Attached(i) PROVE port[i].up
    <3>1. CASE i \in SavedMembers
      BY <2>2, <3>1 DEF LagInv, LagPorts, Attached
    <3>2. CASE i \notin SavedMembers
      <4>1. lagOp.name # "read" /\ i \in lagConfig.members
        BY <1>3, <2>2, <3>2
      <4>2. LagAlters
        BY <1>2, <4>1 DEF LagWorks, LagAlters
      <4> QED BY <1>4, <3>2, <4>1, <4>2 DEF LagInv, LagProgress
    <3> QED BY <3>1, <3>2
  <2> QED BY <1>1, <1>5, <2>1, <2>2 DEF LagInv, LagPorts, Attached
<1>9. n = "applied" /\ bond.exists => m.members \subseteq lagConfig.members /\ \A i \in m.members : Attached(i)
  <2>1. SUFFICES ASSUME n = "applied", bond.exists PROVE m.members \subseteq lagConfig.members /\ \A i \in m.members : Attached(i)
    OBVIOUS
  <2>2. LagAlters /\ lagOp.name # "read"
    BY <1>2, <1>7, <2>1 DEF LagWorks, LagAlters
  <2> QED BY <1>3, <1>4, <2>1, <2>2 DEF LagInv, LagProgress
<1>10. n \in {"none", "failed", "refreshed", "applied"}
  OBVIOUS
<1> HIDE DEF n, m
<1>11. \A i : Attached(i)' <=> Attached(i)
  BY <1>1 DEF Attached
<1> QED BY <1>1, <1>3, <1>5, <1>6, <1>8, <1>9, <1>10, <1>11, Standing, Stops

(* What is read back: the model of the operation becomes what is there. *)
LEMMA Reads ==
    ASSUME LagInv, ~LagIdle, LagHead.cmd \in {"addrs", "members"},
           UNCHANGED <<bond, port, lagConfig, lagSaved, otherLag>>,
           NEW m \in LagModels, m.members \subseteq lagOp.plan.members,
           lagOp' = [name |-> lagOp.name, todo |-> Tail(lagOp.todo), plan |-> m],
           LagHead.cmd = "members" => m.addr = lagOp.plan.addr /\ \A i \in m.members : port[i].master = ThisLag,
           LagHead.cmd = "addrs" => bond.addrs \subseteq {m.addr}
    PROVE  LagInv'
<1>1. lagOp'.name = lagOp.name /\ lagOp'.todo = Tail(lagOp.todo) /\ lagOp'.plan = m
  OBVIOUS
<1>2. /\ Tail(lagOp.todo) \in Seq(LagCmds) /\ Pairwise(LagOrder, Tail(lagOp.todo))
      /\ LagPending = {LagHead} \cup LagRest
      /\ LagHead \in LagCmds /\ \A d \in LagRest : d \in LagCmds /\ MayPrecede(LagHead, d)
      /\ LagWorks /\ lagOp.name \in {"create", "read", "update"}
  BY Doing DEF LagWorks
<1>3. LagPending' = LagRest /\ SavedMembers' = SavedMembers /\ (LagAlters' => LagAlters)
  BY <1>1, <1>2 DEF LagPending, LagRest, SavedMembers, LagAlters, LagWorks
<1>4. \A d \in LagRest : d.cmd \in {"members", "save"} /\ (LagHead.cmd = "members" => d.cmd = "save")
  BY <1>2 DEF MayPrecede
<1>5. \A d \in LagPending : d.cmd \in {"addrs", "members", "save"} => d.arg = LagNone
  BY DEF LagInv, LagTodo
<1>6. LagRest \subseteq {LagMembers, LagToSave} /\ (LagHead.cmd = "members" => LagRest \subseteq {LagToSave})
  BY <1>2, <1>4, <1>5 DEF LagCmds, LagMembers, LagToSave, Cmd
<1>7. LagToSave \in LagRest /\ (LagHead.cmd = "addrs" => LagMembers \in LagRest)
  <2>1. LagHead # LagToSave /\ (LagHead.cmd = "addrs" => LagHead # LagMembers /\ ~(LagPending \subseteq {LagToSave}))
    BY <1>2 DEF LagToSave, LagMembers, Cmd
  <2> QED BY <1>2, <2>1 DEF LagInv, LagTodo
<1>8. LagAddrs \notin LagRest /\ (LagHead.cmd = "members" => LagMembers \notin LagRest /\ LagAddrs \notin LagPending)
  <2>1. LagAddrs.cmd = "addrs" /\ LagMembers.cmd = "members"
    BY DEF LagAddrs, LagMembers, Cmd
  <2> QED BY <1>2, <1>4, <2>1
<1>9. LagTypeOK'
  BY <1>1 DEF LagInv, LagTypeOK
<1>10. LagTodo'
  <2>1. m.members \subseteq IF lagOp.name = "read" THEN SavedMembers ELSE lagConfig.members
    BY <1>2 DEF LagInv, LagTodo
  <2>2. \A c \in LagRest : c.cmd \in {"members", "save"} /\ c.arg = LagNone
    BY <1>2, <1>4, <1>5
  <2>3. lagOp'.name = "read" => LagPending' \subseteq {LagShow, LagAddrs, LagMembers, LagToSave}
    BY <1>3, <1>6
  <2>4. lagOp' = [name |-> lagOp'.name, todo |-> lagOp'.todo, plan |-> lagOp'.plan]
    BY <1>1
  <2> QED BY <1>1, <1>2, <1>3, <1>6, <1>7, <2>1, <2>2, <2>3, <2>4 DEF LagTodo
<1>11. LagPorts'
  BY <1>3 DEF LagInv, LagPorts, Attached
<1>12. LagProgress'
  <2>1. LagAlters' => \A i \in lagConfig.members \ SavedMembers : port[i].up \/ Cmd("up", i) \in LagRest
    <3>1. \A i : Cmd("up", i) # LagHead
      BY DEF Cmd
    <3> QED BY <3>1, <1>2, <1>3 DEF LagInv, LagProgress
  <2>2. LagAlters' /\ LagMembers \notin LagPending' => \A i \in m.members : Attached(i)'
    BY <1>3, <1>7 DEF Attached
  <2>3. lagOp'.name # "applied"
    BY <1>1, <1>2
  <2> QED BY <1>1, <1>3, <2>1, <2>2, <2>3 DEF LagProgress
<1>13. OneAddress'
  <2>1. \A c \in LagRest : c.cmd # "addr_add"
    BY <1>4
  <2>2. bond.addrs \subseteq {m.addr}
    BY <1>2, <1>8 DEF LagInv, OneAddress
  <2>3. \A a, b \in bond.addrs : a = b
    BY Standing
  <2>4. lagOp'.name \notin {"refreshed", "applied"}
    BY <1>1, <1>2
  <2> QED BY <1>1, <1>3, <2>1, <2>2, <2>3, <2>4 DEF OneAddress
<1> QED BY <1>9, <1>10, <1>11, <1>12, <1>13 DEF LagInv

LEMMA ShowBondKeeps == LagInv /\ ShowBond => LagInv'
<1> SUFFICES ASSUME LagInv, ShowBond PROVE LagInv'
  OBVIOUS
<1>0. CASE LagDo("show") /\ LagGoOn
  <2>1. ~LagIdle /\ LagHead.cmd = "show" /\ UNCHANGED <<bond, port, lagConfig, lagSaved, otherLag>>
    BY <1>0 DEF ShowBond, LagDo, LagHead
  <2> QED BY <1>0, <2>1, Passes
<1> SUFFICES ASSUME ~(LagDo("show") /\ LagGoOn) PROVE LagInv'
  BY <1>0
<1>1. ~LagIdle /\ LagHead.cmd = "addrs" /\ UNCHANGED <<bond, port, lagConfig, lagSaved, otherLag>>
  BY DEF ShowBond, LagDo, LagHead
<1>2. PICK a \in IF bond.addrs = {} THEN {lagOp.plan.addr} ELSE bond.addrs :
        lagOp' = [lagOp EXCEPT !.todo = Tail(@), !.plan.addr = a]
  BY DEF ShowBond
<1>3. LagWorks /\ lagOp.plan \in LagModels /\ lagOp = [name |-> lagOp.name, todo |-> lagOp.todo, plan |-> lagOp.plan]
  BY <1>1, Doing DEF LagInv, LagTodo
<1> DEFINE m == [lagOp.plan EXCEPT !.addr = a]
<1>4. a \in LagAddresses \cup {LagNone} /\ bond.addrs \subseteq {a}
  <2>1. lagOp.plan.addr \in LagAddresses \cup {LagNone}
    BY <1>3 DEF LagModels
  <2> QED BY <1>2, <2>1, Standing
<1>5. m \in LagModels /\ m.members = lagOp.plan.members /\ m.addr = a
  BY <1>3, <1>4 DEF LagModels
<1>6. lagOp' = [name |-> lagOp.name, todo |-> Tail(lagOp.todo), plan |-> m]
  BY <1>2, <1>3
<1> HIDE DEF m
<1> QED BY <1>1, <1>4, <1>5, <1>6, Reads

LEMMA ShowMembersKeeps == LagInv /\ ShowMembers => LagInv'
<1> SUFFICES ASSUME LagInv, ShowMembers PROVE LagInv'
  OBVIOUS
<1>1. ~LagIdle /\ LagHead.cmd = "members" /\ UNCHANGED <<bond, port, lagConfig, lagSaved, otherLag>>
      /\ lagOp' = [lagOp EXCEPT !.todo = Tail(@), !.plan.members = Kept]
  BY DEF ShowMembers, LagDo, LagHead
<1>2. LagWorks /\ lagOp.plan \in LagModels /\ lagOp = [name |-> lagOp.name, todo |-> lagOp.todo, plan |-> lagOp.plan]
  BY <1>1, Doing DEF LagInv, LagTodo
<1> DEFINE m == [lagOp.plan EXCEPT !.members = Kept]
<1>3. m \in LagModels /\ m.members = Kept /\ m.addr = lagOp.plan.addr
  BY <1>2 DEF LagModels, Kept
<1>4. lagOp' = [name |-> lagOp.name, todo |-> Tail(lagOp.todo), plan |-> m]
  BY <1>1, <1>2
<1>5. Kept \subseteq lagOp.plan.members /\ \A i \in Kept : port[i].master = ThisLag
  BY DEF Kept, Current
<1> HIDE DEF m
<1> QED BY <1>1, <1>3, <1>4, <1>5, Reads

(* The rest of the host: the interfaces and the bond change, no operation. *)
LEMMA Around ==
    ASSUME LagInv, UNCHANGED <<lagConfig, lagSaved, lagOp>>, LagPorts',
           bond' \in [exists : BOOLEAN, addrs : SUBSET LagAddresses],
           port' \in [AllPorts -> [master : {ThisLag, OtherLag, LagNone}, up : BOOLEAN]],
           otherLag' \in [releases : SUBSET Ports, took : SUBSET Ports],
           bond'.addrs \subseteq bond.addrs, bond'.exists => bond.exists,
           \A i \in AllPorts : port[i].up => port'[i].up,
           bond'.exists => \A i \in lagConfig.members : Attached(i) => Attached(i)'
    PROVE  LagInv'
<1>1. LagPending' = LagPending /\ SavedMembers' = SavedMembers /\ LagAlters' = LagAlters /\ LagWorks' = LagWorks
  BY DEF LagPending, SavedMembers, LagAlters, LagWorks
<1>2. LagTypeOK'
  BY DEF LagInv, LagTypeOK
<1>3. LagTodo'
  BY <1>1 DEF LagInv, LagTodo
<1>4. lagConfig.members \subseteq AllPorts /\ SavedMembers \subseteq AllPorts
  BY Standing DEF AllPorts
<1>5. LagProgress'
  <2>1. LagAlters => \A i \in lagConfig.members \ SavedMembers : port'[i].up \/ Cmd("up", i) \in LagPending
    BY <1>4 DEF LagInv, LagProgress
  <2>2. ASSUME LagAlters, LagMembers \notin LagPending, bond'.exists PROVE \A i \in lagOp.plan.members : Attached(i)'
    <3>1. lagOp.plan.members \subseteq lagConfig.members
      BY <2>2 DEF LagInv, LagTodo, LagAlters, LagWorks
    <3>2. \A i \in lagOp.plan.members : Attached(i)
      BY <2>2 DEF LagInv, LagProgress
    <3> QED BY <2>2, <3>1, <3>2
  <2>3. ASSUME lagOp.name = "applied", bond'.exists
        PROVE  lagSaved.members \subseteq lagConfig.members /\ \A i \in lagSaved.members : Attached(i)'
    BY <2>3 DEF LagInv, LagProgress
  <2> QED BY <1>1, <2>1, <2>2, <2>3 DEF LagProgress
<1>6. OneAddress'
  BY <1>1 DEF LagInv, OneAddress
<1> QED BY <1>2, <1>3, <1>5, <1>6 DEF LagInv

LEMMA LoseBondKeeps == LagInv /\ LoseBond => LagInv'
<1> SUFFICES ASSUME LagInv, LoseBond PROVE LagInv'
  OBVIOUS
<1>1. bond' = [exists |-> FALSE, addrs |-> {}] /\ port' = Unbound /\ UNCHANGED <<lagConfig, lagSaved, lagOp, otherLag>>
  BY DEF LoseBond
<1> QED BY <1>1, Unbinds, Standing, Around

LEMMA AttachForeignKeeps == LagInv /\ AttachForeign => LagInv'
<1> SUFFICES ASSUME LagInv, AttachForeign PROVE LagInv'
  OBVIOUS
<1> DEFINE type == [master : {ThisLag, OtherLag, LagNone}, up : BOOLEAN]
<1>1. /\ bond.exists /\ port[ForeignPort].master = LagNone
      /\ port' = [port EXCEPT ![ForeignPort].master = ThisLag] /\ UNCHANGED <<bond, lagConfig, lagSaved, lagOp, otherLag>>
  BY DEF AttachForeign
<1>2. port \in [AllPorts -> type] /\ ForeignPort \in AllPorts
  BY Standing DEF AllPorts
<1>3. /\ port' \in [AllPorts -> type] /\ port'[ForeignPort].up = port[ForeignPort].up
      /\ \A i \in AllPorts : i # ForeignPort => port'[i] = port[i]
  BY <1>1, <1>2
<1>4. port'[ForeignPort].master = ThisLag
  BY <1>1, <1>2
<1>5. LagPorts'
  <2>1. SavedMembers' = SavedMembers /\ \A i \in SavedMembers \cup lagConfig.members : i # ForeignPort /\ i \in AllPorts
    BY <1>1, Distinct, Standing DEF SavedMembers, AllPorts
  <2> QED BY <1>1, <1>3, <1>4, <2>1 DEF LagInv, LagPorts, Attached
<1>6. \A i \in lagConfig.members : Attached(i) => Attached(i)'
  <2>1. lagConfig.members \subseteq AllPorts
    BY Standing DEF AllPorts
  <2> QED BY <1>1, <1>3, <1>4, <2>1 DEF Attached
<1> QED BY <1>1, <1>3, <1>4, <1>5, <1>6, Standing, Distinct, Around

LEMMA OtherEnslavesKeeps ==
    ASSUME LagInv, NEW k \in Ports, OtherEnslaves(k)
    PROVE  LagInv'
<1> DEFINE type == [master : {ThisLag, OtherLag, LagNone}, up : BOOLEAN]
           r == [master |-> OtherLag, up |-> TRUE]
<1>1. k \notin lagConfig.members /\ port' = [port EXCEPT ![k] = r]
      /\ UNCHANGED <<bond, lagConfig, lagSaved, lagOp, otherLag>>
  BY DEF OtherEnslaves
<1>2. port \in [AllPorts -> type] /\ k \in AllPorts /\ r \in type /\ r.master = OtherLag /\ r.up = TRUE
  BY Standing DEF AllPorts
<1> HIDE DEF r
<1>3. port' \in [AllPorts -> type] /\ port'[k] = r /\ \A i \in AllPorts : i # k => port'[i] = port[i]
  BY <1>1, <1>2
<1>4. LagPorts'
  <2>1. SavedMembers' = SavedMembers /\ \A i \in SavedMembers : i \in AllPorts
    BY <1>1, Standing DEF SavedMembers, AllPorts
  <2> QED BY <1>1, <1>2, <1>3, <2>1, Distinct DEF LagInv, LagPorts, Attached
<1>5. \A i \in lagConfig.members : Attached(i) => Attached(i)'
  <2>1. lagConfig.members \subseteq AllPorts
    BY Standing DEF AllPorts
  <2> QED BY <1>1, <1>3, <2>1 DEF Attached
<1> QED BY <1>1, <1>2, <1>3, <1>4, <1>5, Standing, Around

LEMMA OtherPlansReleaseKeeps ==
    ASSUME LagInv, NEW k \in Ports, OtherPlansRelease(k)
    PROVE  LagInv'
<1>1. UNCHANGED <<bond, port, lagConfig, lagSaved, lagOp>> /\ otherLag' = [otherLag EXCEPT !.releases = @ \cup {k}]
  BY DEF OtherPlansRelease
<1>2. otherLag' \in [releases : SUBSET Ports, took : SUBSET Ports] /\ otherLag'.took = otherLag.took
  BY <1>1, Standing
<1>3. LagPorts'
  BY <1>1 DEF LagInv, LagPorts, SavedMembers, Attached
<1>4. \A i \in lagConfig.members : Attached(i) => Attached(i)'
  BY <1>1, <1>2 DEF Attached
<1> QED BY <1>1, <1>2, <1>3, <1>4, Standing, Around

LEMMA OtherReleasesKeeps ==
    ASSUME LagInv, NEW k \in Ports, OtherReleases(k)
    PROVE  LagInv'
<1> DEFINE type == [master : {ThisLag, OtherLag, LagNone}, up : BOOLEAN]
           r == [port[k] EXCEPT !.master = LagNone]
<1>1. UNCHANGED <<bond, lagConfig, lagSaved, lagOp>>
  BY DEF OtherReleases
<1>2. port \in [AllPorts -> type] /\ k \in AllPorts
  BY Standing DEF AllPorts
<1>3. r \in type /\ r.master = LagNone /\ r.up = port[k].up
  BY <1>2
<1> HIDE DEF r
<1>4. port' \in [AllPorts -> type] /\ \A i \in AllPorts : port'[i] = port[i] \/ (i = k /\ port'[i] = r)
  <2>1. port' = port \/ port' = [port EXCEPT ![k] = r]
    BY DEF OtherReleases, r
  <2> QED BY <1>2, <1>3, <2>1
<1> DEFINE mtype == [releases : SUBSET Ports, took : SUBSET Ports]
           fails == [otherLag EXCEPT !.releases = @ \ {k}]
           takes == [releases |-> otherLag.releases \ {k}, took |-> otherLag.took \cup ({k} \cap Current)]
<1>5. otherLag' \in mtype /\ otherLag.took \subseteq otherLag'.took
      /\ \A i \in otherLag'.took : Attached(i)
  <2>1. otherLag \in mtype
    BY Standing
  <2>2. fails \in mtype /\ fails.took = otherLag.took
    BY <2>1
  <2>3. takes \in mtype /\ takes.took = otherLag.took \cup ({k} \cap Current)
    BY <2>1
  <2>4. otherLag' \in {fails, takes}
    BY DEF OtherReleases
  <2> HIDE DEF fails, takes, mtype
  <2> QED BY <2>2, <2>3, <2>4 DEF Attached, Current
<1>6. \A i \in AllPorts : port[i].master = ThisLag => port'[i].master = ThisLag \/ i \in otherLag'.took
  <2>1. SUFFICES ASSUME NEW i \in AllPorts, port[i].master = ThisLag, port'[i] # port[i]
                 PROVE  i \in otherLag'.took
    OBVIOUS
  <2>2. i = k /\ k \in Current
    BY <1>2, <1>4, <2>1 DEF Current
  <2>3. otherLag' = [releases |-> otherLag.releases \ {k}, took |-> otherLag.took \cup ({k} \cap Current)]
    BY <2>1 DEF OtherReleases
  <2> QED BY <2>2, <2>3
<1>7. LagPorts'
  <2>1. SavedMembers' = SavedMembers /\ \A i \in SavedMembers : i \in AllPorts
    BY <1>1, Standing DEF SavedMembers, AllPorts
  <2>2. ASSUME NEW i \in SavedMembers, Attached(i)' PROVE port'[i].up
    <3>1. Attached(i)
      BY <1>3, <1>4, <1>5, <2>1, <2>2, Distinct DEF Attached
    <3> QED BY <1>3, <1>4, <2>1, <2>2, <3>1 DEF LagInv, LagPorts
  <2> QED BY <1>1, <1>3, <1>4, <2>1, <2>2, Distinct DEF LagInv, LagPorts
<1>8. \A i \in lagConfig.members : Attached(i) => Attached(i)'
  <2>1. lagConfig.members \subseteq AllPorts
    BY Standing DEF AllPorts
  <2> QED BY <1>5, <1>6, <2>1 DEF Attached
<1>9. \A i \in AllPorts : port[i].up => port'[i].up
  BY <1>3, <1>4
<1> QED BY <1>1, <1>4, <1>5, <1>7, <1>8, <1>9, Standing, Around

(* What an operation begins with. *)
LEMMA Begins ==
    ASSUME LagInv, LagIdle, UNCHANGED <<bond, port, lagConfig, lagSaved, otherLag>>,
           NEW n \in {"create", "read", "update"}, NEW q, NEW E, Runs(q, E), NEW m \in LagModels,
           lagOp' = [name |-> n, todo |-> q, plan |-> m],
           {LagShow, LagAddrs, LagMembers, LagToSave} \subseteq E,
           m.members \subseteq IF n = "read" THEN SavedMembers ELSE lagConfig.members,
           n = "read" => E \subseteq {LagShow, LagAddrs, LagMembers, LagToSave},
           \A c \in E :
             /\ c.cmd \in {"down", "enslave", "up", "release"} => c.arg \in Ports
             /\ c.cmd \in {"down", "enslave"} => c.arg \notin SavedMembers
             /\ c.cmd = "down" => Cmd("up", c.arg) \in E
             /\ c.cmd \in {"addr_add", "addr_del"} => c.arg \in LagAddresses
             /\ c.cmd \in {"show", "addrs", "members", "save"} => c.arg = LagNone,
           n # "read" => \A i \in lagConfig.members \ SavedMembers : Cmd("up", i) \in E,
           (\E c \in E : c.cmd = "addr_add") /\ (\A c \in E : c.cmd # "add")
             => \A a \in bond.addrs : Cmd("addr_del", a) \in E
    PROVE  LagInv'
<1>1. lagOp'.name = n /\ lagOp'.todo = q /\ lagOp'.plan = m
  OBVIOUS
<1>2. LagPending' = E /\ SavedMembers' = SavedMembers /\ q \in Seq(LagCmds) /\ Pairwise(LagOrder, q)
  BY <1>1 DEF LagPending, SavedMembers, Runs
<1>3. LagTypeOK'
  BY <1>1 DEF LagInv, LagTypeOK
<1>4. LagTodo'
  <2>1. lagOp' = [name |-> lagOp'.name, todo |-> lagOp'.todo, plan |-> lagOp'.plan]
    BY <1>1
  <2>2. \A c \in LagPending' :
         /\ c.cmd \in {"down", "enslave", "up", "release"} => c.arg \in Ports
         /\ c.cmd \in {"down", "enslave"} => c.arg \notin SavedMembers'
         /\ c.cmd = "down" => Cmd("up", c.arg) \in LagPending'
         /\ c.cmd \in {"addr_add", "addr_del"} => c.arg \in LagAddresses
         /\ c.cmd \in {"show", "addrs", "members", "save"} => c.arg = LagNone
    BY <1>2
  <2>3. LagAddrs \in LagPending' /\ LagMembers \in LagPending' /\ LagToSave \in LagPending'
    BY <1>2
  <2>4. lagOp'.plan.members \subseteq IF lagOp'.name = "read" THEN SavedMembers' ELSE lagConfig'.members
    BY <1>1, <1>2
  <2>5. lagOp'.name = "read" => LagPending' \subseteq {LagShow, LagAddrs, LagMembers, LagToSave}
    BY <1>1, <1>2
  <2> QED BY <1>1, <1>2, <2>1, <2>2, <2>3, <2>4, <2>5 DEF LagTodo
<1>5. LagPorts'
  BY <1>2 DEF LagInv, LagPorts, Attached
<1>6. LagProgress'
  BY <1>1, <1>2 DEF LagProgress, LagAlters
<1>7. OneAddress'
  BY <1>1, <1>2, Standing DEF OneAddress
<1> QED BY <1>3, <1>4, <1>5, <1>6, <1>7 DEF LagInv

LEMMA LagCreateKeeps == LagInv /\ LagCreate => LagInv'
<1> SUFFICES ASSUME LagInv, LagCreate PROVE LagInv'
  OBVIOUS
<1> DEFINE m == lagConfig
           E == CreateCmds(m)
           q == <<Cmd("add", LagNone), Cmd("set", LagNone)>> \o EnslaveAll(m.members)
                  \o AddAddress(m.addr) \o <<Cmd("set", LagNone)>> \o ReadBack \o <<Cmd("save", LagNone)>>
<1>1. LagIdle /\ UNCHANGED <<bond, port, lagConfig, lagSaved, otherLag>> /\ lagOp' = [name |-> "create", todo |-> q, plan |-> m]
  BY DEF LagCreate, LagBegin
<1>2. m \in LagModels /\ m.members \subseteq Ports /\ m.addr \in LagAddresses \cup {LagNone} /\ SavedMembers = {}
  BY Standing DEF LagModels, LagCreate, SavedMembers
<1>3. Runs(q, E)
  BY <1>2, CreateRuns
<1>4. {LagShow, LagAddrs, LagMembers, LagToSave} \subseteq E
  BY DEF CreateCmds, LastCmds
<1>5. ASSUME NEW c \in E PROVE
        /\ c.cmd \in {"down", "enslave", "up", "release"} => c.arg \in Ports
        /\ c.cmd \in {"down", "enslave"} => c.arg \notin SavedMembers
        /\ c.cmd = "down" => Cmd("up", c.arg) \in E
        /\ c.cmd \in {"addr_add", "addr_del"} => c.arg \in LagAddresses
        /\ c.cmd \in {"show", "addrs", "members", "save"} => c.arg = LagNone
  <2>1. CASE c \in EnslaveCmds(m.members)
    <3>1. PICK i \in m.members : c \in {Cmd("down", i), Cmd("enslave", i), Cmd("up", i)}
      BY <2>1 DEF EnslaveCmds
    <3>2. c.arg = i /\ c.cmd \in {"down", "enslave", "up"}
      BY <3>1 DEF Cmd
    <3>3. Cmd("up", i) \in E
      BY DEF CreateCmds, EnslaveCmds
    <3> QED BY <3>2, <3>3, <1>2
  <2>2. CASE c \in AddCmds(m.addr)
    BY <2>2, <1>2 DEF AddCmds, Cmd
  <2>3. CASE c \in {Cmd("add", LagNone)} \cup LastCmds
    <3>1. c.arg = LagNone /\ c.cmd \in {"add", "set", "show", "addrs", "members", "save"}
      BY <2>3 DEF LastCmds, LagSet, LagShow, LagAddrs, LagMembers, LagToSave, Cmd
    <3> QED BY <3>1
  <2> QED BY <2>1, <2>2, <2>3 DEF CreateCmds
<1>6. \A i \in m.members : Cmd("up", i) \in E
  BY DEF CreateCmds, EnslaveCmds
<1>7. \E c \in E : c.cmd = "add"
  <2>1. Cmd("add", LagNone) \in E
    BY DEF CreateCmds
  <2> QED BY <2>1, Names
<1> HIDE DEF q, E
<1> QED BY <1>1, <1>2, <1>3, <1>4, <1>5, <1>6, <1>7, Begins

LEMMA LagReadKeeps == LagInv /\ LagRead => LagInv'
<1> SUFFICES ASSUME LagInv, LagRead PROVE LagInv'
  OBVIOUS
<1> DEFINE E == {LagShow, LagAddrs, LagMembers, LagToSave}
           q == ReadBack \o <<Cmd("save", LagNone)>>
<1>1. /\ LagIdle /\ UNCHANGED <<bond, port, lagConfig, lagSaved, otherLag>> /\ lagSaved # LagNone
      /\ lagOp' = [name |-> "read", todo |-> q, plan |-> lagSaved]
  BY DEF LagRead, LagBegin
<1>2. lagSaved \in LagModels /\ lagSaved.members = SavedMembers
  BY <1>1, Standing DEF SavedMembers
<1>3. Runs(q, E)
  BY ReadsBack DEF LagToSave
<1>4. \A c \in E : c.cmd \in {"show", "addrs", "members", "save"} /\ c.arg = LagNone
  BY DEF LagShow, LagAddrs, LagMembers, LagToSave, Cmd
<1> HIDE DEF q
<1> QED BY <1>1, <1>2, <1>3, <1>4, Begins

LEMMA LagUpdateKeeps == LagInv /\ LagUpdate => LagInv'
<1> SUFFICES ASSUME LagInv, LagUpdate PROVE LagInv'
  OBVIOUS
<1> DEFINE old == lagSaved
           new == lagConfig
           E == UpdateCmds(old, new)
           q == <<Cmd("set", LagNone)>> \o ReconcileAddr(old.addr, new.addr)
                  \o ReleaseAll(old.members \ new.members) \o EnslaveAll(new.members \ old.members)
                  \o <<Cmd("set", LagNone)>> \o ReadBack \o <<Cmd("save", LagNone)>>
<1>1. /\ LagIdle /\ UNCHANGED <<bond, port, lagConfig, lagSaved, otherLag>> /\ lagSaved # LagNone /\ lagOp.name = "refreshed"
      /\ lagOp' = [name |-> "update", todo |-> q, plan |-> new]
  BY DEF LagUpdate, LagBegin
<1>2. /\ old \in LagModels /\ old.members = SavedMembers /\ new \in LagModels
      /\ old.members \subseteq Ports /\ new.members \subseteq Ports
      /\ old.addr \in LagAddresses \cup {LagNone} /\ new.addr \in LagAddresses \cup {LagNone}
  BY <1>1, Standing DEF SavedMembers, LagModels
<1>3. Runs(q, E)
  BY <1>2, UpdateRuns
<1>4. {LagShow, LagAddrs, LagMembers, LagToSave} \subseteq E
  BY DEF UpdateCmds, LastCmds
<1>5. ASSUME NEW c \in E PROVE
        /\ c.cmd \in {"down", "enslave", "up", "release"} => c.arg \in Ports
        /\ c.cmd \in {"down", "enslave"} => c.arg \notin SavedMembers
        /\ c.cmd = "down" => Cmd("up", c.arg) \in E
        /\ c.cmd \in {"addr_add", "addr_del"} => c.arg \in LagAddresses
        /\ c.cmd \in {"show", "addrs", "members", "save"} => c.arg = LagNone
  <2>1. CASE c \in EnslaveCmds(new.members \ old.members)
    <3>1. PICK i \in new.members \ old.members : c \in {Cmd("down", i), Cmd("enslave", i), Cmd("up", i)}
      BY <2>1 DEF EnslaveCmds
    <3>2. c.arg = i /\ c.cmd \in {"down", "enslave", "up"}
      BY <3>1 DEF Cmd
    <3>3. Cmd("up", i) \in E
      BY DEF UpdateCmds, EnslaveCmds
    <3> QED BY <3>2, <3>3, <1>2
  <2>2. CASE c \in ReleaseCmds(old.members \ new.members)
    BY <2>2, <1>2 DEF ReleaseCmds, Cmd
  <2>3. CASE c \in AddCmds(new.addr) \cup DelCmds(old.addr)
    BY <2>3, <1>2 DEF AddCmds, DelCmds, Cmd
  <2>4. CASE c \in LastCmds
    <3>1. c.arg = LagNone /\ c.cmd \in {"set", "show", "addrs", "members", "save"}
      BY <2>4 DEF LastCmds, LagSet, LagShow, LagAddrs, LagMembers, LagToSave, Cmd
    <3> QED BY <3>1
  <2> QED BY <2>1, <2>2, <2>3, <2>4 DEF UpdateCmds
<1>6. \A i \in new.members \ SavedMembers : Cmd("up", i) \in E
  BY <1>2 DEF UpdateCmds, EnslaveCmds
<1>7. (\E c \in E : c.cmd = "addr_add") => \A a \in bond.addrs : Cmd("addr_del", a) \in E
  <2>1. SUFFICES ASSUME NEW c \in E, c.cmd = "addr_add", NEW a \in bond.addrs PROVE Cmd("addr_del", a) \in E
    OBVIOUS
  <2>2. \A d \in EnslaveCmds(new.members \ old.members) \cup ReleaseCmds(old.members \ new.members) \cup LastCmds :
          d.cmd # "addr_add"
    BY Names DEF LastCmds
  <2>3. old.addr # new.addr
    BY <2>1, <2>2 DEF UpdateCmds
  <2>4. a = old.addr /\ a # LagNone
    BY <1>1, <2>1, Standing, Distinct DEF LagInv, OneAddress
  <2> QED BY <2>3, <2>4 DEF UpdateCmds, DelCmds
<1> HIDE DEF q, E, old, new
<1>8. new = lagConfig
  BY DEF new
<1> QED BY <1>1, <1>2, <1>3, <1>4, <1>5, <1>6, <1>7, <1>8, Begins

LEMMA LagDeleteKeeps == LagInv /\ LagDelete => LagInv'
<1> SUFFICES ASSUME LagInv, LagDelete PROVE LagInv'
  OBVIOUS
<1> DEFINE E == {Cmd("delete", LagNone), Cmd("remove", LagNone)}
           q == <<Cmd("delete", LagNone), Cmd("remove", LagNone)>>
<1>1. /\ LagIdle /\ UNCHANGED <<bond, port, lagConfig, lagSaved, otherLag>>
      /\ lagOp' = [name |-> "delete", todo |-> q, plan |-> lagSaved]
  BY DEF LagDelete, LagBegin
<1>2. Runs(q, E)
  BY DeleteRuns
<1>3. \A c \in E : c.cmd \in {"delete", "remove"}
  BY DEF Cmd
<1> HIDE DEF q
<1>4. lagOp'.name = "delete" /\ lagOp'.todo = q /\ lagOp'.plan = lagSaved
  BY <1>1
<1>5. LagPending' = E /\ SavedMembers' = SavedMembers /\ ~LagAlters' /\ ~LagWorks'
  BY <1>1, <1>2, <1>4 DEF LagPending, SavedMembers, Runs, LagAlters, LagWorks
<1>6. LagTypeOK'
  BY <1>1, <1>4 DEF LagInv, LagTypeOK
<1>7. LagTodo'
  <2>1. q \in Seq(LagCmds) /\ Pairwise(LagOrder, q)
    BY <1>2 DEF Runs
  <2>2. lagOp' = [name |-> lagOp'.name, todo |-> lagOp'.todo, plan |-> lagOp'.plan]
    BY <1>1, <1>4
  <2>3. \A c \in LagPending' : c.cmd \in {"delete", "remove"}
    BY <1>3, <1>5
  <2> HIDE DEF E
  <2>4. LagPending' \subseteq {Cmd("delete", LagNone), Cmd("remove", LagNone)}
    BY <1>5 DEF E
  <2> QED BY <1>4, <1>5, <2>1, <2>2, <2>3, <2>4 DEF LagTodo
<1>8. LagPorts'
  BY <1>1, <1>5 DEF LagInv, LagPorts, Attached
<1>9. LagProgress'
  BY <1>4, <1>5 DEF LagProgress
<1>10. OneAddress'
  BY <1>1, <1>3, <1>4, <1>5, Standing DEF OneAddress
<1> QED BY <1>6, <1>7, <1>8, <1>9, <1>10 DEF LagInv

LEMMA ReconfigureKeeps == LagInv /\ Reconfigure => LagInv'
<1> SUFFICES ASSUME LagInv, Reconfigure PROVE LagInv'
  OBVIOUS
<1>1. LagEnd("none") /\ lagConfig' \in LagConfigs /\ UNCHANGED <<bond, port, lagSaved, otherLag>>
  BY DEF Reconfigure
<1>2. LagPorts'
  BY <1>1 DEF LagInv, LagPorts, SavedMembers, Attached
<1> QED BY <1>1, <1>2, Standing, Stops

LEMMA LagInitHolds == LagInit => LagInv
<1> SUFFICES ASSUME LagInit PROVE LagInv
  OBVIOUS
<1>1. /\ lagOp = [name |-> "none", todo |-> <<>>, plan |-> LagNone] /\ lagSaved = LagNone /\ lagConfig \in LagConfigs
      /\ bond = [exists |-> FALSE, addrs |-> {}] /\ port = [i \in AllPorts |-> [master |-> LagNone, up |-> TRUE]]
      /\ otherLag = [releases |-> {}, took |-> {}]
  BY DEF LagInit
<1>2. LagPending = {} /\ SavedMembers = {} /\ ~LagAlters /\ ~LagWorks
  BY <1>1 DEF LagPending, SavedMembers, LagAlters, LagWorks, Elems
<1>3. LagTypeOK
  BY <1>1 DEF LagTypeOK
<1>4. LagTodo
  <2>1. <<>> \in Seq(LagCmds) /\ Pairwise(LagOrder, <<>>)
    BY DEF Pairwise
  <2> QED BY <1>1, <1>2, <2>1 DEF LagTodo
<1>5. LagPorts
  BY <1>1, <1>2, Distinct DEF LagPorts
<1>6. LagProgress
  BY <1>1, <1>2 DEF LagProgress
<1>7. OneAddress
  BY <1>1, <1>2 DEF OneAddress
<1> QED BY <1>3, <1>4, <1>5, <1>6, <1>7 DEF LagInv

LEMMA LagStep == LagInv /\ [LagNext]_lagVars => LagInv'
<1> SUFFICES ASSUME LagInv, [LagNext]_lagVars PROVE LagInv'
  OBVIOUS
<1>1. CASE UNCHANGED lagVars
  <2>1. /\ LagPending' = LagPending /\ SavedMembers' = SavedMembers /\ LagAlters' = LagAlters /\ LagWorks' = LagWorks
        /\ UNCHANGED <<bond, port, lagConfig, lagSaved, lagOp, otherLag>> /\ \A i : Attached(i)' <=> Attached(i)
    BY <1>1 DEF LagPending, Attached, SavedMembers, LagAlters, LagWorks, lagVars
  <2>2. LagTypeOK' /\ LagTodo'
    BY <2>1 DEF LagInv, LagTypeOK, LagTodo
  <2>3. LagPorts' /\ LagProgress' /\ OneAddress'
    BY <2>1 DEF LagInv, LagPorts, LagProgress, OneAddress, Attached
  <2> QED BY <2>2, <2>3 DEF LagInv
<1>2. CASE LagCreate \/ LagRead \/ LagUpdate \/ LagDelete
  BY <1>2, LagCreateKeeps, LagReadKeeps, LagUpdateKeeps, LagDeleteKeeps
<1>3. CASE LagFail \/ AddBond \/ SetLink \/ Enslave \/ ReleaseMember \/ ChangeAddress
  BY <1>3, LagFailKeeps, AddBondKeeps, SetLinkKeeps, EnslaveKeeps, ReleaseKeeps, ChangeAddressKeeps
<1>4. CASE BondMissing \/ ShowBond \/ ShowMembers \/ LagSave \/ DeleteBond \/ RemoveLag
  BY <1>4, ForgetsKeeps, ShowBondKeeps, ShowMembersKeeps, LagSaveKeeps, DeleteBondKeeps
<1>5. CASE Reconfigure \/ AttachForeign \/ LoseBond
  BY <1>5, ReconfigureKeeps, AttachForeignKeeps, LoseBondKeeps
<1>6. CASE \E i \in Ports : OtherEnslaves(i) \/ OtherPlansRelease(i) \/ OtherReleases(i)
  BY <1>6, OtherEnslavesKeeps, OtherPlansReleaseKeeps, OtherReleasesKeeps
<1> QED BY <1>1, <1>2, <1>3, <1>4, <1>5, <1>6 DEF LagNext

LEMMA LagSafe == LagSpec => []LagInv
BY LagInitHolds, LagStep, PTL DEF LagSpec

(* LagResource: the variables keep their types. *)
THEOREM LagTypes == LagSpec => []LagTypeOK
<1>1. LagInv => LagTypeOK
  BY DEF LagInv
<1> QED BY <1>1, LagSafe, PTL

(* LagResource: however often an update failed half way before, one that    *)
(* succeeds has brought the bond where the configuration says: one address, *)
(* every member up, and attached, but for those the release of another LAG *)
(* has taken off the bond since.                                           *)
THEOREM LagDone == LagSpec => []LagApplied
<1>1. LagInv => LagApplied
  <2> SUFFICES ASSUME LagInv, lagOp.name = "applied", bond.exists, lagSaved = lagConfig
               PROVE  /\ bond.addrs \subseteq {lagSaved.addr}
                      /\ \A i \in lagSaved.members :
                           (port[i].master = ThisLag \/ i \in otherLag.took) /\ port[i].up
    BY DEF LagApplied
  <2>1. bond.addrs \subseteq {lagSaved.addr} /\ SavedMembers = lagSaved.members
    BY DEF LagInv, OneAddress, SavedMembers
  <2>2. \A i \in lagSaved.members : port[i].master = ThisLag \/ i \in otherLag.took
    BY DEF LagInv, LagProgress, Attached
  <2> QED BY <2>1, <2>2 DEF LagInv, LagPorts, Attached
<1> QED BY <1>1, LagSafe, PTL

(* LagResource: no operation but the one that deletes the bond takes away   *)
(* what another resource attached to it.                                   *)
THEOREM ForeignStays == LagSpec => LagForeignStays
<1> DEFINE keeps == port[ForeignPort].master = ThisLag /\ port'[ForeignPort].master # ThisLag
                      => bond.exists /\ ~bond'.exists
<1>1. LagInv /\ [LagNext]_lagVars => [keeps]_lagVars
  <2> SUFFICES ASSUME LagInv, LagNext, port[ForeignPort].master = ThisLag, port'[ForeignPort].master # ThisLag
               PROVE  bond.exists /\ ~bond'.exists
    OBVIOUS
  <2>1. ForeignPort \in AllPorts /\ port \in [AllPorts -> [master : {ThisLag, OtherLag, LagNone}, up : BOOLEAN]]
        /\ bond.exists /\ ForeignPort \notin Ports
    BY Standing, Distinct DEF AllPorts, LagInv, LagPorts
  <2>2. CASE DeleteBond \/ LoseBond
    BY <2>1, <2>2 DEF DeleteBond, LoseBond
  <2>3. CASE Enslave \/ ReleaseMember
    <3>1. ~LagIdle /\ LagHead.cmd \in {"down", "enslave", "up", "release"} /\ LagArg = LagHead.arg
      BY <2>3 DEF Enslave, ReleaseMember, LagDo, LagHead, LagArg
    <3>2. LagHead \in LagPending
      BY <3>1, Doing
    <3>3. LagArg # ForeignPort
      BY <2>1, <3>1, <3>2 DEF LagInv, LagTodo
    <3>4. port'[ForeignPort] = port[ForeignPort]
      BY <2>1, <2>3, <3>3 DEF Enslave, ReleaseMember
    <3> QED BY <3>4
  <2>4. CASE AttachForeign
    BY <2>1, <2>4 DEF AttachForeign
  <2>5. CASE \E i \in Ports : OtherEnslaves(i) \/ OtherPlansRelease(i) \/ OtherReleases(i)
    <3>1. PICK i \in Ports : OtherEnslaves(i) \/ OtherPlansRelease(i) \/ OtherReleases(i)
      BY <2>5
    <3>2. port'[ForeignPort] = port[ForeignPort]
      BY <2>1, <3>1 DEF OtherEnslaves, OtherPlansRelease, OtherReleases
    <3> QED BY <3>2
  <2>6. CASE LagCreate \/ LagRead \/ LagUpdate \/ LagDelete \/ LagFail \/ AddBond \/ SetLink \/ ChangeAddress
             \/ BondMissing \/ ShowBond \/ ShowMembers \/ LagSave \/ RemoveLag \/ Reconfigure
    BY <2>6 DEF LagCreate, LagRead, LagUpdate, LagDelete, LagBegin, LagFail, AddBond, SetLink, ChangeAddress,
                BondMissing, ShowBond, ShowMembers, LagSave, RemoveLag, Reconfigure
  <2> QED BY <2>2, <2>3, <2>4, <2>5, <2>6 DEF LagNext
<1> QED BY <1>1, LagSafe, PTL DEF LagSpec, LagForeignStays

-----------------------------------------------------------------------------
(* The internet monitor.  The steps of a cycle: a ping follows a lookup.    *)
InetSteps == [cmd : {"bad", "dns", "icmp", "https"}, mode : {"system", "doh"}]
Looked(q) == \A k \in 1..Len(q) : q[k].cmd = "icmp" => k > 1 /\ q[k - 1].cmd = "dns"
Cycle     == Len(runCycle)

InetAsked   == {<<>>} \cup resolveSystem \cup resolveDoH
InetSamples == [seq : Nat, cmd : {"bad", "dns", "icmp", "https"}, mode : {"system", "doh"},
                out : SUBSET InetIPs, err : BOOLEAN, asked : InetAsked]

Recorded(k) ==
    LET s == inSamples[k]
    IN  /\ s.seq = (k - 1) \div Cycle
        /\ s.cmd = runCycle[((k - 1) % Cycle) + 1].cmd /\ s.mode = runCycle[((k - 1) % Cycle) + 1].mode
        /\ s.cmd = "icmp" => k > 1 /\ s.out = inSamples[k - 1].out
        /\ (s.cmd = "dns" /\ s.out = {} /\ ~s.err) => Answered(s.asked) = DOMAIN s.asked

(* What is left of the cycle is its end, and there is a sample for every    *)
(* step before it, of this cycle and of all the earlier ones.              *)
CycleInv ==
    /\ inTodo \in Seq(InetSteps) /\ Len(inTodo) <= Cycle
    /\ \A i \in 1..Len(inTodo) : inTodo[i] = runCycle[Cycle - Len(inTodo) + i]
    /\ inMain = "probing" => inSeq < MaxCycles /\ Len(inSamples) = inSeq * Cycle + (Cycle - Len(inTodo))
    /\ inMain \in {"waiting", "closed"} => inTodo = <<>> /\ Len(inSamples) = inSeq * Cycle

(* The goroutines that ping run in the step of the pings, one appends at a  *)
(* time to what the others found, and they ping what the lookup has told.  *)
PingInv ==
    /\ inMain \in {"probing", "waiting"} => \A ip \in InetIPs :
         inPings[ip] # "none" => inTodo # <<>> /\ Head(inTodo).cmd = "icmp" /\ ip \in inAddrs
    /\ \A ip \in InetIPs : inPings[ip] = "append" => inMutex = ip /\ inSeen[ip] = inBlocks
    /\ inBlocks = {ip \in InetIPs : inPings[ip] = "done"}
    /\ inTodo # <<>> /\ Head(inTodo).cmd = "icmp" => inSamples # <<>> /\ inSamples[Len(inSamples)].out = inAddrs

(* The file has the samples of the cycles up to the last that was flushed. *)
FlushInv ==
    /\ inMain \in {"probing", "waiting"} => inFlushed = (inSeq - (inSeq % inEvery)) * Cycle
    /\ inMain = "closed" => inFlushed = Len(inSamples)
    /\ inFlushed \in Nat /\ inFlushed <= Len(inSamples) /\ Len(inSamples) - inFlushed <= inEvery * Cycle

InetInv ==
    /\ InetTypeOK /\ inSamples \in Seq(InetSamples)
    /\ CycleInv /\ PingInv /\ FlushInv
    /\ \A k \in 1..Len(inSamples) : Recorded(k)

LEMMA InetStepsLooked ==
    ASSUME NEW mode \in {"system", "doh"}
    PROVE  InetRounds(mode) \in Seq(InetSteps) /\ Looked(InetRounds(mode)) /\ Len(InetRounds(mode)) = 3
<1> DEFINE q == InetRounds(mode)
<1>1. q \in Seq(InetSteps) /\ Len(q) = 3 /\ q[1].cmd = "dns" /\ q[2].cmd = "icmp" /\ q[3].cmd = "https"
  BY DEF InetRounds, InetSteps
<1> HIDE DEF q
<1>2. \A k \in 1..3 : k = 1 \/ k = 2 \/ k = 3
  OBVIOUS
<1>3. Looked(q)
  <2>1. ASSUME NEW k \in 1..3, q[k].cmd = "icmp" PROVE k > 1 /\ q[k - 1].cmd = "dns"
    <3>1. k = 2
      BY <1>1, <1>2, <2>1
    <3> QED BY <1>1, <3>1
  <2> QED BY <1>1, <2>1 DEF Looked
<1> QED BY <1>1, <1>3 DEF q

LEMMA LookedJoin ==
    ASSUME NEW p \in Seq(InetSteps), NEW q \in Seq(InetSteps), Looked(p), Looked(q)
    PROVE  p \o q \in Seq(InetSteps) /\ Looked(p \o q) /\ Len(p \o q) = Len(p) + Len(q)
<1> DEFINE r == p \o q
           m == Len(p)
           n == Len(q)
<1>1. r \in Seq(InetSteps) /\ Len(r) = m + n /\ m \in Nat /\ n \in Nat
  OBVIOUS
<1>2. (\A i \in 1..m : r[i] = p[i]) /\ (\A i \in 1..n : r[m + i] = q[i])
  OBVIOUS
<1>3. (\A k \in 1..m : p[k].cmd = "icmp" => k > 1 /\ p[k - 1].cmd = "dns")
      /\ (\A k \in 1..n : q[k].cmd = "icmp" => k > 1 /\ q[k - 1].cmd = "dns")
  BY DEF Looked
<1> HIDE DEF r, m, n
<1>4. ASSUME NEW k \in 1..(m + n), r[k].cmd = "icmp" PROVE k > 1 /\ r[k - 1].cmd = "dns"
  <2>1. CASE k <= m
    <3>1. k \in 1..m /\ (k > 1 => k - 1 \in 1..m)
      BY <1>1, <2>1
    <3>2. p[k].cmd = "icmp"
      BY <1>2, <1>4, <3>1
    <3> QED BY <1>2, <1>3, <3>1, <3>2
  <2>2. CASE ~(k <= m)
    <3>1. k - m \in 1..n /\ m + (k - m) = k
      BY <1>1, <2>2
    <3>2. q[k - m].cmd = "icmp"
      BY <1>2, <1>4, <3>1
    <3>3. k - m > 1 /\ q[(k - m) - 1].cmd = "dns"
      BY <1>3, <3>1, <3>2
    <3>4. (k - m) - 1 \in 1..n /\ m + ((k - m) - 1) = k - 1 /\ k > 1
      BY <1>1, <3>1, <3>3
    <3> QED BY <1>2, <3>3, <3>4
  <2> QED BY <2>1, <2>2
<1>5. Looked(r)
  BY <1>1, <1>4 DEF Looked
<1> QED BY <1>1, <1>5 DEF r, m, n

(* A destination that can be probed is, twice; another is written off.     *)
LEMMA Probes ==
    ASSUME NEW kind \in {"host", "bad"}
    PROVE  /\ probeDestination(kind) \in Seq(InetSteps) /\ Looked(probeDestination(kind))
           /\ Len(probeDestination(kind)) > 0
<1>1. CASE kind = "bad"
  <2> DEFINE q == probeDestination(kind)
  <2>1. q \in Seq(InetSteps) /\ Len(q) = 2 /\ q[1].cmd = "bad" /\ q[2].cmd = "bad"
    BY <1>1 DEF probeDestination, InetSteps
  <2> HIDE DEF q
  <2>2. \A k \in 1..2 : q[k].cmd # "icmp"
    <3>1. \A k \in 1..2 : k = 1 \/ k = 2
      OBVIOUS
    <3> QED BY <2>1, <3>1
  <2>3. Looked(q)
    BY <2>1, <2>2 DEF Looked
  <2> QED BY <2>1, <2>3 DEF q
<1>2. CASE kind = "host"
  <2>1. probeDestination(kind) = InetRounds("system") \o InetRounds("doh")
    BY <1>2 DEF probeDestination
  <2>2. /\ InetRounds("system") \in Seq(InetSteps) /\ Looked(InetRounds("system")) /\ Len(InetRounds("system")) = 3
        /\ InetRounds("doh") \in Seq(InetSteps) /\ Looked(InetRounds("doh")) /\ Len(InetRounds("doh")) = 3
    BY InetStepsLooked
  <2> QED BY <2>1, <2>2, LookedJoin
<1> QED BY <1>1, <1>2

LEMMA CycleFacts ==
    /\ runCycle \in Seq(InetSteps) /\ Cycle \in Nat \ {0}
    /\ \A k \in 1..Cycle : runCycle[k] \in InetSteps /\ (runCycle[k].cmd = "icmp" => k > 1 /\ runCycle[k - 1].cmd = "dns")
<1> DEFINE G  == {q \in Seq(InetSteps) : Looked(q) /\ Len(q) > 0}
           n  == Len(InetDests)
           qs == [k \in 1..n |-> probeDestination(InetDests[k])]
<1>1. n \in Nat /\ n # 0 /\ \A k \in 1..n : InetDests[k] \in {"host", "bad"}
  BY InetAssumption
<1>2. \A k \in 1..n : probeDestination(InetDests[k]) \in G
  BY <1>1, Probes
<1> HIDE DEF n
<1>3. qs \in Seq(G) /\ Len(qs) = n
  <2> HIDE DEF G
  <2>1. qs \in [1..n -> G] /\ DOMAIN qs = 1..n
    BY <1>2
  <2> HIDE DEF qs
  <2> QED BY <1>1, <2>1
<1>4. \A p, q \in G : p \o q \in G
  BY LookedJoin
<1>5. runCycle = FlattenSeq(qs)
  BY DEF runCycle, n
<1> HIDE DEF qs
<1>6. runCycle \in G
  <2> HIDE DEF G
  <2> QED BY <1>1, <1>3, <1>4, <1>5, FlattenedIn
<1>7. runCycle \in Seq(InetSteps) /\ Looked(runCycle) /\ Len(runCycle) > 0
  BY <1>6
<1> QED BY <1>7 DEF Looked, Cycle

LEMMA InetInitHolds == InetInit => InetInv
<1> SUFFICES ASSUME InetInit PROVE InetInv
  OBVIOUS
<1>1. runCycle \in Seq(InetSteps) /\ Len(runCycle) = Cycle /\ Cycle \in Nat \ {0}
      /\ (runCycle[1].cmd # "icmp") /\ Head(runCycle) = runCycle[1] /\ runCycle # <<>>
  <2>1. 1 \in 1..Cycle /\ Cycle \in Nat \ {0} /\ runCycle \in Seq(InetSteps)
    BY CycleFacts
  <2>2. runCycle[1].cmd # "icmp"
    BY <2>1, CycleFacts
  <2> QED BY <2>1, <2>2 DEF Cycle
<1>2. inEvery \in Nat \ {0}
  BY InetAssumption DEF InetInit
<1>3. /\ inMain = "probing" /\ inSeq = 0 /\ inTodo = runCycle /\ inAddrs = {} /\ inMutex = InetNobody /\ inBlocks = {}
      /\ inPings = [ip \in InetIPs |-> "none"] /\ inSeen = [ip \in InetIPs |-> {}]
      /\ inSamples = <<>> /\ inFlushed = 0 /\ inCtx = "live" /\ Len(inSamples) = 0
  BY DEF InetInit
<1>4. InetTypeOK
  BY <1>2, <1>3, InetAssumption DEF InetTypeOK
<1>5. CycleInv
  <2>1. \A c \in Nat : c <= c /\ c - c = 0 /\ \A i \in 1..c : c - c + i = i
    OBVIOUS
  <2>2. 0 * Cycle = 0
    BY <1>1
  <2>3. 0 < MaxCycles
    BY InetAssumption
  <2> QED BY <1>1, <1>3, <2>1, <2>2, <2>3 DEF CycleInv
<1>6. PingInv
  BY <1>1, <1>3 DEF PingInv
<1>7. FlushInv
  <2>1. 0 % inEvery = 0
    <3>1. (0 * inEvery + 0) % inEvery = 0
      BY <1>2, Divides
    <3>2. 0 * inEvery + 0 = 0
      BY <1>2
    <3> QED BY <3>1, <3>2
  <2>2. (0 - 0) * Cycle = 0 /\ inEvery * Cycle \in Nat
    BY <1>1, <1>2
  <2> QED BY <1>3, <2>1, <2>2 DEF FlushInv
<1> QED BY <1>3, <1>4, <1>5, <1>6, <1>7 DEF InetInv

(* How many samples a flush can leave out. *)
LEMMA FlushBound ==
    ASSUME NEW e \in Nat \ {0}, NEW c \in Nat \ {0}, NEW s \in Nat, NEW t \in 0..c
    PROVE  /\ (s - (s % e)) * c \in Nat /\ (s - (s % e)) * c <= s * c
           /\ (s * c + t) - (s - (s % e)) * c <= e * c
<1> DEFINE r == s % e
<1>1. r \in Nat /\ r < e /\ r <= s
  <2>1. r \in Nat /\ r < e /\ s \div e \in Nat /\ s = (s \div e) * e + r
    BY Division
  <2>2. (s \div e) * e \in Nat
    BY <2>1
  <2> HIDE DEF r
  <2> QED BY <2>1, <2>2
<1> HIDE DEF r
<1>2. (s - r) * c = s * c - r * c /\ s * c \in Nat /\ r * c \in Nat
  BY <1>1
<1>3. r * c <= s * c
  BY <1>1
<1>4. (r + 1) * c <= e * c /\ (r + 1) * c = r * c + c
  BY <1>1
<1>5. (s - r) * c \in Nat /\ (s - r) * c <= s * c
  BY <1>1, <1>2, <1>3
<1>6. (s * c + t) - (s - r) * c = r * c + t
  BY <1>2
<1>7. r * c + t <= e * c
  <2>1. t <= c /\ t \in Int /\ c \in Int /\ r * c \in Int /\ e * c \in Int
    BY <1>1
  <2> QED BY <1>4, <2>1
<1> QED BY <1>5, <1>6, <1>7 DEF r

LEMMA InetTypes ==
    ASSUME InetInv
    PROVE  /\ inEvery \in Nat \ {0} /\ inSeq \in Nat /\ Cycle \in Nat \ {0} /\ Len(inSamples) \in Nat
           /\ Len(inTodo) \in Nat /\ inTodo \in Seq(InetSteps) /\ inSamples \in Seq(InetSamples)
           /\ inMain = "probing" => Len(inSamples) = inSeq * Cycle + (Cycle - Len(inTodo))
BY CycleFacts DEF InetInv, InetTypeOK, CycleInv

(* A sample is written: it is the one of the step, and the step is over.   *)
LEMMA WriteKeeps ==
    ASSUME InetInv, inMain = "probing", inTodo # <<>>,
           NEW out \in SUBSET InetIPs, NEW err \in BOOLEAN, NEW asked \in InetAsked, writeSample(out, err, asked),
           inAddrs' \subseteq InetIPs, inMutex' \in InetIPs \cup {InetNobody},
           inPings' = [ip \in InetIPs |-> "none"], inBlocks' = {}, inSeen' \in [InetIPs -> SUBSET InetIPs],
           Head(inTodo).cmd = "icmp" => out = inAddrs,
           Head(inTodo).cmd = "dns" => inAddrs' = out /\ (out = {} /\ ~err => Answered(asked) = DOMAIN asked)
    PROVE  InetInv'
<1> DEFINE L == Len(inTodo)
           N == Len(inSamples)
           h == Head(inTodo)
           x == [seq |-> inSeq, cmd |-> h.cmd, mode |-> h.mode, out |-> out, err |-> err, asked |-> asked]
           t == Tail(inTodo)
           q == Append(inSamples, x)
<1>1. inSamples' = q /\ inTodo' = t /\ UNCHANGED <<inEvery, inMain, inSeq, inFlushed, inCtx>>
  BY DEF writeSample
<1>2. /\ inEvery \in Nat \ {0} /\ inSeq \in Nat /\ Cycle \in Nat \ {0} /\ N \in Nat
      /\ L \in Nat /\ inTodo \in Seq(InetSteps) /\ inSamples \in Seq(InetSamples)
      /\ N = inSeq * Cycle + (Cycle - L) /\ L # 0 /\ L <= Cycle
  BY InetTypes DEF InetInv, CycleInv
<1>3. h = inTodo[1] /\ h \in InetSteps /\ t \in Seq(InetSteps) /\ Len(t) = L - 1 /\ \A i \in 1..(L - 1) : t[i] = inTodo[i + 1]
  BY <1>2
<1>4. x \in InetSamples
  BY <1>2, <1>3 DEF InetSamples, InetSteps
<1>5. x.seq = inSeq /\ x.cmd = h.cmd /\ x.mode = h.mode /\ x.out = out /\ x.err = err /\ x.asked = asked
  OBVIOUS
<1> HIDE DEF x
<1>6. q \in Seq(InetSamples) /\ Len(q) = N + 1 /\ q[N + 1] = x /\ \A k \in 1..N : q[k] = inSamples[k]
  BY <1>2, <1>4
<1>7. /\ \A i \in 1..L : inTodo[i] = runCycle[Cycle - L + i]
      /\ \A k \in 1..N : Recorded(k)
      /\ h.cmd = "icmp" => N # 0 /\ inSamples[N].out = inAddrs
  <2>1. \A i \in 1..L : inTodo[i] = runCycle[Cycle - L + i]
    BY DEF InetInv, CycleInv
  <2>2. \A k \in 1..N : Recorded(k)
    BY DEF InetInv
  <2>3. h.cmd = "icmp" => inSamples # <<>> /\ inSamples[N].out = inAddrs
    BY DEF InetInv, PingInv
  <2>4. inSamples # <<>> => N # 0
    BY <1>2
  <2> QED BY <2>1, <2>2, <2>3, <2>4
<1> HIDE DEF L, N, t, q, h
<1> DEFINE j == Cycle - L
<1>8. j \in Nat /\ j < Cycle /\ N = inSeq * Cycle + j /\ j + 1 \in 1..Cycle /\ h = runCycle[j + 1] /\ (N + 1) - 1 = N
  <2>1. j \in Nat /\ j < Cycle /\ j + 1 \in 1..Cycle /\ 1 \in 1..L /\ (N + 1) - 1 = N
    BY <1>2
  <2> QED BY <1>2, <1>3, <1>7, <2>1
<1>9. N \div Cycle = inSeq /\ N % Cycle = j
  <2>1. j \in Nat /\ j < Cycle /\ N = inSeq * Cycle + j /\ inSeq \in Nat /\ Cycle \in Nat \ {0}
    BY <1>2, <1>8
  <2> HIDE DEF j
  <2>2. (inSeq * Cycle + j) \div Cycle = inSeq /\ (inSeq * Cycle + j) % Cycle = j
    BY <2>1, Divides
  <2> QED BY <2>1, <2>2
<1>10. ASSUME NEW k \in 1..(N + 1) PROVE Recorded(k)'
  <2>1. CASE k \in 1..N
    <3>1. Recorded(k) /\ q[k] = inSamples[k]
      BY <1>6, <1>7, <2>1
    <3>2. k > 1 => k - 1 \in 1..N
      BY <1>2, <2>1
    <3>3. k > 1 => q[k - 1] = inSamples[k - 1]
      BY <1>6, <3>2
    <3> QED BY <1>1, <3>1, <3>3 DEF Recorded
  <2>2. CASE k = N + 1
    <3>1. q[k] = x /\ k - 1 = N
      BY <1>2, <1>6, <1>8, <2>2
    <3>2. x.seq = N \div Cycle /\ x.cmd = runCycle[(N % Cycle) + 1].cmd /\ x.mode = runCycle[(N % Cycle) + 1].mode
      BY <1>5, <1>8, <1>9
    <3>3. x.cmd = "icmp" => k > 1 /\ x.out = q[N].out
      <4>1. SUFFICES ASSUME x.cmd = "icmp" PROVE k > 1 /\ x.out = q[N].out
        OBVIOUS
      <4>2. N # 0 /\ inSamples[N].out = inAddrs /\ out = inAddrs
        BY <1>5, <1>7, <4>1 DEF h
      <4>3. N \in 1..N /\ k > 1
        BY <1>2, <2>2, <4>2
      <4> QED BY <1>5, <1>6, <4>2, <4>3
    <3>4. (x.cmd = "dns" /\ x.out = {} /\ ~x.err) => Answered(x.asked) = DOMAIN x.asked
      BY <1>5 DEF h
    <3> QED BY <1>1, <3>1, <3>2, <3>3, <3>4 DEF Recorded
  <2>3. k \in 1..N \/ k = N + 1
    BY <1>2
  <2> QED BY <2>1, <2>2, <2>3
<1>11. CycleInv'
  <2>1. Len(t) <= Cycle /\ Len(t) = L - 1 /\ t \in Seq(InetSteps)
    BY <1>2, <1>3
  <2>2. ASSUME NEW i \in 1..(L - 1) PROVE t[i] = runCycle[Cycle - (L - 1) + i]
    <3>1. i + 1 \in 1..L /\ Cycle - L + (i + 1) = Cycle - (L - 1) + i
      BY <1>2, <2>2
    <3>2. inTodo[i + 1] = runCycle[Cycle - L + (i + 1)]
      BY <1>7, <3>1
    <3> QED BY <1>3, <3>1, <3>2
  <2>3. N + 1 = inSeq * Cycle + (Cycle - (L - 1))
    <3>1. inSeq * Cycle \in Nat
      BY <1>2
    <3> DEFINE z == inSeq * Cycle
    <3> HIDE DEF z
    <3>2. z \in Nat /\ N = z + (Cycle - L)
      BY <1>2, <3>1 DEF z
    <3>3. N + 1 = z + (Cycle - (L - 1))
      BY <1>2, <3>2
    <3> QED BY <3>3 DEF z
  <2>4. inSeq < MaxCycles
    BY DEF InetInv, CycleInv
  <2> QED BY <1>1, <1>6, <2>1, <2>2, <2>3, <2>4 DEF CycleInv
<1>12. PingInv'
  <2>1. \A ip \in InetIPs : inPings'[ip] = "none"
    OBVIOUS
  <2>2. ASSUME t # <<>>, Head(t).cmd = "icmp" PROVE q # <<>> /\ q[Len(q)].out = inAddrs'
    <3>1. Head(t) = t[1] /\ Len(t) # 0
      BY <1>3, <2>2
    <3>2. 1 \in 1..(L - 1) /\ 2 \in 1..L /\ 1 + 1 = 2 /\ j + 2 \in 1..Cycle /\ (j + 2) - 1 = j + 1 /\ Cycle - L + 2 = j + 2
      BY <1>2, <1>3, <3>1
    <3>3. t[1] = inTodo[2] /\ inTodo[2] = runCycle[j + 2]
      BY <1>3, <1>7, <3>2
    <3>4. runCycle[j + 1].cmd = "dns"
      BY <2>2, <3>1, <3>2, <3>3, CycleFacts
    <3>5. inAddrs' = out
      BY <1>8, <3>4 DEF h
    <3>6. q # <<>> /\ q[Len(q)] = x
      BY <1>2, <1>6
    <3> QED BY <1>5, <3>5, <3>6
  <2> QED BY <1>1, <2>1, <2>2 DEF PingInv
<1>13. FlushInv'
  <2>1. inFlushed = (inSeq - (inSeq % inEvery)) * Cycle /\ inFlushed \in Nat /\ inFlushed <= N
    BY DEF InetInv, FlushInv, N
  <2> DEFINE u == Cycle - (L - 1)
  <2>2. u \in 0..Cycle /\ N + 1 = inSeq * Cycle + u
    <3>1. u \in 0..Cycle
      BY <1>2
    <3> QED BY <1>1, <1>3, <1>6, <1>11, <3>1 DEF CycleInv
  <2> HIDE DEF u
  <2>3. (inSeq * Cycle + u) - (inSeq - (inSeq % inEvery)) * Cycle <= inEvery * Cycle
    BY <1>2, <2>2, FlushBound
  <2>4. (N + 1) - inFlushed <= inEvery * Cycle /\ inFlushed <= N + 1
    BY <1>2, <2>1, <2>2, <2>3
  <2> QED BY <1>1, <1>6, <2>1, <2>4 DEF FlushInv
<1>14. InetTypeOK'
  <2>1. inFlushed' \in 0..Len(inSamples')
    BY <1>1, <1>2, <1>6, <1>13 DEF FlushInv
  <2> QED BY <1>1, <2>1 DEF InetInv, InetTypeOK
<1> QED BY <1>1, <1>6, <1>10, <1>11, <1>12, <1>13, <1>14 DEF InetInv

(* The steps of the cycle. *)
LEMMA NoPings ==
    ASSUME InetInv, inMain \in {"probing", "waiting"}, inTodo = <<>> \/ Head(inTodo).cmd # "icmp"
    PROVE  inPings = [ip \in InetIPs |-> "none"] /\ inBlocks = {}
<1>1. \A ip \in InetIPs : inPings[ip] = "none"
  BY DEF InetInv, PingInv
<1>2. inPings = [ip \in InetIPs |-> inPings[ip]]
  BY DEF InetInv, InetTypeOK
<1> QED BY <1>1, <1>2 DEF InetInv, PingInv

LEMMA PingTypes ==
    ASSUME InetInv
    PROVE  /\ inAddrs \subseteq InetIPs /\ inBlocks \subseteq InetIPs /\ inMutex \in InetIPs \cup {InetNobody}
           /\ inSeen \in [InetIPs -> SUBSET InetIPs]
           /\ inPings \in [InetIPs -> {"none", "pinging", "pinged", "append", "done"}]
           /\ InetNobody \notin InetIPs
BY InetAssumption DEF InetInv, InetTypeOK, InetIPs

LEMMA BadDestinationKeeps == InetInv /\ BadDestination => InetInv'
<1> SUFFICES ASSUME InetInv, BadDestination PROVE InetInv'
  OBVIOUS
<1>1. inMain = "probing" /\ inTodo # <<>> /\ Head(inTodo).cmd = "bad" /\ writeSample({}, TRUE, <<>>)
      /\ UNCHANGED <<inAddrs, inPings, inMutex, inBlocks, inSeen>>
  BY DEF BadDestination, InetStep, inPingVars
<1>2. {} \in SUBSET InetIPs /\ TRUE \in BOOLEAN /\ <<>> \in InetAsked
  BY DEF InetAsked
<1>3. inPings = [ip \in InetIPs |-> "none"] /\ inBlocks = {}
  BY <1>1, NoPings
<1> QED BY <1>1, <1>2, <1>3, PingTypes, WriteKeeps

LEMMA RequestKeeps == InetInv /\ Request => InetInv'
<1> SUFFICES ASSUME InetInv, Request PROVE InetInv'
  OBVIOUS
<1>1. inMain = "probing" /\ inTodo # <<>> /\ Head(inTodo).cmd = "https" /\ writeSample(inAddrs, FALSE, <<>>)
      /\ UNCHANGED <<inAddrs, inPings, inMutex, inBlocks, inSeen>>
  BY DEF Request, InetStep, inPingVars
<1>2. inAddrs \in SUBSET InetIPs /\ FALSE \in BOOLEAN /\ <<>> \in InetAsked
  BY PingTypes DEF InetAsked
<1>3. inPings = [ip \in InetIPs |-> "none"] /\ inBlocks = {}
  BY <1>1, NoPings
<1> QED BY <1>1, <1>2, <1>3, PingTypes, WriteKeeps

(* What the queries can come back with, and the addresses in it. *)
LEMMA Queries ==
    ASSUME NEW rs \in resolveSystem \cup resolveDoH
    PROVE  uniqueSortedIPs(rs) \subseteq InetIPs /\ ResolveFails(rs) \in BOOLEAN
           /\ (uniqueSortedIPs(rs) = {} /\ ~ResolveFails(rs) => Answered(rs) = DOMAIN rs)
<1>1. \A k \in DOMAIN rs : rs[k] = InetFailed \/ rs[k] \subseteq InetIPs
  <2>1. CASE rs \in resolveSystem
    <3>1. PICK r \in {InetFailed, {InetV4}, InetIPs} : rs = <<r>>
      BY <2>1 DEF resolveSystem
    <3>2. \A k \in DOMAIN rs : rs[k] = r
      BY <3>1
    <3> QED BY <3>1, <3>2 DEF InetIPs
  <2>2. CASE rs \in resolveDoH
    <3>1. PICK a \in doHQuery(InetV4), b \in doHQuery(InetV6) : rs = <<a, b>>
      BY <2>2 DEF resolveDoH
    <3>2. \A k \in DOMAIN rs : rs[k] = a \/ rs[k] = b
      BY <3>1
    <3> QED BY <3>1, <3>2 DEF InetIPs, doHQuery
  <2> QED BY <2>1, <2>2
<1>2. uniqueSortedIPs(rs) \subseteq InetIPs
  BY <1>1 DEF uniqueSortedIPs, Answered
<1> QED BY <1>2 DEF ResolveFails

LEMMA ResolveKeeps == InetInv /\ Resolve => InetInv'
<1> SUFFICES ASSUME InetInv, Resolve PROVE InetInv'
  OBVIOUS
<1>1. PICK rs \in IF inCtx = "cancelled"
                  THEN {IF Head(inTodo).mode = "system" THEN <<InetFailed>> ELSE <<InetFailed, InetFailed>>}
                  ELSE IF Head(inTodo).mode = "system" THEN resolveSystem ELSE resolveDoH :
          /\ inAddrs' = uniqueSortedIPs(rs)
          /\ writeSample(uniqueSortedIPs(rs), ResolveFails(rs), rs)
  BY DEF Resolve
<1>2. inMain = "probing" /\ inTodo # <<>> /\ Head(inTodo).cmd = "dns"
      /\ UNCHANGED <<inPings, inMutex, inBlocks, inSeen>>
  BY DEF Resolve, InetStep, inPingVars
<1>3. rs \in resolveSystem \cup resolveDoH
  <2>1. <<InetFailed>> \in resolveSystem /\ <<InetFailed, InetFailed>> \in resolveDoH
    BY DEF resolveSystem, resolveDoH, doHQuery
  <2> QED BY <1>1, <2>1
<1>4. uniqueSortedIPs(rs) \in SUBSET InetIPs /\ ResolveFails(rs) \in BOOLEAN /\ rs \in InetAsked
      /\ (uniqueSortedIPs(rs) = {} /\ ~ResolveFails(rs) => Answered(rs) = DOMAIN rs)
  BY <1>3, Queries DEF InetAsked
<1>5. inPings = [ip \in InetIPs |-> "none"] /\ inBlocks = {}
  BY <1>2, NoPings
<1>6. inAddrs' \subseteq InetIPs
  BY <1>1, <1>4
<1> DEFINE out == uniqueSortedIPs(rs)
           err == ResolveFails(rs)
<1>7. /\ out \in SUBSET InetIPs /\ err \in BOOLEAN /\ writeSample(out, err, rs) /\ inAddrs' = out
      /\ (out = {} /\ ~err => Answered(rs) = DOMAIN rs)
  BY <1>1, <1>4
<1> HIDE DEF out, err
<1> QED BY <1>2, <1>4, <1>5, <1>6, <1>7, PingTypes, WriteKeeps

LEMMA PingsDoneKeeps == InetInv /\ PingsDone => InetInv'
<1> SUFFICES ASSUME InetInv, PingsDone PROVE InetInv'
  OBVIOUS
<1>1. /\ inMain = "probing" /\ inTodo # <<>> /\ Head(inTodo).cmd = "icmp" /\ writeSample(inBlocks, FALSE, <<>>)
      /\ \A ip \in inAddrs : inPings[ip] = "done"
      /\ inPings' = [ip \in InetIPs |-> "none"] /\ inBlocks' = {} /\ inSeen' = [ip \in InetIPs |-> {}]
      /\ UNCHANGED <<inAddrs, inMutex>>
  BY DEF PingsDone, InetStep
<1>2. inBlocks \in SUBSET InetIPs /\ FALSE \in BOOLEAN /\ <<>> \in InetAsked
  BY PingTypes DEF InetAsked
<1>3. inBlocks = inAddrs
  <2>1. inBlocks = {ip \in InetIPs : inPings[ip] = "done"} /\ \A ip \in InetIPs : inPings[ip] # "none" => ip \in inAddrs
    BY <1>1 DEF InetInv, PingInv
  <2> QED BY <1>1, <2>1, PingTypes
<1>4. inSeen' \in [InetIPs -> SUBSET InetIPs]
  BY <1>1
<1> QED BY <1>1, <1>2, <1>3, <1>4, PingTypes, WriteKeeps

(* A goroutine takes a step: nothing is written. *)
LEMMA PingKeeps ==
    ASSUME InetInv, UNCHANGED <<inEvery, inMain, inSeq, inTodo, inAddrs, inSamples, inFlushed, inCtx>>,
           inMain = "probing", inTodo # <<>>, Head(inTodo).cmd = "icmp",
           inBlocks' \subseteq InetIPs, inMutex' \in InetIPs \cup {InetNobody}, inSeen' \in [InetIPs -> SUBSET InetIPs],
           inPings' \in [InetIPs -> {"none", "pinging", "pinged", "append", "done"}],
           \A ip \in InetIPs : inPings'[ip] # "none" => ip \in inAddrs,
           \A ip \in InetIPs : inPings'[ip] = "append" => inMutex' = ip /\ inSeen'[ip] = inBlocks',
           inBlocks' = {ip \in InetIPs : inPings'[ip] = "done"}
    PROVE  InetInv'
<1>1. InetTypeOK'
  BY DEF InetInv, InetTypeOK
<1>2. PingInv'
  BY DEF InetInv, PingInv
<1>3. CycleInv' /\ FlushInv'
  BY DEF InetInv, CycleInv, FlushInv
<1>4. \A k \in 1..Len(inSamples) : Recorded(k)'
  BY DEF InetInv, Recorded
<1> QED BY <1>1, <1>2, <1>3, <1>4 DEF InetInv

(* There is a goroutine only in the step of the pings. *)
LEMMA Pinging ==
    ASSUME InetInv, inMain = "probing", NEW ip \in InetIPs, inPings[ip] # "none"
    PROVE  inTodo # <<>> /\ Head(inTodo).cmd = "icmp" /\ ip \in inAddrs
BY DEF InetInv, PingInv

LEMMA StartPingsKeeps == InetInv /\ StartPings => InetInv'
<1> SUFFICES ASSUME InetInv, StartPings PROVE InetInv'
  OBVIOUS
<1>1. /\ inMain = "probing" /\ inTodo # <<>> /\ Head(inTodo).cmd = "icmp" /\ \A ip \in InetIPs : inPings[ip] = "none"
      /\ inPings' = [ip \in InetIPs |-> IF ip \in inAddrs THEN "pinging" ELSE "none"]
      /\ UNCHANGED <<inEvery, inMain, inSeq, inTodo, inAddrs, inMutex, inBlocks, inSeen, inSamples, inFlushed, inCtx>>
  BY DEF StartPings, InetStep
<1>2. inBlocks = {}
  BY <1>1 DEF InetInv, PingInv
<1>3. \A ip \in InetIPs : inPings'[ip] \in {"pinging", "none"} /\ (inPings'[ip] # "none" => ip \in inAddrs)
  BY <1>1
<1>4. inPings' \in [InetIPs -> {"none", "pinging", "pinged", "append", "done"}]
  BY <1>1
<1> QED BY <1>1, <1>2, <1>3, <1>4, PingTypes, PingKeeps

LEMMA PingStepKeeps ==
    ASSUME InetInv, NEW p \in InetIPs, pingOne(p) \/ LockBlocks(p) \/ AppendBlock(p)
    PROVE  InetInv'
<1>0. /\ inBlocks = {ip \in InetIPs : inPings[ip] = "done"}
      /\ \A ip \in InetIPs : inPings[ip] = "append" => inMutex = ip /\ inSeen[ip] = inBlocks
  BY DEF InetInv, PingInv
<1>1. inMain = "probing" /\ inPings[p] # "none"
      /\ UNCHANGED <<inEvery, inMain, inSeq, inTodo, inAddrs, inSamples, inFlushed, inCtx>>
  BY DEF pingOne, LockBlocks, AppendBlock
<1>2. inTodo # <<>> /\ Head(inTodo).cmd = "icmp" /\ \A ip \in InetIPs : inPings[ip] # "none" => ip \in inAddrs
  BY <1>1, Pinging
<1>3. CASE pingOne(p)
  <2>1. inPings[p] = "pinging" /\ inPings' = [inPings EXCEPT ![p] = "pinged"] /\ UNCHANGED <<inMutex, inBlocks, inSeen>>
    BY <1>3 DEF pingOne
  <2>2. inPings' \in [InetIPs -> {"none", "pinging", "pinged", "append", "done"}] /\ inPings'[p] = "pinged"
        /\ \A ip \in InetIPs : ip # p => inPings'[ip] = inPings[ip]
    BY <2>1, PingTypes
  <2> QED BY <1>0, <1>1, <1>2, <2>1, <2>2, PingTypes, PingKeeps
<1>4. CASE LockBlocks(p)
  <2>1. /\ inPings[p] = "pinged" /\ inMutex = InetNobody /\ inMutex' = p /\ inSeen' = [inSeen EXCEPT ![p] = inBlocks]
        /\ inPings' = [inPings EXCEPT ![p] = "append"] /\ UNCHANGED inBlocks
    BY <1>4 DEF LockBlocks
  <2>2. inPings' \in [InetIPs -> {"none", "pinging", "pinged", "append", "done"}] /\ inPings'[p] = "append"
        /\ \A ip \in InetIPs : ip # p => inPings'[ip] = inPings[ip]
    BY <2>1, PingTypes
  <2>3. inSeen' \in [InetIPs -> SUBSET InetIPs] /\ inSeen'[p] = inBlocks
    BY <2>1, PingTypes
  <2>4. \A ip \in InetIPs : inPings[ip] # "append"
    BY <1>0, <2>1, PingTypes
  <2>5. \A ip \in InetIPs : inPings'[ip] = "append" => inMutex' = ip /\ inSeen'[ip] = inBlocks'
    BY <2>1, <2>2, <2>3, <2>4
  <2> QED BY <1>0, <1>1, <1>2, <2>1, <2>2, <2>3, <2>5, PingTypes, PingKeeps
<1>5. CASE AppendBlock(p)
  <2>1. /\ inPings[p] = "append" /\ inBlocks' = inSeen[p] \cup {p} /\ inMutex' = InetNobody
        /\ inPings' = [inPings EXCEPT ![p] = "done"] /\ UNCHANGED inSeen
    BY <1>5 DEF AppendBlock
  <2>2. inPings' \in [InetIPs -> {"none", "pinging", "pinged", "append", "done"}] /\ inPings'[p] = "done"
        /\ \A ip \in InetIPs : ip # p => inPings'[ip] = inPings[ip]
    BY <2>1, PingTypes
  <2>3. \A ip \in InetIPs : inPings'[ip] # "append"
    BY <1>0, <2>1, <2>2
  <2>4. inBlocks' = inBlocks \cup {p}
    BY <1>0, <2>1
  <2>5. inBlocks' = {ip \in InetIPs : inPings'[ip] = "done"}
    BY <1>0, <2>2, <2>4
  <2> QED BY <1>1, <1>2, <2>1, <2>2, <2>3, <2>4, <2>5, PingTypes, PingKeeps
<1> QED BY <1>3, <1>4, <1>5

(* The main loop. *)
LEMMA EndCycleKeeps == InetInv /\ EndCycle => InetInv'
<1> SUFFICES ASSUME InetInv, EndCycle PROVE InetInv'
  OBVIOUS
<1> DEFINE N == Len(inSamples)
           s == inSeq
           e == inEvery
<1>1. /\ inMain = "probing" /\ inTodo = <<>> /\ inMain' = "waiting" /\ inSeq' = s + 1
      /\ inFlushed' = (IF (s + 1) % e = 0 THEN N ELSE inFlushed)
      /\ UNCHANGED <<inEvery, inTodo, inAddrs, inPings, inMutex, inBlocks, inSeen, inSamples, inCtx>>
  BY DEF EndCycle, Flushes, inPingVars
<1>2. e \in Nat \ {0} /\ s \in Nat /\ Cycle \in Nat \ {0} /\ N \in Nat /\ N = s * Cycle + (Cycle - Len(inTodo)) /\ Len(inTodo) = 0
  BY <1>1, InetTypes
<1>3. inFlushed = (s - (s % e)) * Cycle /\ inFlushed \in Nat /\ inFlushed <= N /\ N - inFlushed <= e * Cycle
  BY <1>1 DEF InetInv, FlushInv
<1> HIDE DEF N, s, e
<1>4. N = (s + 1) * Cycle
  <2>1. s * Cycle \in Nat /\ (s + 1) * Cycle = s * Cycle + Cycle
    BY <1>2
  <2>2. Cycle - Len(inTodo) = Cycle
    BY <1>2
  <2> QED BY <1>2, <2>1, <2>2
<1>5. inFlushed' = ((s + 1) - ((s + 1) % e)) * Cycle
  <2>1. CASE (s + 1) % e = 0
    <3>1. ((s + 1) - ((s + 1) % e)) = s + 1
      BY <1>2, <2>1
    <3> QED BY <1>1, <1>4, <2>1, <3>1
  <2>2. CASE (s + 1) % e # 0
    <3>1. (s + 1) % e = (s % e) + 1
      BY <1>2, <2>2, NextMod
    <3>2. s % e \in Nat
      BY <1>2, Division
    <3>3. (s + 1) - ((s + 1) % e) = s - (s % e)
      BY <1>2, <3>1, <3>2
    <3> QED BY <1>1, <1>3, <2>2, <3>3
  <2> QED BY <2>1, <2>2
<1>6. inFlushed' \in Nat /\ inFlushed' <= N /\ N - inFlushed' <= e * Cycle
  <2>1. e * Cycle \in Nat
    BY <1>2
  <2> QED BY <1>1, <1>2, <1>3, <2>1
<1>7. inSeq' \in 0..MaxCycles
  <2>1. s < MaxCycles /\ MaxCycles \in Nat
    BY <1>1, InetAssumption DEF InetInv, CycleInv, s
  <2> QED BY <1>1, <1>2, <2>1
<1>8. InetTypeOK'
  <2>1. inFlushed' \in 0..N
    BY <1>2, <1>6
  <2> QED BY <1>1, <1>7, <2>1 DEF InetInv, InetTypeOK, N
<1>9. CycleInv'
  BY <1>1, <1>2, <1>4 DEF InetInv, CycleInv, N
<1>10. PingInv'
  BY <1>1 DEF InetInv, PingInv
<1>11. FlushInv'
  BY <1>1, <1>5, <1>6 DEF FlushInv, N, e
<1>12. \A k \in 1..Len(inSamples) : Recorded(k)'
  BY <1>1 DEF InetInv, Recorded
<1> QED BY <1>1, <1>8, <1>9, <1>10, <1>11, <1>12 DEF InetInv

LEMMA BeginCycleKeeps == InetInv /\ BeginCycle => InetInv'
<1> SUFFICES ASSUME InetInv, BeginCycle PROVE InetInv'
  OBVIOUS
<1>1. /\ inMain = "waiting" /\ inSeq < MaxCycles /\ inMain' = "probing" /\ inTodo' = runCycle
      /\ UNCHANGED <<inEvery, inSeq, inAddrs, inPings, inMutex, inBlocks, inSeen, inSamples, inFlushed, inCtx>>
  BY DEF BeginCycle, inPingVars
<1>2. /\ inSeq \in Nat /\ Cycle \in Nat \ {0} /\ Len(runCycle) = Cycle /\ runCycle \in Seq(InetSteps)
      /\ inTodo = <<>> /\ Len(inSamples) = inSeq * Cycle
  BY <1>1, InetTypes, CycleFacts DEF InetInv, CycleInv, Cycle
<1>3. runCycle # <<>> /\ Head(runCycle).cmd # "icmp"
  <2>1. 1 \in 1..Cycle /\ Head(runCycle) = runCycle[1] /\ runCycle # <<>>
    BY <1>2
  <2>2. runCycle[1].cmd # "icmp"
    BY <2>1, CycleFacts
  <2> QED BY <2>1, <2>2
<1>4. InetTypeOK'
  BY <1>1 DEF InetInv, InetTypeOK
<1>5. CycleInv'
  <2>1. Cycle <= Cycle /\ Cycle - Cycle = 0 /\ inSeq * Cycle + 0 = inSeq * Cycle /\ \A i \in 1..Cycle : 0 + i = i
    BY <1>2
  <2>2. \A i \in 1..Cycle : Cycle - Cycle + i = i
    BY <2>1
  <2> QED BY <1>1, <1>2, <2>1, <2>2 DEF CycleInv
<1>6. PingInv'
  BY <1>1, <1>2, <1>3 DEF InetInv, PingInv
<1>7. FlushInv'
  BY <1>1 DEF InetInv, FlushInv
<1>8. \A k \in 1..Len(inSamples) : Recorded(k)'
  BY <1>1 DEF InetInv, Recorded
<1> QED BY <1>1, <1>4, <1>5, <1>6, <1>7, <1>8 DEF InetInv

LEMMA InetEndsKeep == InetInv /\ (InetClose \/ InetKilled \/ InetSignal \/ UNCHANGED inVars) => InetInv'
<1> SUFFICES ASSUME InetInv, InetClose \/ InetKilled \/ InetSignal \/ UNCHANGED inVars PROVE InetInv'
  OBVIOUS
<1>1. UNCHANGED <<inEvery, inSeq, inTodo, inAddrs, inPings, inMutex, inBlocks, inSeen, inSamples>>
  BY DEF InetClose, InetKilled, InetSignal, inPingVars, inVars
<1>2. inCtx' \in {inCtx, "cancelled"}
  BY DEF InetClose, InetKilled, InetSignal, inVars
<1>3. \/ inMain' = inMain /\ inFlushed' = inFlushed
      \/ inMain' = "killed" /\ inFlushed' = inFlushed
      \/ inMain = "waiting" /\ inMain' = "closed" /\ inFlushed' = Len(inSamples)
  BY DEF InetClose, InetKilled, InetSignal, inVars
<1>4. Len(inSamples) \in Nat /\ inEvery * Cycle \in Nat /\ Len(inSamples) - Len(inSamples) = 0
  BY InetTypes
<1>5. InetTypeOK'
  BY <1>1, <1>2, <1>3, <1>4 DEF InetInv, InetTypeOK
<1>6. CycleInv'
  BY <1>1, <1>3 DEF InetInv, CycleInv
<1>7. PingInv'
  BY <1>1, <1>3 DEF InetInv, PingInv
<1>8. FlushInv'
  BY <1>1, <1>3, <1>4 DEF InetInv, FlushInv
<1>9. \A k \in 1..Len(inSamples) : Recorded(k)'
  BY <1>1 DEF InetInv, Recorded
<1> QED BY <1>1, <1>5, <1>6, <1>7, <1>8, <1>9 DEF InetInv

LEMMA InetStepKeeps == InetInv /\ [InetNext]_inVars => InetInv'
<1> SUFFICES ASSUME InetInv, [InetNext]_inVars PROVE InetInv'
  OBVIOUS
<1>1. CASE InetSignal \/ InetKilled \/ InetClose \/ UNCHANGED inVars
  BY <1>1, InetEndsKeep
<1>2. CASE BadDestination \/ Resolve \/ StartPings \/ PingsDone \/ Request
  BY <1>2, BadDestinationKeeps, ResolveKeeps, StartPingsKeeps, PingsDoneKeeps, RequestKeeps
<1>3. CASE \E ip \in InetIPs : pingOne(ip) \/ LockBlocks(ip) \/ AppendBlock(ip)
  BY <1>3, PingStepKeeps
<1>4. CASE EndCycle \/ BeginCycle
  BY <1>4, EndCycleKeeps, BeginCycleKeeps
<1> QED BY <1>1, <1>2, <1>3, <1>4 DEF InetNext

LEMMA InetSafe == InetSpec => []InetInv
BY InetInitHolds, InetStepKeeps, PTL DEF InetSpec

(* InternetMonitor: the samples are those of whole cycles in order, a ping  *)
(* sample tells of every address that was found, a name without addresses  *)
(* is an error unless every query was answered, a program that ended has    *)
(* written all of it and one that was killed loses flush_every_n cycles.   *)
THEOREM RecordsWhole == InetSpec => []InetRecordsWhole
<1>1. InetInv => InetRecordsWhole
  <2> SUFFICES ASSUME InetInv PROVE InetRecordsWhole
    OBVIOUS
  <2> DEFINE n == Len(runCycle)
  <2>1. DOMAIN inSamples = 1..Len(inSamples) /\ n = Cycle /\ \A k \in 1..Len(inSamples) : Recorded(k)
    BY InetTypes DEF InetInv, Cycle
  <2>2. ASSUME NEW k \in DOMAIN inSamples
        PROVE  /\ inSamples[k].seq = (k - 1) \div n
               /\ inSamples[k].cmd = runCycle[((k - 1) % n) + 1].cmd
               /\ inSamples[k].mode = runCycle[((k - 1) % n) + 1].mode
               /\ inSamples[k].cmd = "icmp" => inSamples[k].out = inSamples[k - 1].out
               /\ (inSamples[k].cmd = "dns" /\ inSamples[k].out = {} /\ ~inSamples[k].err)
                    => Answered(inSamples[k].asked) = DOMAIN inSamples[k].asked
    <3>1. Recorded(k)
      BY <2>1, <2>2
    <3> QED BY <2>1, <3>1 DEF Recorded
  <2>3. inMain = "closed" => inFlushed = Len(inSamples) /\ Len(inSamples) % n = 0
    <3>1. SUFFICES ASSUME inMain = "closed" PROVE inFlushed = Len(inSamples) /\ Len(inSamples) % Cycle = 0
      BY <2>1
    <3>2. inFlushed = Len(inSamples) /\ Len(inSamples) = inSeq * Cycle /\ inSeq \in Nat /\ Cycle \in Nat \ {0}
      BY <3>1, InetTypes DEF InetInv, FlushInv, CycleInv
    <3>3. (inSeq * Cycle + 0) % Cycle = 0 /\ inSeq * Cycle + 0 = inSeq * Cycle
      BY <3>2, Divides
    <3> QED BY <3>2, <3>3
  <2>4. Len(inSamples) - inFlushed <= inEvery * n
    BY <2>1 DEF InetInv, FlushInv
  <2> HIDE DEF n
  <2>5. n = Len(runCycle)
    BY DEF n
  <2> QED BY <2>2, <2>3, <2>4, <2>5 DEF InetRecordsWhole
<1> QED BY <1>1, InetSafe, PTL
=============================================================================
