----------------------------- MODULE DataLemmas -----------------------------
(***************************************************************************)
(* Induction for the data of the models.  A set of natural numbers that is *)
(* not empty has a least element, so a set that holds 0 and with every     *)
(* number the next one holds them all: that is all the proofs about        *)
(* recursive functions need, each with a set of its own.  And what the     *)
(* operators of the community modules used by the models give: the least   *)
(* and the greatest of a set, the list of a set, the parts of a sequence,  *)
(* a flattened one.                                                        *)
(***************************************************************************)
EXTENDS Integers, Sequences, FiniteSets, SequencesExt, FiniteSetsExt,
        FiniteSetTheorems, SequenceTheorems, WellFoundedInduction, TLAPS

LEMMA LeastOfSet ==
    ASSUME NEW T, T \subseteq Nat, T # {}
    PROVE  \E m \in T : \A k \in T : m <= k
<1> DEFINE R == OpToRel(<, Nat)
<1>1. IsWellFoundedOn(R, Nat)
  BY NatLessThanWellFounded
<1>2. \A j, k \in Nat : j < k => <<j, k>> \in R
  BY DEF OpToRel
<1> HIDE DEF R
<1>3. PICK m \in T : \A k \in T : ~ (<<k, m>> \in R)
  BY <1>1, WFMin
<1>4. \A k \in T : k \in Nat /\ m \in Nat /\ ~(k < m)
  BY <1>2, <1>3
<1>5. \A k \in T : m <= k
  BY <1>4
<1> QED
  BY <1>5

LEMMA SetInduction ==
    ASSUME NEW S, 0 \in S, \A n \in Nat : n \in S => n + 1 \in S
    PROVE  Nat \subseteq S
<1> SUFFICES ASSUME Nat \ S # {} PROVE FALSE
  OBVIOUS
<1>1. PICK m \in Nat \ S : \A k \in Nat \ S : m <= k
  BY LeastOfSet
<1>2. m # 0 /\ m - 1 \in Nat
  BY <1>1
<1>3. m - 1 \in S
  BY <1>1, <1>2
<1> QED
  BY <1>1, <1>2, <1>3

\* A recursive function of a number exists, with its values in a set its step
\* stays in.
LEMMA Recursion ==
    ASSUME NEW D, NEW N \in Nat, NEW a \in D, NEW next,
           \A n \in 1..N : \A d \in D : next[n][d] \in D
    PROVE  \E f : /\ f = [n \in 0..N |-> IF n = 0 THEN a ELSE next[n][f[n - 1]]]
                  /\ f \in [0..N -> D]
<1> DEFINE Fills(m, f) == /\ f = [n \in 0..m |-> IF n = 0 THEN a ELSE next[n][f[n - 1]]]
                          /\ f \in [0..m -> D]
           S == {m \in Nat : m <= N => \E f : Fills(m, f)}
<1>1. 0 \in S
  <2> DEFINE e == [n \in 0..0 |-> a]
  <2>1. \A n \in 0..0 : n = 0
    OBVIOUS
  <2>2. e = [n \in 0..0 |-> IF n = 0 THEN a ELSE next[n][e[n - 1]]] /\ e \in [0..0 -> D]
    BY <2>1
  <2> HIDE DEF e
  <2> QED BY <2>2
<1>2. ASSUME NEW m \in Nat, m \in S PROVE m + 1 \in S
  <2>a. m + 1 \in Nat
    OBVIOUS
  <2> HIDE DEF Fills
  <2> SUFFICES ASSUME m + 1 <= N PROVE \E f : Fills(m + 1, f)
    BY <2>a, Zenon
  <2> USE DEF Fills
  <2>1. m <= N
    OBVIOUS
  <2>2. PICK h : Fills(m, h)
    BY <1>2, <2>1, Zenon
  <2> DEFINE z == m + 1
             last == next[z][h[m]]
             g == [n \in 0..z |-> IF n = z THEN last ELSE h[n]]
  <2>3. /\ z \in 1..N /\ z - 1 = m /\ z # 0 /\ 0 \in 0..m /\ m \in 0..m
        /\ \A n \in 0..z : n = z \/ n \in 0..m
        /\ \A n \in 0..m : n \in 0..z /\ n # z /\ (n # 0 => n - 1 \in 0..m)
    OBVIOUS
  <2>4. last \in D
    <3>1. h[m] \in D
      BY <2>2, <2>3
    <3> QED BY <3>1, <2>3
  <2> HIDE DEF last, z
  <2>5. g \in [0..z -> D]
    BY <2>2, <2>3, <2>4
  <2>6. \A n \in 0..m : g[n] = h[n]
    BY <2>3
  <2>7. ASSUME NEW n \in 0..z PROVE g[n] = IF n = 0 THEN a ELSE next[n][g[n - 1]]
    <3>1. CASE n = z
      <4>1. g[n] = last /\ g[n - 1] = h[m]
        BY <2>3, <2>6, <3>1
      <4> HIDE DEF g
      <4> QED BY <2>3, <3>1, <4>1 DEF last
    <3>2. CASE n # z
      <4>1. n \in 0..m /\ g[n] = h[n] /\ (n # 0 => g[n - 1] = h[n - 1])
        BY <2>3, <2>6, <3>2
      <4>2. h[n] = IF n = 0 THEN a ELSE next[n][h[n - 1]]
        BY <2>2, <4>1
      <4> HIDE DEF g
      <4> QED BY <4>1, <4>2
    <3> QED BY <3>1, <3>2
  <2>8. g = [n \in 0..z |-> g[n]]
    OBVIOUS
  <2> HIDE DEF g
  <2>9. g = [n \in 0..z |-> IF n = 0 THEN a ELSE next[n][g[n - 1]]]
    BY <2>7, <2>8
  <2>10. Fills(z, g)
    BY <2>5, <2>9
  <2> QED BY <2>10 DEF z
<1>3. N \in S
  <2> HIDE DEF S
  <2>1. Nat \subseteq S
    BY <1>1, <1>2, SetInduction
  <2> QED BY <2>1
<1>4. N <= N
  OBVIOUS
<1> QED
  BY <1>3, <1>4, Zenon

LEMMA FlattenExists ==
    ASSUME NEW seqs, NEW n \in Nat
    PROVE  \E f : f = [i \in 1..n |-> IF i = 1 THEN seqs[i] ELSE f[i - 1] \o seqs[i]]
<1> DEFINE S == {m \in Nat : \E f : f = [i \in 1..m |->
                    IF i = 1 THEN seqs[i] ELSE f[i - 1] \o seqs[i]]}
<1>1. 0 \in S
  <2> DEFINE e == [i \in 1..0 |-> 0]
  <2>1. e = [i \in 1..0 |-> IF i = 1 THEN seqs[i] ELSE e[i - 1] \o seqs[i]]
    OBVIOUS
  <2> HIDE DEF e
  <2> QED BY <2>1
<1>2. ASSUME NEW m \in Nat, m \in S PROVE m + 1 \in S
  <2>1. PICK h : h = [i \in 1..m |-> IF i = 1 THEN seqs[i] ELSE h[i - 1] \o seqs[i]]
    BY <1>2
  <2> DEFINE last == IF m = 0 THEN seqs[1] ELSE h[m] \o seqs[m + 1]
             g == [i \in 1..(m + 1) |-> IF i = m + 1 THEN last ELSE h[i]]
  <2>2. ASSUME NEW i \in 1..(m + 1)
        PROVE  g[i] = IF i = 1 THEN seqs[i] ELSE g[i - 1] \o seqs[i]
    <3>1. CASE i = m + 1
      <4>1. g[i] = last
        BY <3>1
      <4>2. CASE m = 0
        BY <3>1, <4>1, <4>2
      <4>3. CASE m # 0
        <5>1. m \in 1..(m + 1) /\ m # m + 1 /\ i # 1 /\ i - 1 = m
          BY <3>1, <4>3
        <5>2. g[i - 1] = h[m]
          BY <5>1
        <5> QED BY <3>1, <4>1, <4>3, <5>1, <5>2
      <4> QED BY <4>2, <4>3
    <3>2. CASE i # m + 1
      <4>1. i \in 1..m /\ g[i] = h[i]
        BY <3>2
      <4>2. h[i] = IF i = 1 THEN seqs[i] ELSE h[i - 1] \o seqs[i]
        BY <4>1, <2>1
      <4>3. i # 1 => i - 1 \in 1..(m + 1) /\ i - 1 # m + 1
        BY <4>1
      <4>4. i # 1 => g[i - 1] = h[i - 1]
        BY <4>3
      <4> HIDE DEF g
      <4> QED BY <4>1, <4>2, <4>4
    <3> QED BY <3>1, <3>2
  <2>3. g = [i \in 1..(m + 1) |-> g[i]]
    OBVIOUS
  <2> HIDE DEF g
  <2>4. g = [i \in 1..(m + 1) |-> IF i = 1 THEN seqs[i] ELSE g[i - 1] \o seqs[i]]
    BY <2>2, <2>3
  <2>5. \E f : f = [i \in 1..(m + 1) |-> IF i = 1 THEN seqs[i] ELSE f[i - 1] \o seqs[i]]
    BY <2>4
  <2>6. m + 1 \in Nat
    OBVIOUS
  <2> QED BY <2>5, <2>6, Zenon
<1> HIDE DEF S
<1>3. n \in S
  BY <1>1, <1>2, SetInduction
<1> QED
  BY <1>3 DEF S

LEMMA FlattenDef ==
    ASSUME NEW seqs, Len(seqs) \in Nat, Len(seqs) # 0
    PROVE  \E f : /\ f = [i \in 1..Len(seqs) |-> IF i = 1 THEN seqs[i] ELSE f[i - 1] \o seqs[i]]
                  /\ FlattenSeq(seqs) = f[Len(seqs)]
<1> DEFINE f == CHOOSE f : f = [i \in 1..Len(seqs) |-> IF i = 1 THEN seqs[i] ELSE f[i - 1] \o seqs[i]]
<1>1. f = [i \in 1..Len(seqs) |-> IF i = 1 THEN seqs[i] ELSE f[i - 1] \o seqs[i]]
  BY FlattenExists
<1>2. FlattenSeq(seqs) = f[Len(seqs)]
  BY DEF FlattenSeq
<1> HIDE DEF f
<1> QED
  BY <1>1, <1>2

-----------------------------------------------------------------------------
(* Sets *)

LEMMA MinOfSet ==
    ASSUME NEW T, T \subseteq Nat, T # {}
    PROVE  Min(T) \in T /\ \A k \in T : Min(T) <= k
BY LeastOfSet DEF Min

LEMMA MaxOfSet ==
    ASSUME NEW T, NEW n \in Nat, T \subseteq 0..n, T # {}
    PROVE  Max(T) \in T /\ \A k \in T : Max(T) >= k
<1> DEFINE R == {n - k : k \in T}
<1>a. \A k \in T : n - k \in Nat
  OBVIOUS
<1>1. R \subseteq Nat /\ R # {}
  BY <1>a
<1>2. PICK r \in R : \A q \in R : r <= q
  BY <1>1, LeastOfSet
<1>3. PICK m \in T : r = n - m
  BY <1>2
<1>4. \A k \in T : n - k \in R /\ k \in Int
  OBVIOUS
<1>5. \A k \in T : m >= k
  BY <1>2, <1>3, <1>4
<1> QED
  BY <1>5 DEF Max

\* SetToSeq lists each element of a finite set once.
LEMMA SetToSeqLists ==
    ASSUME NEW T, IsFiniteSet(T)
    PROVE  /\ SetToSeq(T) \in Seq(T) /\ Len(SetToSeq(T)) = Cardinality(T)
           /\ \A x \in T : \E i \in 1..Len(SetToSeq(T)) : SetToSeq(T)[i] = x
           /\ \A i, j \in 1..Len(SetToSeq(T)) : SetToSeq(T)[i] = SetToSeq(T)[j] => i = j
<1> DEFINE n == Cardinality(T)
           f == SetToSeq(T)
<1>1. n \in Nat /\ ExistsBijection(1..n, T)
  BY FS_CardinalityType
<1>2. PICK g \in [1..n -> T] : IsInjective(g)
  BY <1>1 DEF ExistsBijection, Bijection, Injection
<1>3. f \in [1..n -> T] /\ IsInjective(f)
  BY <1>2 DEF SetToSeq
<1>4. f \in Seq(T) /\ Len(f) = n
  BY <1>1, <1>3
<1>5. f \in Injection(1..n, T)
  BY <1>3 DEF Injection
<1>6. IsFiniteSet(1..n) /\ Cardinality(1..n) = n
  BY <1>1, FS_Interval
<1>7. f \in Surjection(1..n, T)
  BY <1>5, <1>6, FS_Injection
<1> QED
  BY <1>3, <1>4, <1>7 DEF Surjection, IsInjective

-----------------------------------------------------------------------------
(* Parts of a sequence *)

\* A part of a text.
LEMMA PartIs ==
    ASSUME NEW T, NEW text \in Seq(T), NEW a \in 0..Len(text), NEW b \in a..Len(text)
    PROVE  /\ SubSeq(text, a + 1, b) \in Seq(T)
           /\ Len(SubSeq(text, a + 1, b)) = b - a
           /\ \A k \in 1..(b - a) : SubSeq(text, a + 1, b)[k] = text[a + k]
           /\ Len(text) \in Nat
<1>1. \A i \in (a + 1)..b : i \in 1..Len(text)
  OBVIOUS
<1>2. \A i \in (a + 1)..b : text[i] \in T
  BY <1>1
<1> DEFINE t == SubSeq(text, a + 1, b)
<1>3. a + 1 \in Int /\ b \in Int /\ Len(text) \in Nat
  OBVIOUS
<1>4. /\ t \in Seq(T) /\ Len(t) = IF a + 1 <= b THEN b - (a + 1) + 1 ELSE 0
      /\ \A k \in 1..(b - (a + 1) + 1) : t[k] = text[(a + 1) + k - 1]
  BY <1>2, <1>3, SubSeqProperties
<1> HIDE DEF t
<1>5. Len(t) = b - a /\ \A k \in 1..(b - a) : (a + 1) + k - 1 = a + k /\ k \in 1..(b - (a + 1) + 1)
  BY <1>3, <1>4
<1>6. \A k \in 1..(b - a) : t[k] = text[a + k]
  BY <1>4, <1>5
<1> QED
  BY <1>3, <1>4, <1>5, <1>6 DEF t

\* A part of a part.
LEMMA PartOfPart ==
    ASSUME NEW T, NEW text \in Seq(T), NEW a \in 0..Len(text),
           NEW m \in 0..(Len(text) - a), NEW n \in m..(Len(text) - a)
    PROVE  SubSeq(SubSeq(text, a + 1, Len(text)), m + 1, n) = SubSeq(text, a + m + 1, a + n)
<1> DEFINE whole == SubSeq(text, a + 1, Len(text))
           l == SubSeq(whole, m + 1, n)
           r == SubSeq(text, a + m + 1, a + n)
<1>1. Len(text) \in Nat /\ Len(text) \in a..Len(text) /\ a + m \in 0..Len(text) /\ a + n \in (a + m)..Len(text)
  OBVIOUS
<1>2. /\ whole \in Seq(T) /\ Len(whole) = Len(text) - a
      /\ \A k \in 1..(Len(text) - a) : whole[k] = text[a + k]
  BY <1>1, PartIs
<1>3. /\ r \in Seq(T) /\ Len(r) = (a + n) - (a + m)
      /\ \A k \in 1..((a + n) - (a + m)) : r[k] = text[(a + m) + k]
  BY <1>1, PartIs
<1>4. m \in 0..Len(whole) /\ n \in m..Len(whole)
  BY <1>2
<1> HIDE DEF whole, r
<1>5. /\ l \in Seq(T) /\ Len(l) = n - m /\ \A k \in 1..(n - m) : l[k] = whole[m + k]
  BY <1>2, <1>4, PartIs
<1> HIDE DEF l
<1>6. Len(l) = Len(r)
  BY <1>3, <1>5
<1>7. ASSUME NEW k \in 1..Len(l) PROVE l[k] = r[k]
  <2>1. k \in 1..(n - m) /\ m + k \in 1..(Len(text) - a) /\ k \in 1..((a + n) - (a + m))
        /\ a + (m + k) = (a + m) + k
    BY <1>5
  <2> QED BY <1>2, <1>3, <1>5, <2>1
<1>8. l = r
  BY <1>3, <1>5, <1>6, <1>7, SeqEqual
<1> QED
  BY <1>8 DEF l, r, whole

\* A sequence ends in the beginning of another that stands at its end.
LEMMA SuffixIs ==
    ASSUME NEW T, NEW text \in Seq(T), NEW tag \in Seq(T),
           NEW n \in 0..Len(tag), n <= Len(text),
           \A k \in 1..n : text[Len(text) - n + k] = tag[k]
    PROVE  IsSuffix(SubSeq(tag, 1, n), text)
<1> DEFINE head == SubSeq(tag, 1, n)
           N == Len(text)
           a == Reverse(head)
           b == Reverse(text)
<1>1. N \in Nat /\ n \in Nat /\ 0 \in 0..Len(tag) /\ n - 0 = n
  OBVIOUS
<1>2. head \in Seq(T) /\ Len(head) = n /\ \A k \in 1..n : head[k] = tag[k]
  <2>1. SubSeq(tag, 0 + 1, n) \in Seq(T) /\ Len(SubSeq(tag, 0 + 1, n)) = n - 0
        /\ \A k \in 1..(n - 0) : SubSeq(tag, 0 + 1, n)[k] = tag[0 + k]
    BY <1>1, PartIs
  <2>2. 0 + 1 = 1 /\ \A k \in 1..n : 0 + k = k
    OBVIOUS
  <2> QED BY <1>1, <2>1, <2>2
<1> HIDE DEF head
<1>3. /\ a = [i \in 1..n |-> head[(n - i) + 1]] /\ b = [i \in 1..N |-> text[(N - i) + 1]]
      /\ \A i \in 1..n : (n - i) + 1 \in 1..n
      /\ \A i \in 1..N : (N - i) + 1 \in 1..N
  BY <1>1, <1>2 DEF Reverse
<1>4. \A i \in 1..n : head[(n - i) + 1] \in T
  BY <1>2, <1>3
<1>5. \A i \in 1..N : text[(N - i) + 1] \in T
  BY <1>3
<1>6. a \in Seq(T) /\ b \in Seq(T) /\ Len(a) = n /\ Len(b) = N
  BY <1>1, <1>3, <1>4, <1>5
<1>7. ASSUME NEW i \in 1..n PROVE a[i] = b[i]
  <2> DEFINE k == (n - i) + 1
  <2>1. k \in 1..n /\ N - n + k = (N - i) + 1 /\ i \in 1..N
    BY <1>1
  <2>2. a[i] = head[k] /\ b[i] = text[(N - i) + 1]
    BY <1>3, <2>1
  <2> HIDE DEF k, a, b
  <2> QED BY <1>2, <2>1, <2>2
<1> HIDE DEF a, b, N
<1>8. SubSeq(a, 1, n) = a
  BY <1>6, SubSeqFull
<1>9. SubSeq(b, 1, n) = a
  <2> DEFINE c == SubSeq(b, 1, n)
  <2>1. SubSeq(b, 0 + 1, n) \in Seq(T) /\ Len(SubSeq(b, 0 + 1, n)) = n - 0
        /\ \A k \in 1..(n - 0) : SubSeq(b, 0 + 1, n)[k] = b[0 + k]
    <3>1. 0 \in 0..Len(b) /\ n \in 0..Len(b)
      BY <1>1, <1>6 DEF N
    <3> QED BY <1>6, <3>1, PartIs
  <2>2. 0 + 1 = 1 /\ \A k \in 1..n : 0 + k = k
    OBVIOUS
  <2>3. c \in Seq(T) /\ Len(c) = n /\ \A k \in 1..n : c[k] = b[k]
    BY <1>1, <2>1, <2>2
  <2> HIDE DEF c
  <2>4. c = a
    BY <1>6, <1>7, <2>3, SeqEqual
  <2> QED BY <2>4 DEF c
<1>10. IsPrefix(a, b)
  BY <1>1, <1>6, <1>8, <1>9 DEF IsPrefix, N
<1> QED
  BY <1>10 DEF IsSuffix, a, b, head

\* What is left of a text after its beginning.
LEMMA AfterBeginning ==
    ASSUME NEW T, NEW a \in Seq(T), NEW t \in Seq(T)
    PROVE  SubSeq(a \o t, Len(a) + 1, Len(a \o t)) = t
<1> DEFINE u == a \o t
           n == Len(a)
           rest == SubSeq(u, n + 1, Len(u))
<1>1. /\ u \in Seq(T) /\ n \in Nat /\ Len(t) \in Nat /\ Len(u) = n + Len(t)
      /\ \A k \in 1..Len(t) : n + k \in 1..Len(u) /\ u[n + k] = t[k]
  BY ConcatProperties
<1> HIDE DEF u, n
<1>2. \A i \in (n + 1)..Len(u) : i \in 1..Len(u) /\ u[i] \in T
  BY <1>1
<1>3. /\ rest \in Seq(T) /\ Len(rest) = Len(t)
      /\ \A k \in 1..Len(t) : rest[k] = u[n + k]
  <2>1. n + 1 \in Int /\ Len(u) \in Int
    BY <1>1
  <2>2. /\ rest \in Seq(T) /\ Len(rest) = IF n + 1 <= Len(u) THEN Len(u) - (n + 1) + 1 ELSE 0
        /\ \A k \in 1..(Len(u) - (n + 1) + 1) : rest[k] = u[(n + 1) + k - 1]
    BY <1>2, <2>1, SubSeqProperties
  <2> HIDE DEF rest
  <2>3. Len(rest) = Len(t) /\ Len(u) - (n + 1) + 1 = Len(t)
    BY <1>1, <2>2
  <2>4. \A k \in 1..Len(t) : (n + 1) + k - 1 = n + k
    BY <1>1
  <2> QED BY <2>2, <2>3, <2>4
<1> HIDE DEF rest
<1>4. rest = t
  BY <1>1, <1>3, SeqEqual
<1> QED
  BY <1>4 DEF rest, u, n

-----------------------------------------------------------------------------
(* Flattened sequences *)

LEMMA FlattenEmpty == FlattenSeq(<<>>) = <<>>
BY DEF FlattenSeq

\* One sequence more.
LEMMA FlattenStep ==
    ASSUME NEW T, NEW seqs \in Seq(Seq(T)), NEW k \in 1..Len(seqs)
    PROVE  FlattenSeq(SubSeq(seqs, 1, k)) = FlattenSeq(SubSeq(seqs, 1, k - 1)) \o seqs[k]
<1> DEFINE a == SubSeq(seqs, 1, k)
           b == SubSeq(seqs, 1, k - 1)
<1>1. k \in Nat /\ k - 1 \in Nat /\ Len(a) = k /\ Len(b) = k - 1 /\ a[k] = seqs[k] /\ seqs[k] \in Seq(T)
  BY SubSeqProperties
<1>2. \A i \in 1..(k - 1) : a[i] = seqs[i] /\ b[i] = seqs[i]
  BY SubSeqProperties
<1>3. PICK f : /\ f = [i \in 1..Len(a) |-> IF i = 1 THEN a[i] ELSE f[i - 1] \o a[i]]
               /\ FlattenSeq(a) = f[Len(a)]
  <2>1. Len(a) \in Nat /\ Len(a) # 0
    BY <1>1
  <2> HIDE DEF a
  <2> QED BY <2>1, FlattenDef
<1> HIDE DEF a, b
<1>4. \A i \in 1..k : f[i] = IF i = 1 THEN a[i] ELSE f[i - 1] \o a[i]
  BY <1>1, <1>3
<1>5. CASE k = 1
  <2>1. FlattenSeq(a) = seqs[k]
    BY <1>1, <1>3, <1>4, <1>5
  <2>2. b = <<>>
    BY <1>5, SubSeqEmpty DEF b
  <2>3. <<>> \o seqs[k] = seqs[k]
    BY <1>1, ConcatEmptySeq
  <2> QED BY <2>1, <2>2, <2>3, FlattenEmpty DEF a, b
<1>6. CASE k # 1
  <2>1. PICK g : /\ g = [i \in 1..Len(b) |-> IF i = 1 THEN b[i] ELSE g[i - 1] \o b[i]]
                 /\ FlattenSeq(b) = g[Len(b)]
    <3>1. Len(b) \in Nat /\ Len(b) # 0
      BY <1>1, <1>6
    <3> QED BY <3>1, FlattenDef
  <2>2. \A i \in 1..(k - 1) : g[i] = IF i = 1 THEN b[i] ELSE g[i - 1] \o b[i]
    BY <1>1, <2>1
  <2> DEFINE S == {i \in Nat : i + 1 <= k - 1 => f[i + 1] = g[i + 1]}
  <2>3. 0 \in S
    BY <1>2, <1>4, <2>2
  <2>4. ASSUME NEW i \in Nat, i \in S PROVE i + 1 \in S
    <3> SUFFICES ASSUME i + 2 <= k - 1 PROVE f[i + 2] = g[i + 2]
      OBVIOUS
    <3> DEFINE j == i + 2
    <3>1. j \in 1..(k - 1) /\ j \in 1..k /\ j # 1 /\ j - 1 = i + 1
      BY <1>1
    <3>2. f[i + 1] = g[i + 1]
      BY <2>4
    <3> HIDE DEF j
    <3>3. f[j] = f[j - 1] \o a[j] /\ g[j] = g[j - 1] \o b[j]
      BY <3>1, <1>4, <2>2
    <3>4. f[j] = g[j]
      BY <3>1, <3>2, <3>3, <1>2
    <3> QED BY <3>4 DEF j
  <2>5. k - 2 \in Nat
    BY <1>1, <1>6
  <2>6. k - 2 \in S
    <3> HIDE DEF S
    <3> QED BY <2>3, <2>4, <2>5, SetInduction
  <2>7. f[k - 1] = g[k - 1]
    BY <2>5, <2>6
  <2>8. f[k] = f[k - 1] \o a[k]
    <3>1. k \in 1..k
      BY <1>1
    <3> QED BY <3>1, <1>4, <1>6
  <2>9. FlattenSeq(a) = f[k] /\ FlattenSeq(b) = g[k - 1]
    BY <1>1, <1>3, <2>1
  <2> QED BY <1>1, <2>7, <2>8, <2>9 DEF a, b
<1> QED
  BY <1>5, <1>6

\* Each of its beginnings is a sequence of the same elements, and a prefix.
LEMMA FlattenPrefixes ==
    ASSUME NEW T, NEW seqs \in Seq(Seq(T)), NEW m \in 0..Len(seqs), NEW n \in m..Len(seqs)
    PROVE  /\ FlattenSeq(SubSeq(seqs, 1, m)) \in Seq(T)
           /\ \E t \in Seq(T) :
                 FlattenSeq(SubSeq(seqs, 1, n)) = FlattenSeq(SubSeq(seqs, 1, m)) \o t
<1> DEFINE F(k) == FlattenSeq(SubSeq(seqs, 1, k))
           A == {k \in Nat : k <= Len(seqs) => F(k) \in Seq(T)}
<1>1. ASSUME NEW k \in Nat, k + 1 <= Len(seqs)
      PROVE  F(k + 1) = F(k) \o seqs[k + 1] /\ seqs[k + 1] \in Seq(T)
  <2> DEFINE j == k + 1
  <2>1. j \in 1..Len(seqs) /\ j - 1 = k
    BY <1>1
  <2> HIDE DEF j
  <2>2. FlattenSeq(SubSeq(seqs, 1, j)) = FlattenSeq(SubSeq(seqs, 1, j - 1)) \o seqs[j]
    BY <2>1, FlattenStep, Zenon
  <2>3. seqs[j] \in Seq(T)
    BY <2>1
  <2>4. F(j) = F(k) \o seqs[j]
    BY <2>1, <2>2
  <2> QED BY <2>3, <2>4 DEF j
<1>2. F(0) = <<>>
  <2>1. SubSeq(seqs, 1, 0) = <<>>
    OBVIOUS
  <2> QED BY <2>1, FlattenEmpty
<1> HIDE DEF F
<1>3. 0 \in A
  BY <1>2, EmptySeq
<1>4. ASSUME NEW k \in Nat, k \in A PROVE k + 1 \in A
  <2> SUFFICES ASSUME k + 1 <= Len(seqs) PROVE F(k + 1) \in Seq(T)
    OBVIOUS
  <2>1. F(k) \in Seq(T)
    BY <1>4
  <2>2. F(k + 1) = F(k) \o seqs[k + 1] /\ seqs[k + 1] \in Seq(T)
    BY <1>1, <2>1
  <2> QED BY <2>1, <2>2, ConcatProperties
<1>5. \A k \in 0..Len(seqs) : F(k) \in Seq(T)
  <2> HIDE DEF A
  <2>1. Nat \subseteq A
    BY <1>3, <1>4, SetInduction
  <2> QED BY <2>1 DEF A
<1> DEFINE B == {k \in Nat : m + k <= Len(seqs) => \E t \in Seq(T) : F(m + k) = F(m) \o t}
<1>6. 0 \in B
  <2>1. F(m) \o <<>> = F(m) /\ <<>> \in Seq(T)
    BY <1>5, ConcatEmptySeq, EmptySeq
  <2>2. m + 0 = m
    OBVIOUS
  <2> QED BY <2>1, <2>2
<1>7. ASSUME NEW k \in Nat, k \in B PROVE k + 1 \in B
  <2>1. k + 1 \in Nat /\ m + k \in Nat /\ m \in 0..Len(seqs)
    OBVIOUS
  <2> DEFINE i == m + k
             j == m + (k + 1)
  <2>2. i \in Nat /\ j = i + 1
    BY <2>1
  <2>3. ASSUME j <= Len(seqs)
        PROVE  \E u \in Seq(T) : F(j) = F(m) \o u
    <3>1. i <= Len(seqs) /\ i + 1 <= Len(seqs)
      BY <2>1, <2>2, <2>3
    <3>2. PICK t \in Seq(T) : F(i) = F(m) \o t
      <4> HIDE DEF i, j
      <4> QED BY <1>7, <3>1 DEF i
    <3> HIDE DEF i, j
    <3>3. F(j) = F(i) \o seqs[j] /\ seqs[j] \in Seq(T)
      BY <1>1, <2>2, <3>1
    <3>4. F(m) \in Seq(T)
      BY <1>5, <2>1
    <3>5. F(j) = (F(m) \o t) \o seqs[j]
      BY <3>2, <3>3
    <3>6. (F(m) \o t) \o seqs[j] = F(m) \o (t \o seqs[j])
      <4> DEFINE a == F(m)
                 b == seqs[j]
      <4>1. a \in Seq(T) /\ b \in Seq(T)
        BY <3>3, <3>4
      <4> HIDE DEF a, b
      <4>2. (a \o t) \o b = a \o (t \o b)
        BY <4>1, ConcatAssociative, SMTT(30)
      <4> QED BY <4>2 DEF a, b
    <3>7. t \o seqs[j] \in Seq(T)
      BY <3>3, ConcatProperties
    <3>8. F(j) = F(m) \o (t \o seqs[j])
      BY <3>5, <3>6
    <3> QED BY <3>7, <3>8, Zenon
  <2>4. m + (k + 1) <= Len(seqs) => \E u \in Seq(T) : F(m + (k + 1)) = F(m) \o u
    BY <2>3, Zenon
  <2> QED BY <2>1, <2>4, Zenon
<1>8. n - m \in Nat /\ m + (n - m) = n /\ n \in 0..Len(seqs)
  OBVIOUS
<1>9. n - m \in B
  <2> HIDE DEF B
  <2>1. Nat \subseteq B
    BY <1>6, <1>7, SetInduction
  <2> QED BY <1>8, <2>1
<1>10. \E t \in Seq(T) : F(n) = F(m) \o t
  <2> DEFINE d == n - m
  <2>1. m + d = n /\ n <= Len(seqs) /\ d \in B
    BY <1>8, <1>9
  <2> HIDE DEF d
  <2>2. \E t \in Seq(T) : F(m + d) = F(m) \o t
    BY <2>1
  <2> QED BY <2>1, <2>2
<1> QED
  BY <1>5, <1>10 DEF F

LEMMA FlattenType ==
    ASSUME NEW T, NEW seqs \in Seq(Seq(T))
    PROVE  FlattenSeq(seqs) \in Seq(T)
<1>1. Len(seqs) \in 0..Len(seqs) /\ Len(seqs) \in Len(seqs)..Len(seqs)
  OBVIOUS
<1>2. SubSeq(seqs, 1, Len(seqs)) = seqs
  BY SubSeqFull
<1> QED
  BY <1>1, <1>2, FlattenPrefixes

\* One sequence more, at the end.
LEMMA FlattenAppend ==
    ASSUME NEW T, NEW seqs \in Seq(Seq(T)), NEW t \in Seq(T)
    PROVE  /\ Append(seqs, t) \in Seq(Seq(T))
           /\ FlattenSeq(Append(seqs, t)) = FlattenSeq(seqs) \o t
<1> DEFINE more == Append(seqs, t)
           n == Len(seqs)
           k == n + 1
<1>1. /\ more \in Seq(Seq(T)) /\ Len(more) = k /\ n \in Nat /\ more[k] = t /\ k \in 1..Len(more)
      /\ k - 1 = n
  BY AppendProperties
<1>2. SubSeq(more, 1, n) = seqs
  <2>1. \A i \in 1..n : i \in 1..Len(more) /\ more[i] = seqs[i] /\ more[i] \in Seq(T)
    BY AppendProperties
  <2>2. SubSeq(more, 1, n) \in Seq(Seq(T)) /\ Len(SubSeq(more, 1, n)) = n
        /\ \A i \in 1..n : SubSeq(more, 1, n)[i] = more[i]
    BY <1>1, <2>1, SubSeqProperties
  <2> DEFINE a == SubSeq(more, 1, n)
  <2> HIDE DEF a
  <2>3. a = seqs
    BY <2>1, <2>2, SeqEqual DEF a
  <2> QED BY <2>3 DEF a
<1>3. SubSeq(more, 1, k) = more
  BY <1>1, SubSeqFull
<1> HIDE DEF more, k, n
<1>4. FlattenSeq(SubSeq(more, 1, k)) = FlattenSeq(SubSeq(more, 1, k - 1)) \o more[k]
  BY <1>1, FlattenStep
<1>5. FlattenSeq(more) = FlattenSeq(seqs) \o t
  BY <1>1, <1>2, <1>3, <1>4
<1> QED
  BY <1>1, <1>5 DEF more

\* Sequences of one element each, put together.
LEMMA FlattenSingles ==
    ASSUME NEW T, NEW text \in Seq(T), NEW singles \in Seq(Seq(T)), Len(singles) = Len(text),
           \A i \in 1..Len(text) : singles[i] = <<text[i]>>
    PROVE  FlattenSeq(singles) = text
<1> DEFINE N == Len(text)
           F(k) == FlattenSeq(SubSeq(singles, 1, k))
           S == {k \in Nat : k <= N => F(k) = SubSeq(text, 1, k)}
<1>1. 0 \in S
  <2>1. SubSeq(singles, 1, 0) = <<>> /\ SubSeq(text, 1, 0) = <<>>
    OBVIOUS
  <2> QED BY <2>1, FlattenEmpty
<1>2. ASSUME NEW k \in Nat, k \in S PROVE k + 1 \in S
  <2> SUFFICES ASSUME k + 1 <= N PROVE F(k + 1) = SubSeq(text, 1, k + 1)
    OBVIOUS
  <2> DEFINE j == k + 1
  <2>1. j \in 1..Len(singles) /\ j \in 1..Len(text) /\ j - 1 = k /\ k <= N
    BY <1>2
  <2>2. F(k) = SubSeq(text, 1, k)
    BY <1>2, <2>1
  <2> HIDE DEF j
  <2>3. FlattenSeq(SubSeq(singles, 1, j)) = FlattenSeq(SubSeq(singles, 1, j - 1)) \o singles[j]
    BY <2>1, FlattenStep, Zenon
  <2>4. SubSeq(text, 1, j) = SubSeq(text, 1, k) \o <<text[j]>>
    BY <2>1, SMTT(30)
  <2>5. F(j) = SubSeq(text, 1, j)
    BY <2>1, <2>2, <2>3, <2>4
  <2> QED BY <2>5 DEF j
<1>3. F(N) = SubSeq(text, 1, N)
  <2> HIDE DEF S
  <2>1. Nat \subseteq S
    BY <1>1, <1>2, SetInduction
  <2>2. N \in Nat
    OBVIOUS
  <2> QED BY <2>1, <2>2 DEF S
<1> QED
  BY <1>3, SubSeqFull

\* The last step made longer.
LEMMA FlattenLonger ==
    ASSUME NEW T, NEW seqs \in Seq(Seq(T)), seqs # <<>>, NEW t \in Seq(T)
    PROVE  FlattenSeq(Front(seqs) \o <<Last(seqs) \o t>>) = FlattenSeq(seqs) \o t
<1> DEFINE front == Front(seqs)
           last == Last(seqs)
           longer == last \o t
<1>1. front \in Seq(Seq(T)) /\ last \in Seq(T) /\ Append(front, last) = seqs
  <2> DEFINE n == Len(seqs)
  <2>1. n \in Nat \ {0} /\ n - 1 \in Nat /\ n \in 1..n
        /\ \A i \in 1..(n - 1) : i \in 1..n /\ seqs[i] \in Seq(T)
    OBVIOUS
  <2>2. last = seqs[n] /\ last \in Seq(T)
    BY <2>1 DEF Last
  <2>3. front = SubSeq(seqs, 1, n - 1)
    BY DEF Front
  <2> HIDE DEF front, last
  <2>4. front \in Seq(Seq(T)) /\ Len(front) = n - 1 /\ \A i \in 1..(n - 1) : front[i] = seqs[i]
    <3> HIDE DEF n
    <3> QED BY <2>1, <2>3, SubSeqProperties
  <2> DEFINE all == Append(front, last)
  <2>5. /\ all \in Seq(Seq(T)) /\ Len(all) = n /\ all[n] = last
        /\ \A i \in 1..(n - 1) : all[i] = front[i]
    <3>1. Len(front) + 1 = n
      BY <2>1, <2>4
    <3> HIDE DEF n
    <3> QED BY <2>2, <2>4, <3>1, AppendProperties
  <2> HIDE DEF all
  <2>6. \A i \in 1..Len(all) : all[i] = seqs[i]
    <3>1. \A i \in 1..n : i = n \/ i \in 1..(n - 1)
      BY <2>1
    <3> HIDE DEF n
    <3> QED BY <2>2, <2>4, <2>5, <3>1
  <2>7. all = seqs
    BY <2>5, <2>6, SeqEqual DEF n
  <2> QED BY <2>2, <2>4, <2>7 DEF all
<1>2. longer \in Seq(T)
  BY <1>1, ConcatProperties
<1> HIDE DEF front, last
<1>3. front \o <<longer>> = Append(front, longer)
  <2> HIDE DEF longer
  <2> QED BY <1>1, <1>2, AppendIsConcat
<1>4. FlattenSeq(Append(front, longer)) = FlattenSeq(front) \o longer
  <2> HIDE DEF longer
  <2> QED BY <1>1, <1>2, FlattenAppend
<1>5. FlattenSeq(seqs) = FlattenSeq(front) \o last
  <2>1. FlattenSeq(Append(front, last)) = FlattenSeq(front) \o last
    BY <1>1, FlattenAppend
  <2> QED BY <1>1, <2>1
<1>6. FlattenSeq(front) \o (last \o t) = (FlattenSeq(front) \o last) \o t
  <2> DEFINE flat == FlattenSeq(front)
  <2>1. flat \in Seq(T)
    BY <1>1, FlattenType
  <2>2. last \in Seq(T) /\ t \in Seq(T)
    BY <1>1
  <2> HIDE DEF flat, longer
  <2>3. flat \o (last \o t) = (flat \o last) \o t
    BY <2>1, <2>2
  <2> QED BY <2>3 DEF flat
<1> QED
  BY <1>3, <1>4, <1>5, <1>6 DEF front, last

\* The first two of a sequence of two or more are two.
LEMMA FirstTwo ==
  ASSUME NEW S, NEW s \in Seq(S), Len(s) \in Nat, 2 <= Len(s)
  PROVE  Len(SubSeq(s, 1, 2)) = 2
<1>1. \A i \in 1..2 : i \in 1..Len(s)
  OBVIOUS
<1>2. \A i \in 1..2 : s[i] \in S
  BY <1>1
<1> QED BY <1>2, SMT

-----------------------------------------------------------------------------
(* The order of a set *)

TotalOrder(S, before) ==
    /\ \A i \in S : <<i, i>> \notin before
    /\ \A i, j, k \in S : <<i, j>> \in before /\ <<j, k>> \in before => <<i, k>> \in before
    /\ \A i, j \in S : i = j \/ <<i, j>> \in before \/ <<j, i>> \in before

\* The number of elements before each.
RankIn(S, before) == [i \in S |-> Cardinality({j \in S : <<j, i>> \in before})]

\* By the number of elements before it, each element has a place of its own.
Ranking(Rank, S, before) ==
    /\ Rank \in [S -> 0..(Cardinality(S) - 1)]
    /\ \A i, j \in S : <<i, j>> \in before => Rank[i] < Rank[j]
    /\ \A i, j \in S : Rank[i] = Rank[j] => i = j
    /\ \A k \in 0..(Cardinality(S) - 1) : \E i \in S : Rank[i] = k

LEMMA Ranks ==
    ASSUME NEW S, IsFiniteSet(S), NEW before, TotalOrder(S, before)
    PROVE  Ranking(RankIn(S, before), S, before)
<1> DEFINE Below(i) == {j \in S : <<j, i>> \in before}
           Rank == [i \in S |-> Cardinality(Below(i))]
           n == Cardinality(S)
<1>1. n \in Nat
  BY FS_CardinalityType
<1>2. ASSUME NEW i \in S PROVE IsFiniteSet(Below(i)) /\ Cardinality(Below(i)) \in 0..(n - 1)
  <2>1. Below(i) \in SUBSET S /\ i \notin Below(i)
    BY DEF TotalOrder
  <2>2. IsFiniteSet(Below(i)) /\ Cardinality(Below(i)) <= n /\ Cardinality(Below(i)) # n
    BY <2>1, FS_Subset
  <2>3. Cardinality(Below(i)) \in Nat
    BY <2>2, FS_CardinalityType
  <2> QED BY <1>1, <2>2, <2>3
<1>3. Rank \in [S -> 0..(n - 1)]
  BY <1>2
<1>4. ASSUME NEW i \in S, NEW j \in S, <<i, j>> \in before PROVE Rank[i] < Rank[j]
  <2>1. Below(i) \in SUBSET Below(j) /\ Below(i) # Below(j)
    BY <1>4 DEF TotalOrder
  <2>2. IsFiniteSet(Below(j)) /\ Cardinality(Below(i)) \in Nat /\ Cardinality(Below(j)) \in Nat
    BY <1>1, <1>2
  <2> HIDE DEF Below
  <2>3. Cardinality(Below(i)) <= Cardinality(Below(j)) /\ Cardinality(Below(i)) # Cardinality(Below(j))
    BY <2>1, <2>2, FS_Subset
  <2> QED BY <2>2, <2>3
<1> HIDE DEF Rank, n
<1>5. ASSUME NEW i \in S, NEW j \in S, Rank[i] = Rank[j] PROVE i = j
  <2>1. Rank[i] \in Int /\ Rank[j] \in Int
    BY <1>1, <1>3
  <2>2. ~(Rank[i] < Rank[j]) /\ ~(Rank[j] < Rank[i])
    BY <1>5, <2>1
  <2> QED BY <1>4, <2>2 DEF TotalOrder
<1>6. \A k \in 0..(n - 1) : \E i \in S : Rank[i] = k
  <2>1. IsFiniteSet(0..(n - 1)) /\ Cardinality(0..(n - 1)) = n
    <3>1. n - 1 \in Int /\ 0 \in Int
      BY <1>1
    <3>2. /\ IsFiniteSet(0..(n - 1))
          /\ Cardinality(0..(n - 1)) = IF 0 > n - 1 THEN 0 ELSE n - 1 - 0 + 1
      BY <3>1, FS_Interval
    <3> QED BY <1>1, <3>2
  <2>2. Rank \in Injection(S, 0..(n - 1))
    BY <1>3, <1>5 DEF Injection, IsInjective
  <2>3. Rank \in Surjection(S, 0..(n - 1))
    BY <2>1, <2>2, FS_Injection DEF n
  <2> QED BY <2>3 DEF Surjection
<1>7. Rank = RankIn(S, before)
  BY DEF Rank, RankIn
<1>8. n = Cardinality(S)
  BY DEF n
<1> HIDE DEF Rank, n
<1>9. Ranking(Rank, S, before)
  BY <1>3, <1>4, <1>5, <1>6, <1>8, Zenon DEF Ranking
<1> QED
  BY <1>7, <1>9, Zenon

-----------------------------------------------------------------------------
(* Division *)

\* What is less k times is less.
LEMMA TimesLess ==
    ASSUME NEW k \in Nat \ {0}, NEW x \in Int, NEW y \in Int, k * x < k * y
    PROVE  x < y
<1> SUFFICES ASSUME y <= x PROVE FALSE
  OBVIOUS
<1> DEFINE d == x - y
<1>1. d \in Nat /\ x = y + d
  OBVIOUS
<1> HIDE DEF d
<1>2. k * x = k * y + k * d /\ k * d >= 0
  BY <1>1
<1> QED
  BY <1>2

\* The quotient rounded down.
LEMMA Division ==
    ASSUME NEW x \in Nat, NEW k \in Nat \ {0}
    PROVE  /\ x \div k \in Nat
           /\ k * (x \div k) <= x
           /\ x < k * (x \div k) + k
OBVIOUS

\* Numbers a divisor apart have different quotients.
LEMMA DivisionApart ==
    ASSUME NEW x \in Nat, NEW y \in Nat, NEW k \in Nat \ {0}, x + k <= y
    PROVE  x \div k < y \div k
<1> DEFINE p == x \div k
           q == y \div k
<1>1. /\ p \in Nat /\ k * p <= x 
      /\ q \in Nat /\ y < k * q + k
  BY Division
<1> HIDE DEF p, q
<1>2. k * (p + 1) = k * p + k /\ k * (q + 1) = k * q + k
      /\ k * p \in Int /\ k * q \in Int
  BY <1>1
<1>3. k * (p + 1) < k * (q + 1)
  BY <1>1, <1>2
<1>4. p + 1 < q + 1
  BY <1>1, <1>3, TimesLess
<1> QED
  BY <1>1, <1>4 DEF p, q

\* A multiple divides without a rest.
LEMMA DivisionExact ==
    ASSUME NEW n \in Nat, NEW k \in Nat \ {0}
    PROVE  (k * n) \div k = n
<1> DEFINE p == (k * n) \div k
<1>1. k * n \in Nat
  OBVIOUS
<1>2. p \in Nat /\ k * p <= k * n /\ k * n < k * p + k
  BY <1>1, Division
<1> HIDE DEF p
<1>3. k * (p + 1) = k * p + k /\ k * (n + 1) = k * n + k /\ k * p \in Int /\ k * n \in Int
  BY <1>2
<1>4. k * p < k * (n + 1) /\ k * n < k * (p + 1)
  BY <1>2, <1>3
<1>5. p < n + 1 /\ n < p + 1
  BY <1>2, <1>4, TimesLess
<1> QED
  BY <1>2, <1>5 DEF p

\* n things in k groups, n at least k: the bounds of the groups go up from 0 to n.
LEMMA GroupBounds ==
    ASSUME NEW n \in Nat, NEW k \in 1..n
    PROVE  /\ (0 * n) \div k = 0
           /\ (k * n) \div k = n
           /\ \A i \in 0..k : (i * n) \div k \in 0..n
           /\ \A i, j \in 0..k : i < j => (i * n) \div k < (j * n) \div k
<1>1. k \in Nat \ {0} /\ k <= n
  OBVIOUS
<1>2. (k * n) \div k = n
  BY <1>1, DivisionExact
<1>3. 0 * n = k * 0 /\ (k * 0) \div k = 0
  BY <1>1, DivisionExact
<1>4. ASSUME NEW i \in 0..k, NEW j \in 0..k, i < j
      PROVE  (i * n) \div k < (j * n) \div k
  <2> DEFINE d == j - i - 1
  <2>1. d \in Nat /\ j = i + 1 + d /\ i \in Nat /\ j \in Nat
    BY <1>1, <1>4
  <2> HIDE DEF d
  <2>2. j * n = i * n + n + d * n /\ d * n >= 0 /\ i * n \in Nat /\ j * n \in Nat
    BY <2>1
  <2>3. i * n + k <= j * n
    <3> DEFINE u == i * n
               v == d * n
               w == j * n
    <3>1. v \in Int
      BY <2>1
    <3>2. w = u + n + v /\ v >= 0 /\ u \in Nat /\ w \in Nat /\ v \in Int
      BY <2>2, <3>1
    <3> HIDE DEF u, v, w
    <3>3. u + k <= w
      BY <1>1, <3>2
    <3> QED BY <3>3 DEF u, w
  <2> QED BY <1>1, <2>2, <2>3, DivisionApart
<1>5. ASSUME NEW i \in 0..k PROVE (i * n) \div k \in 0..n
  <2>1. i \in Nat /\ i * n \in Nat
    BY <1>1
  <2>2. (i * n) \div k \in Nat
    BY <1>1, <2>1, Division
  <2>3. i = k \/ (i * n) \div k < n
    <3>1. SUFFICES ASSUME i # k PROVE (i * n) \div k < n
      OBVIOUS
    <3>2. i < k /\ k \in 0..k
      BY <1>1, <3>1
    <3> QED BY <1>2, <1>4, <3>2
  <2> QED BY <1>2, <2>2, <2>3
<1> QED
  BY <1>2, <1>3, <1>4, <1>5

=============================================================================
