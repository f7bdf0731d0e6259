--------------------------- MODULE ExchangeProofs ---------------------------
(* Questions and answers, for any number of threads, clients, questions and  *)
(* messages.                                                                  *)
EXTENDS Exchange, SequenceTheorems, WellFoundedInduction, TLAPS

-----------------------------------------------------------------------------
(* Induction over the natural numbers, as a fact about sets *)

\* Every set of natural numbers that is not empty has a least one.
LEMMA LeastNumber ==
  ASSUME NEW T \in SUBSET Nat, T # {}
  PROVE  \E n \in T : \A m \in T : n <= m
<1>1. IsWellFoundedOn(OpToRel(<, Nat), Nat)
  BY NatLessThanWellFounded
<1>2. PICK n \in T : \A m \in T : <<m, n>> \notin OpToRel(<, Nat)
  BY <1>1, WFMin
<1>3. \A m \in T : ~(m < n)
  BY <1>2 DEF OpToRel
<1> QED
  BY <1>3

\* Induction, for a set of numbers in place of a property.
LEMMA InductionOnSet ==
  ASSUME NEW T \in SUBSET Nat, 0 \in T, \A n \in T : n + 1 \in T
  PROVE  \A n \in Nat : n \in T
<1>1. SUFFICES ASSUME Nat \ T # {} PROVE FALSE
  OBVIOUS
<1>2. PICK n \in Nat \ T : \A m \in Nat \ T : n <= m
  BY <1>1, LeastNumber
<1>3. n # 0 /\ n - 1 \in Nat
  BY <1>2
<1>4. n - 1 \in T
  BY <1>2, <1>3
<1>5. (n - 1) + 1 \in T
  BY <1>4
<1> QED
  BY <1>2, <1>5

\* A function on the first numbers is a sequence of that length.
LEMMA FunctionIsSeq ==
  ASSUME NEW S, NEW n \in Nat, NEW f \in [1 .. n -> S]
  PROVE  f \in Seq(S) /\ Len(f) = n
<1>1. f \in Seq(S)
  BY SeqDef, Zenon
<1>2. DOMAIN f = 1 .. n
  OBVIOUS
<1>3. Len(f) \in Nat /\ DOMAIN f = 1 .. Len(f)
  BY <1>1, LenProperties
<1>4. Len(f) = n
  BY <1>2, <1>3
<1> QED
  BY <1>1, <1>4

-----------------------------------------------------------------------------
(* FlattenSeq *)

\* f[i] joins the first i sequences of ss.
Joins(ss, f, n) ==
  \A i \in 1 .. n : f[i] = IF i = 1 THEN ss[1] ELSE f[i - 1] \o ss[i]

\* There is such a function, up to any length.
Joinable(ss, n, S) == \E f \in [1 .. n -> Seq(S)] : Joins(ss, f, n)

\* A sequence of sequences can be joined up to any length.
LEMMA JoinExists ==
  ASSUME NEW S, NEW ss \in Seq(Seq(S)), NEW n \in Nat, n <= Len(ss)
  PROVE  Joinable(ss, n, S)
<1> DEFINE T == {k \in Nat : k <= Len(ss) => \E f \in [1 .. k -> Seq(S)] : Joins(ss, f, k)}
<1>1. 0 \in T
  <2>1. [i \in 1 .. 0 |-> <<>>] \in [1 .. 0 -> Seq(S)]
    OBVIOUS
  <2>2. Joins(ss, [i \in 1 .. 0 |-> <<>>], 0)
    BY DEF Joins
  <2> QED
    BY <2>1, <2>2
<1>2. ASSUME NEW k \in T PROVE k + 1 \in T
  <2> SUFFICES ASSUME k + 1 <= Len(ss)
               PROVE  \E g \in [1 .. k + 1 -> Seq(S)] : Joins(ss, g, k + 1)
    OBVIOUS
  <2>1. k \in Nat /\ k + 1 \in 1 .. Len(ss) /\ ss[k + 1] \in Seq(S) /\ 1 \in 1 .. Len(ss)
    BY ElementOfSeq
  <2>2. PICK f \in [1 .. k -> Seq(S)] : Joins(ss, f, k)
    BY <2>1
  <2> DEFINE g == [i \in 1 .. k + 1 |-> IF i <= k THEN f[i]
                                        ELSE IF k = 0 THEN ss[1] ELSE f[k] \o ss[k + 1]]
  <2>3. (IF k = 0 THEN ss[1] ELSE f[k] \o ss[k + 1]) \in Seq(S)
    BY <2>1, <2>2, ConcatProperties
  <2>4. g \in [1 .. k + 1 -> Seq(S)]
    BY <2>1, <2>2, <2>3
  <2>5. Joins(ss, g, k + 1)
    <3> SUFFICES ASSUME NEW i \in 1 .. k + 1
                 PROVE  g[i] = IF i = 1 THEN ss[1] ELSE g[i - 1] \o ss[i]
      BY DEF Joins
    <3>1. CASE i <= k
      <4>1. g[i] = f[i] /\ (i # 1 => g[i - 1] = f[i - 1])
        BY <3>1, <2>1
      <4>2. i \in 1 .. k
        BY <3>1, <2>1
      <4>3. f[i] = IF i = 1 THEN ss[1] ELSE f[i - 1] \o ss[i]
        BY <4>2, <2>2 DEF Joins
      <4> QED
        BY <4>1, <4>3
    <3>2. CASE i = k + 1
      <4>1. i # 1 => k # 0 /\ g[i - 1] = f[k]
        BY <3>2, <2>1
      <4>2. g[i] = IF k = 0 THEN ss[1] ELSE f[k] \o ss[k + 1]
        BY <3>2, <2>1
      <4> QED
        BY <3>2, <4>1, <4>2, <2>1
    <3> QED
      BY <3>1, <3>2, <2>1
  <2> QED
    BY <2>4, <2>5
<1> HIDE DEF T
<1>3. \A k \in Nat : k \in T
  BY <1>1, <1>2, InductionOnSet DEF T
<1> QED
  BY <1>3 DEF T, Joinable

\* Two functions have the same values up to n.
Agree(f, g, n) == \A i \in 1 .. n : f[i] = g[i]

\* It is determined by the sequences it joins.
LEMMA JoinsAgree ==
  ASSUME NEW ss, NEW tt, NEW f, NEW g, NEW n \in Nat,
         Joins(ss, f, n), Joins(tt, g, n), Agree(ss, tt, n)
  PROVE  Agree(f, g, n)
<1> DEFINE T == {k \in Nat : k \in 1 .. n => f[k] = g[k]}
<1>1. 0 \in T
  OBVIOUS
<1>2. ASSUME NEW k \in T PROVE k + 1 \in T
  <2> SUFFICES ASSUME k + 1 \in 1 .. n PROVE f[k + 1] = g[k + 1]
    OBVIOUS
  <2>1. CASE k = 0
    BY <2>1 DEF Joins, Agree
  <2>2. CASE k # 0
    <3>1. f[k] = g[k] /\ (k + 1) - 1 = k /\ k + 1 # 1
      BY <2>2
    <3> QED
      BY <3>1 DEF Joins, Agree
  <2> QED
    BY <2>1, <2>2
<1> HIDE DEF T
<1>3. \A k \in Nat : k \in T
  BY <1>1, <1>2, InductionOnSet DEF T
<1> QED
  BY <1>3 DEF T, Agree

\* FlattenSeq is what such a function comes to.
LEMMA FlattenIs ==
  ASSUME NEW S, NEW ss \in Seq(Seq(S)), ss # <<>>
  PROVE  \E f \in [1 .. Len(ss) -> Seq(S)] :
           Joins(ss, f, Len(ss)) /\ FlattenSeq(ss) = f[Len(ss)]
<1> DEFINE Body(f) == [i \in 1 .. Len(ss) |-> IF i = 1 THEN ss[i] ELSE f[i - 1] \o ss[i]]
           F == CHOOSE f : f = Body(f)
<1>1. Len(ss) \in Nat /\ Len(ss) # 0
  BY EmptySeq
<1>2. FlattenSeq(ss) = F[Len(ss)]
  BY <1>1 DEF FlattenSeq
<1>3. PICK f \in [1 .. Len(ss) -> Seq(S)] : Joins(ss, f, Len(ss))
  <2>1. Joinable(ss, Len(ss), S)
    BY <1>1, JoinExists
  <2> QED
    BY <2>1, Zenon DEF Joinable
<1>4. f = Body(f)
  BY <1>3 DEF Joins
<1>5. F = Body(F)
  BY <1>4, Zenon
<1>6. PICK G : G = F /\ G = Body(G)
  BY <1>5, Zenon
<1> HIDE DEF F
<1>7. Joins(ss, G, Len(ss))
  <2>1. \A i \in 1 .. Len(ss) : G[i] = IF i = 1 THEN ss[i] ELSE G[i - 1] \o ss[i]
    BY <1>6, Zenon
  <2>2. \A i \in 1 .. Len(ss) : G[i] = IF i = 1 THEN ss[1] ELSE G[i - 1] \o ss[i]
    BY <2>1, Zenon
  <2> QED
    BY <2>2, Zenon DEF Joins
<1>8. G[Len(ss)] = f[Len(ss)]
  <2>1. Agree(ss, ss, Len(ss))
    BY DEF Agree
  <2>2. Agree(G, f, Len(ss))
    BY <1>1, <1>3, <1>7, <2>1, JoinsAgree
  <2>3. Len(ss) \in 1 .. Len(ss)
    BY <1>1
  <2> QED
    BY <2>2, <2>3 DEF Agree
<1> QED
  BY <1>2, <1>3, <1>6, <1>8

\* Nothing joined is nothing.
LEMMA FlattenEmpty == FlattenSeq(<<>>) = <<>>
  BY EmptySeq DEF FlattenSeq

\* What is joined from sequences over a set is a sequence over it.
LEMMA FlattenTyped ==
  ASSUME NEW S, NEW ss \in Seq(Seq(S))
  PROVE  FlattenSeq(ss) \in Seq(S)
<1>1. CASE ss = <<>>
  BY <1>1, FlattenEmpty, EmptySeq
<1>2. CASE ss # <<>>
  <2>1. Len(ss) \in 1 .. Len(ss)
    BY <1>2, EmptySeq
  <2>2. PICK f \in [1 .. Len(ss) -> Seq(S)] : FlattenSeq(ss) = f[Len(ss)]
    BY <1>2, FlattenIs
  <2> QED
    BY <2>1, <2>2
<1> QED
  BY <1>1, <1>2

-----------------------------------------------------------------------------
(* ToSet: what a sequence holds *)

\* The elements of a sequence are what its indices reach.
LEMMA ElementsOf ==
  ASSUME NEW S, NEW s \in Seq(S)
  PROVE  /\ ToSet(s) \subseteq S
         /\ \A i \in 1 .. Len(s) : s[i] \in ToSet(s)
         /\ \A x \in ToSet(s) : \E i \in 1 .. Len(s) : x = s[i]
<1>1. DOMAIN s = 1 .. Len(s)
  OBVIOUS
<1>2. \A i \in 1 .. Len(s) : s[i] \in S
  BY ElementOfSeq
<1> QED
  BY <1>1, <1>2 DEF ToSet

\* An empty sequence has no elements.
LEMMA ElementsOfEmpty == ToSet(<<>>) = {}
  BY DEF ToSet

\* A sequence of one has that one.
LEMMA ElementsOfOne ==
  ASSUME NEW x
  PROVE  ToSet(<<x>>) = {x}
<1>1. DOMAIN <<x>> = 1 .. 1 /\ <<x>>[1] = x
  OBVIOUS
<1> QED
  BY <1>1 DEF ToSet

\* Two sequences together have the elements of both.
LEMMA ElementsOfConcat ==
  ASSUME NEW S, NEW x \in Seq(S), NEW y \in Seq(S)
  PROVE  ToSet(x \o y) = ToSet(x) \cup ToSet(y)
<1>1. PICK z : z = x \o y
  OBVIOUS
<1>2. /\ z \in Seq(S) /\ Len(x) \in Nat /\ Len(y) \in Nat /\ Len(z) = Len(x) + Len(y)
      /\ \A i \in 1 .. Len(x) + Len(y) : z[i] = IF i <= Len(x) THEN x[i] ELSE y[i - Len(x)]
  BY <1>1, ConcatProperties, LenProperties
<1>3. ASSUME NEW e \in ToSet(z) PROVE e \in ToSet(x) \cup ToSet(y)
  <2>1. PICK i \in 1 .. Len(z) : e = z[i]
    BY <1>2, <1>3, ElementsOf
  <2>2. CASE i <= Len(x)
    <3>1. e = x[i] /\ i \in 1 .. Len(x)
      BY <1>2, <2>1, <2>2
    <3> QED
      BY <3>1, ElementsOf
  <2>3. CASE ~(i <= Len(x))
    <3>1. e = y[i - Len(x)] /\ i - Len(x) \in 1 .. Len(y)
      BY <1>2, <2>1, <2>3
    <3> QED
      BY <3>1, ElementsOf
  <2> QED
    BY <2>2, <2>3
<1>4. ASSUME NEW e \in ToSet(x) PROVE e \in ToSet(z)
  <2>1. PICK i \in 1 .. Len(x) : e = x[i]
    BY <1>4, ElementsOf
  <2>2. i \in 1 .. Len(z) /\ e = z[i]
    BY <1>2, <2>1
  <2> QED
    BY <1>2, <2>2, ElementsOf
<1>5. ASSUME NEW e \in ToSet(y) PROVE e \in ToSet(z)
  <2>1. PICK i \in 1 .. Len(y) : e = y[i]
    BY <1>5, ElementsOf
  <2>2. PICK j \in Nat : j = Len(x) + i
    BY <1>2, <2>1
  <2>3. j \in 1 .. Len(z) /\ e = z[j]
    BY <1>2, <2>1, <2>2
  <2> QED
    BY <1>2, <2>3, ElementsOf
<1>6. ToSet(z) = ToSet(x) \cup ToSet(y)
  BY <1>3, <1>4, <1>5
<1> QED
  BY <1>1, <1>6

\* An appended element is one element more.
LEMMA ElementsOfAppend ==
  ASSUME NEW S, NEW s \in Seq(S), NEW x \in S
  PROVE  ToSet(Append(s, x)) = ToSet(s) \cup {x}
<1>1. <<x>> \in Seq(S) /\ Append(s, x) = s \o <<x>>
  BY AppendIsConcat
<1>2. ToSet(s \o <<x>>) = ToSet(s) \cup ToSet(<<x>>)
  <2>1. PICK t : t = <<x>>
    OBVIOUS
  <2>2. t \in Seq(S)
    BY <1>1, <2>1
  <2>3. ToSet(s \o t) = ToSet(s) \cup ToSet(t)
    BY <2>2, ElementsOfConcat
  <2> QED
    BY <2>1, <2>3, Zenon
<1> QED
  BY <1>1, <1>2, ElementsOfOne

\* The head is an element, and what follows it has no others.
LEMMA ElementsOfTail ==
  ASSUME NEW S, NEW s \in Seq(S), s # <<>>
  PROVE  Head(s) \in ToSet(s) /\ ToSet(Tail(s)) \subseteq ToSet(s)
<1>1. PICK t : t = Tail(s)
  OBVIOUS
<1>2. /\ t \in Seq(S) /\ Len(s) \in Nat /\ Len(s) # 0 /\ Len(t) = Len(s) - 1
      /\ \A i \in 1 .. Len(t) : t[i] = s[i + 1]
  BY <1>1, HeadTailProperties, LenProperties, EmptySeq
<1>3. ASSUME NEW e \in ToSet(t) PROVE e \in ToSet(s)
  <2>1. PICK i \in 1 .. Len(t) : e = t[i]
    BY <1>2, <1>3, ElementsOf
  <2>2. i + 1 \in 1 .. Len(s) /\ e = s[i + 1]
    BY <1>2, <2>1
  <2> QED
    BY <2>2, ElementsOf
<1>4. Head(s) = s[1] /\ 1 \in 1 .. Len(s)
  BY <1>2, HeadTailProperties
<1> QED
  BY <1>1, <1>3, <1>4, ElementsOf

\* What FlattenSeq joins is what its sequences hold.
LEMMA FlattenElements ==
  ASSUME NEW S, NEW ss \in Seq(Seq(S))
  PROVE  ToSet(FlattenSeq(ss)) = UNION {ToSet(ss[i]) : i \in 1 .. Len(ss)}
<1>1. CASE ss = <<>>
  <2>1. 1 .. Len(ss) = {}
    BY <1>1, EmptySeq
  <2> QED
    BY <1>1, <2>1, FlattenEmpty, ElementsOfEmpty
<1>2. CASE ss # <<>>
  <2>1. PICK n \in Nat : n = Len(ss) /\ n # 0
    BY <1>2, LenProperties, EmptySeq
  <2>2. PICK f \in [1 .. n -> Seq(S)] : Joins(ss, f, n) /\ FlattenSeq(ss) = f[n]
    BY <1>2, <2>1, FlattenIs
  <2>3. \A i \in 1 .. n : ss[i] \in Seq(S) /\ f[i] \in Seq(S)
    BY <2>1, <2>2, ElementOfSeq
  <2> DEFINE Held(k) == UNION {ToSet(ss[i]) : i \in 1 .. k}
             T == {k \in Nat : k \in 1 .. n => ToSet(f[k]) = Held(k)}
  <2>4. 0 \in T
    OBVIOUS
  <2>5. ASSUME NEW k \in T PROVE k + 1 \in T
    <3>1. PICK i \in Nat : i = k + 1
      OBVIOUS
    <3>2. SUFFICES ASSUME i \in 1 .. n PROVE ToSet(f[i]) = Held(i)
      BY <3>1
    <3>3. k \in Nat /\ i - 1 = k
      BY <3>1
    <3>4. CASE k = 0
      <4>1. i = 1
        BY <3>1, <3>4
      <4>2. f[1] = ss[1]
        BY <2>2, <3>2, <4>1 DEF Joins
      <4>3. 1 .. 1 = {1}
        OBVIOUS
      <4> QED
        BY <4>1, <4>2, <4>3
    <3>5. CASE k # 0
      <4>1. k \in 1 .. n /\ i # 1
        BY <3>1, <3>2, <3>5
      <4>2. ToSet(f[k]) = Held(k) /\ f[k] \in Seq(S) /\ ss[i] \in Seq(S)
        BY <2>3, <3>2, <4>1
      <4>3. f[i] = f[k] \o ss[i]
        BY <2>2, <3>2, <3>3, <4>1 DEF Joins
      <4>4. PICK x \in Seq(S), y \in Seq(S) : x = f[k] /\ y = ss[i]
        BY <4>2
      <4>5. ToSet(x \o y) = ToSet(x) \cup ToSet(y)
        BY <4>4, ElementsOfConcat
      <4>6. ToSet(f[i]) = Held(k) \cup ToSet(ss[i])
        BY <4>2, <4>3, <4>4, <4>5, Zenon
      <4>7. 1 .. i = (1 .. k) \cup {i}
        BY <3>1, <3>3
      <4> QED
        BY <4>6, <4>7
    <3> QED
      BY <3>4, <3>5
  <2>6. n \in T
    <3>1. T \in SUBSET Nat /\ \A k \in T : k + 1 \in T
      BY <2>5
    <3> HIDE DEF T
    <3> QED
      BY <2>1, <2>4, <3>1, InductionOnSet
  <2>7. n \in 1 .. n
    BY <2>1
  <2> QED
    BY <2>1, <2>2, <2>6, <2>7
<1> QED
  BY <1>1, <1>2

\* A part of a sequence holds nothing that the sequence does not.
LEMMA ElementsOfSubSeq ==
  ASSUME NEW S, NEW s \in Seq(S), NEW m \in 1 .. Len(s) + 1, NEW n \in 0 .. Len(s)
  PROVE  /\ SubSeq(s, m, n) \in Seq(S)
         /\ \A x \in ToSet(SubSeq(s, m, n)) : \E i \in m .. n : x = s[i]
         /\ \A i \in m .. n : s[i] \in ToSet(SubSeq(s, m, n))
<1>1. PICK t : t = SubSeq(s, m, n)
  OBVIOUS
<1>2. m \in Int /\ n \in Int /\ Len(s) \in Nat /\ m .. n \subseteq 1 .. Len(s)
  BY LenProperties
<1>3. \A i \in m .. n : s[i] \in S
  BY <1>2, ElementOfSeq
<1>4. /\ t \in Seq(S) /\ Len(t) = (IF m <= n THEN n - m + 1 ELSE 0)
      /\ \A i \in 1 .. n - m + 1 : t[i] = s[m + i - 1]
  BY <1>1, <1>2, <1>3, SubSeqProperties
<1>5. ASSUME NEW x \in ToSet(t) PROVE \E i \in m .. n : x = s[i]
  <2>1. PICK i \in 1 .. Len(t) : x = t[i]
    BY <1>4, <1>5, ElementsOf
  <2>2. m + i - 1 \in m .. n /\ x = s[m + i - 1]
    BY <1>2, <1>4, <2>1
  <2> QED
    BY <2>2
<1>6. ASSUME NEW i \in m .. n PROVE s[i] \in ToSet(t)
  <2>1. PICK j \in Nat : j = i - m + 1
    BY <1>2
  <2>2. j \in 1 .. n - m + 1 /\ j \in 1 .. Len(t) /\ m + j - 1 = i
    BY <1>2, <1>4, <2>1
  <2>3. t[j] = s[i]
    BY <1>4, <2>2
  <2>4. t[j] \in ToSet(t)
    BY <1>4, <2>2, ElementsOf
  <2> QED
    BY <2>3, <2>4
<1> QED
  BY <1>1, <1>4, <1>5, <1>6

\* RemoveAt takes nothing away but what is at i.
LEMMA ElementsOfRemoveAt ==
  ASSUME NEW S, NEW s \in Seq(S), NEW i \in 1 .. Len(s)
  PROVE  /\ RemoveAt(s, i) \in Seq(S)
         /\ ToSet(RemoveAt(s, i)) \subseteq ToSet(s)
         /\ ToSet(s) \subseteq ToSet(RemoveAt(s, i)) \cup {s[i]}
<1> DEFINE m == i - 1
           n == i + 1
           k == Len(s)
<1>1. /\ m = i - 1 /\ n = i + 1 /\ k = Len(s)
      /\ m \in Nat /\ n \in Nat /\ k \in Nat
  BY LenProperties
<1> HIDE DEF m, n, k
<1>2. /\ 1 \in 1 .. Len(s) + 1 /\ m \in 0 .. Len(s)
      /\ n \in 1 .. Len(s) + 1 /\ k \in 0 .. Len(s)
  BY <1>1
<1>3. PICK a, b : a = SubSeq(s, 1, m) /\ b = SubSeq(s, n, k)
  OBVIOUS
<1>4. /\ a \in Seq(S)
      /\ \A x \in ToSet(a) : \E j \in 1 .. m : x = s[j]
      /\ \A j \in 1 .. m : s[j] \in ToSet(a)
  BY <1>2, <1>3, ElementsOfSubSeq
<1>5. /\ b \in Seq(S)
      /\ \A x \in ToSet(b) : \E j \in n .. k : x = s[j]
      /\ \A j \in n .. k : s[j] \in ToSet(b)
  BY <1>2, <1>3, ElementsOfSubSeq
<1>6. RemoveAt(s, i) = a \o b
  BY <1>1, <1>3, Zenon DEF RemoveAt
<1>7. ToSet(a \o b) = ToSet(a) \cup ToSet(b) /\ a \o b \in Seq(S)
  BY <1>4, <1>5, ElementsOfConcat, ConcatProperties
<1>8. ToSet(a) \cup ToSet(b) \subseteq ToSet(s)
  <2>1. \A j \in 1 .. m : s[j] \in ToSet(s)
    BY <1>1, ElementsOf
  <2>2. \A j \in n .. k : s[j] \in ToSet(s)
    BY <1>1, ElementsOf
  <2> QED
    BY <2>1, <2>2, <1>4, <1>5
<1>9. ASSUME NEW x \in ToSet(s) PROVE x \in ToSet(a) \cup ToSet(b) \cup {s[i]}
  <2>1. PICK j \in 1 .. Len(s) : x = s[j]
    BY <1>9, ElementsOf
  <2>2. j \in 1 .. m \/ j = i \/ j \in n .. k
    BY <1>1, <2>1
  <2> QED
    BY <2>1, <2>2, <1>4, <1>5
<1> QED
  BY <1>6, <1>7, <1>8, <1>9

-----------------------------------------------------------------------------
(* What is asked, told and given out *)

\* What a client has or will have in _pending.
Heard(c) == ToSet(wire[c]) \cup ToSet(pending[c])

\* A request_id that next_request_id() has given out.
Issued(rid) == rid.nr \in 1 .. drawn[rid.client]

Numbered ==
  /\ \A q \in ToSet(asked) : Issued(q.rid)
  /\ \A c \in Clients : \A m \in Heard(c) : m.rid = NoRid \/ Issued(m.rid)

\* A thread's request_id is its own: what carries it answers its question, and
\* answers it after it was asked.
Owned(t) ==
  op[t].kind \in Asks =>
    /\ op[t].rid.client = ClientOf[t] /\ Issued(op[t].rid) /\ op[t].sent <= version
    /\ \A q \in ToSet(asked) : q.rid = op[t].rid => q.cmd = op[t].cmd
    /\ \A c \in Clients : \A m \in Heard(c) :
         m.rid = op[t].rid => m.cmd = op[t].cmd /\ m.ver >= op[t].sent

\* _io_lock is held by a thread of the client, and by whoever is in a method
\* that takes it.
LockKept ==
  /\ \A c \in Clients : ioLock[c] # Free => ClientOf[ioLock[c]] = c
  /\ \A t \in Threads : op[t].kind \in Locked => ioLock[ClientOf[t]] = t
  /\ \A t \in Threads : op[t] = Idle \/ op[t].kind \in Kinds[t]

Own == Numbered /\ \A t \in Threads : Owned(t)

IInv == TypeOK /\ LockKept /\ Own

-----------------------------------------------------------------------------
(* The operators of the model *)

\* What a pass over _pending takes and leaves was there before.
LEMMA PassKeeps ==
  ASSUME NEW S, NEW p \in Seq(S), NEW cmd
  PROVE  /\ Of(p, cmd) \in Seq(S) /\ ToSet(Of(p, cmd)) \subseteq ToSet(p)
         /\ Without(p, cmd) \in Seq(S) /\ ToSet(Without(p, cmd)) \subseteq ToSet(p)
<1> DEFINE ss == [i \in 1 .. Len(p) |-> IF p[i].cmd = cmd THEN <<p[i]>> ELSE <<>>]
           tt == [i \in 1 .. Len(p) |-> IF p[i].cmd = cmd THEN <<>> ELSE <<p[i]>>]
<1>1. Len(p) \in Nat
  BY LenProperties
<1>2. \A i \in 1 .. Len(p) : p[i] \in S /\ p[i] \in ToSet(p)
  BY ElementOfSeq, ElementsOf
<1>3. \A i \in 1 .. Len(p) : <<p[i]>> \in Seq(S) /\ ToSet(<<p[i]>>) = {p[i]}
  <2> TAKE i \in 1 .. Len(p)
  <2>1. PICK x \in S : x = p[i]
    BY <1>2
  <2>2. <<x>> \in Seq(S)
    OBVIOUS
  <2> QED
    BY <2>1, <2>2, ElementsOfOne, Zenon
<1>4. <<>> \in Seq(S) /\ ToSet(<<>>) = {}
  BY EmptySeq, ElementsOfEmpty
<1>5. \A i \in 1 .. Len(p) : ss[i] \in {<<p[i]>>, <<>>} /\ tt[i] \in {<<p[i]>>, <<>>}
  BY Zenon
<1>6. ss \in [1 .. Len(p) -> Seq(S)] /\ tt \in [1 .. Len(p) -> Seq(S)]
  BY <1>3, <1>4, Zenon
<1> HIDE DEF ss, tt
<1>7. /\ ss \in Seq(Seq(S)) /\ Len(ss) = Len(p)
      /\ tt \in Seq(Seq(S)) /\ Len(tt) = Len(p)
  BY <1>1, <1>6, FunctionIsSeq
<1>8. \A i \in 1 .. Len(p) : ToSet(ss[i]) \subseteq ToSet(p) /\ ToSet(tt[i]) \subseteq ToSet(p)
  BY <1>2, <1>3, <1>4, <1>5, Zenon
<1>9. FlattenSeq(ss) \in Seq(S) /\ ToSet(FlattenSeq(ss)) \subseteq ToSet(p)
  <2>1. FlattenSeq(ss) \in Seq(S)
    BY <1>7, FlattenTyped
  <2>2. ToSet(FlattenSeq(ss)) = UNION {ToSet(ss[i]) : i \in 1 .. Len(ss)}
    BY <1>7, FlattenElements
  <2> QED
    BY <1>7, <1>8, <2>1, <2>2, Zenon
<1>10. FlattenSeq(tt) \in Seq(S) /\ ToSet(FlattenSeq(tt)) \subseteq ToSet(p)
  <2>1. FlattenSeq(tt) \in Seq(S)
    BY <1>7, FlattenTyped
  <2>2. ToSet(FlattenSeq(tt)) = UNION {ToSet(tt[i]) : i \in 1 .. Len(tt)}
    BY <1>7, FlattenElements
  <2> QED
    BY <1>7, <1>8, <2>1, <2>2, Zenon
<1> QED
  BY <1>9, <1>10, Zenon DEF Of, Without, ss, tt

\* What request() puts back is not new either.
LEMMA RequestKeeps ==
  ASSUME NEW S, NEW p \in Seq(S), NEW i \in 1 .. Len(p), NEW cmd
  PROVE  RequestKept(p, i, cmd) \in Seq(S) /\ ToSet(RequestKept(p, i, cmd)) \subseteq ToSet(p)
<1>1. PICK n, a, b : n = i - 1 /\ a = SubSeq(p, 1, i - 1) /\ b = Without(a, cmd)
  OBVIOUS
<1>2. 1 \in 1 .. Len(p) + 1 /\ n \in 0 .. Len(p) /\ \A j \in 1 .. n : j \in 1 .. Len(p)
  <2>1. Len(p) \in Nat
    BY LenProperties
  <2> QED
    BY <1>1, <2>1
<1>3. a = SubSeq(p, 1, n)
  BY <1>1, Zenon
<1>4. a \in Seq(S) /\ \A x \in ToSet(a) : \E j \in 1 .. n : x = p[j]
  BY <1>2, <1>3, ElementsOfSubSeq
<1>5. ToSet(a) \subseteq ToSet(p)
  BY <1>2, <1>4, ElementsOf
<1>6. b \in Seq(S) /\ ToSet(b) \subseteq ToSet(p)
  <2>1. Without(a, cmd) \in Seq(S) /\ ToSet(Without(a, cmd)) \subseteq ToSet(a)
    BY <1>4, PassKeeps
  <2> QED
    BY <1>1, <1>5, <2>1, Zenon
<1>7. b \o p \in Seq(S) /\ ToSet(b \o p) = ToSet(b) \cup ToSet(p)
  BY <1>6, ElementsOfConcat, ConcatProperties
<1>8. RequestKept(p, i, cmd) = b \o p
  BY <1>1, Zenon DEF RequestKept
<1> QED
  BY <1>6, <1>7, <1>8, Zenon

\* The first hit is a hit.
LEMMA FirstHit ==
  ASSUME NEW p, NEW o, Hits(o, p) # {}, Len(p) \in Nat
  PROVE  Min(Hits(o, p)) \in Hits(o, p)
<1>1. Hits(o, p) \in SUBSET Nat
  BY DEF Hits
<1>2. \E n \in Hits(o, p) : \A m \in Hits(o, p) : n <= m
  BY <1>1, LeastNumber
<1> QED
  BY <1>2 DEF Min

-----------------------------------------------------------------------------
(* What an action does to the exchanges *)

\* "none" is no way of asking.
LEMMA NobodyIdles == Idle.kind \notin Locked /\ Idle.kind \notin Asks /\ Idle.kind \notin AllKinds
BY DEF Idle, Locked, Asks, Streams, AllKinds

\* The thread goes on with its exchange.
Turned(t) ==
  /\ op' \in [Threads -> {Idle} \cup Exchanges]
  /\ op'[t] # Idle
  /\ op'[t].kind = op[t].kind /\ op'[t].rid = op[t].rid
  /\ op'[t].cmd = op[t].cmd /\ op'[t].sent = op[t].sent
  /\ \A u \in Threads \ {t} : op'[u] = op[u]

\* The thread has left its exchange, and the lock if it held it.
Ended(t) ==
  /\ op' \in [Threads -> {Idle} \cup Exchanges]
  /\ op'[t] = Idle
  /\ \A u \in Threads \ {t} : op'[u] = op[u]
  /\ ioLock' \in [Clients -> Threads \cup {Free}]
  /\ \A c \in Clients : ioLock'[c] = Free \/ (ioLock'[c] = ioLock[c] /\ ioLock[c] # t)
  /\ \A c \in Clients : ioLock[c] # t => ioLock'[c] = ioLock[c]

\* A thread that goes round again, having seen nothing to fall back to.
LEMMA Turns ==
  ASSUME op \in [Threads -> {Idle} \cup Exchanges], NEW t \in Threads, op[t] # Idle,
         NEW x \in {"collect", "sift"}, op' = [op EXCEPT ![t].at = x]
  PROVE  Turned(t) /\ op'[t].at = x
<1>1. PICK o : o = op[t] /\ o \in Exchanges
  OBVIOUS
<1>2. PICK n : n = [o EXCEPT !.at = x]
  OBVIOUS
<1>3. /\ n \in Exchanges /\ n.at = x
      /\ n.kind = o.kind /\ n.rid = o.rid /\ n.cmd = o.cmd /\ n.sent = o.sent
  BY <1>1, <1>2 DEF Exchanges
<1>4. n # Idle
  <2>1. n.kind \in AllKinds
    BY <1>3 DEF Exchanges
  <2> QED
    BY <2>1, NobodyIdles
<1>5. op' = [op EXCEPT ![t] = n]
  BY <1>1, <1>2
<1> QED
  BY <1>1, <1>3, <1>4, <1>5 DEF Turned

\* The same, with what it falls back to.
LEMMA TurnsWith ==
  ASSUME op \in [Threads -> {Idle} \cup Exchanges], NEW t \in Threads, op[t] # Idle,
         NEW x \in {"collect", "sift"}, NEW f \in Seq(Message),
         op' = [op EXCEPT ![t].at = x, ![t].found = IF @ = <<>> /\ f # <<>> THEN <<f[1]>> ELSE @]
  PROVE  Turned(t) /\ op'[t].at = x
<1>1. PICK o : o = op[t] /\ o \in Exchanges
  OBVIOUS
<1>2. PICK y : y = IF o.found = <<>> /\ f # <<>> THEN <<f[1]>> ELSE o.found
  OBVIOUS
<1>3. y \in Seq(Message)
  <2>1. o.found \in Seq(Message)
    BY <1>1 DEF Exchanges
  <2>2. f # <<>> => f[1] \in Message
    <3>1. f # <<>> => 1 \in 1 .. Len(f)
      BY EmptySeq
    <3> QED
      BY <3>1, ElementOfSeq
  <2>3. f # <<>> => <<f[1]>> \in Seq(Message)
    BY <2>2
  <2> QED
    BY <1>2, <2>1, <2>3
<1>4. PICK n : n = [o EXCEPT !.at = x, !.found = y]
  OBVIOUS
<1>5. /\ n \in Exchanges /\ n.at = x
      /\ n.kind = o.kind /\ n.rid = o.rid /\ n.cmd = o.cmd /\ n.sent = o.sent
  BY <1>1, <1>3, <1>4 DEF Exchanges
<1>6. n # Idle
  <2>1. n.kind \in AllKinds
    BY <1>5 DEF Exchanges
  <2> QED
    BY <2>1, NobodyIdles
<1>7. op' = [op EXCEPT ![t] = n]
  BY <1>1, <1>2, <1>4
<1> QED
  BY <1>1, <1>5, <1>6, <1>7 DEF Turned

\* A thread that begins.
Started(t, kind, cmd, rid) == op' = [op EXCEPT ![t] = Asking(kind, cmd, rid)]

\* A thread that begins has nothing collected, and remembers which state of the
\* device it asked about.
LEMMA Starts ==
  ASSUME TypeOK, NEW t \in Threads, NEW kind \in AllKinds, NEW cmd \in Commands, NEW rid \in Rid,
         Started(t, kind, cmd, rid)
  PROVE  /\ op' \in [Threads -> {Idle} \cup Exchanges]
         /\ op'[t].kind = kind /\ op'[t].rid = rid /\ op'[t].cmd = cmd /\ op'[t].sent = version
         /\ op'[t].at = "collect"
         /\ \A u \in Threads \ {t} : op'[u] = op[u]
<1>1. version \in Nat /\ op \in [Threads -> {Idle} \cup Exchanges]
  BY DEF TypeOK
<1>2. PICK n : n = Asking(kind, cmd, rid)
  OBVIOUS
<1>3. /\ n \in Exchanges /\ n.kind = kind /\ n.rid = rid /\ n.cmd = cmd /\ n.sent = version
      /\ n.at = "collect"
  <2>1. <<>> \in Seq(Message)
    OBVIOUS
  <2> QED
    BY <1>1, <1>2, <2>1 DEF Asking, Exchanges
<1>4. op' = [op EXCEPT ![t] = n]
  BY <1>2 DEF Started
<1> QED
  BY <1>1, <1>3, <1>4

\* A thread that is done, and the lock it held.
LEMMA Ends ==
  ASSUME IInv, NEW t \in Threads, Finish(t)
  PROVE  Ended(t)
<1>1. op \in [Threads -> {Idle} \cup Exchanges] /\ ioLock \in [Clients -> Threads \cup {Free}]
  BY DEF IInv, TypeOK
<1>2. Free # t /\ ClientOf[t] \in Clients
  BY ExchangeAssumption DEF Clients
<1>3. /\ op' = [op EXCEPT ![t] = Idle]
      /\ ioLock' = [ioLock EXCEPT ![ClientOf[t]] = IF @ = t THEN Free ELSE @]
  BY DEF Finish
<1>4. \A c \in Clients \ {ClientOf[t]} : ioLock'[c] = ioLock[c] /\ ioLock[c] # t
  BY <1>1, <1>2, <1>3 DEF IInv, LockKept
<1> QED
  BY <1>1, <1>2, <1>3, <1>4 DEF Ended

\* Nothing is asked, nothing comes in, and no exchange becomes another.
NothingNew ==
  /\ ToSet(asked') \subseteq ToSet(asked)
  /\ \A c \in Clients : Heard(c)' \subseteq Heard(c)
SameExchanges ==
  \A t \in Threads : op'[t].kind \in Asks =>
    /\ op[t].kind \in Asks /\ op'[t].rid = op[t].rid
    /\ op'[t].cmd = op[t].cmd /\ op'[t].sent = op[t].sent
Quiet == NothingNew /\ SameExchanges /\ drawn' = drawn /\ version' = version

\* A step that brings no message and turns no exchange into another leaves every
\* message heard an answer to whoever asked for it.
LEMMA QuietKeeps ==
  ASSUME Own, Quiet
  PROVE  Own'
<1>1. Numbered'
  BY DEF Own, Quiet, NothingNew, Numbered, Issued
<1>2. ASSUME NEW t \in Threads PROVE Owned(t)'
  <2>1. SUFFICES ASSUME op'[t].kind \in Asks PROVE Owned(t)'
    BY DEF Owned
  <2>2. /\ op[t].kind \in Asks /\ op'[t].rid = op[t].rid
        /\ op'[t].cmd = op[t].cmd /\ op'[t].sent = op[t].sent
    BY <2>1 DEF Quiet, SameExchanges
  <2>3. Owned(t)
    BY DEF Own
  <2> QED
    BY <2>1, <2>2, <2>3 DEF Owned, Quiet, NothingNew, Issued
<1> QED
  BY <1>1, <1>2 DEF Own

\* The part of TypeOK and of the invariant that is about exchanges and the lock.
Orderly ==
  /\ op \in [Threads -> {Idle} \cup Exchanges] /\ ioLock \in [Clients -> Threads \cup {Free}]
  /\ \A c \in Clients : ioLock[c] = Free \/ op[ioLock[c]].kind \in Locked
  /\ LockKept

\* The part of TypeOK that is about what is sent, but for arrived.
Sent ==
  /\ asked \in Seq(Question)
  /\ wire \in [Clients -> Seq(Message)] /\ pending \in [Clients -> Seq(Message)]
  /\ drawn \in [Clients -> Nat] /\ version \in Nat

\* The parts of the invariant, one by one.
LEMMA Parts ==
  IInv <=> Orderly /\ Sent /\ arrived \in [Threads -> BOOLEAN] /\ Own
BY Zenon DEF IInv, TypeOK, Orderly, Sent

\* A thread that goes from one place of its exchange to the next keeps the lock.
LEMMA TurnedKeeps ==
  ASSUME IInv, NEW t \in Threads, op[t] # Idle, Turned(t), ioLock' = ioLock
  PROVE  Orderly' /\ SameExchanges
<1>1. Orderly
  BY Parts
<1>2. \A u \in Threads : op'[u].kind = op[u].kind /\ (op'[u] = Idle => op[u] = Idle)
  BY DEF Turned
<1>3. \A u \in Threads : op'[u].rid = op[u].rid /\ op'[u].cmd = op[u].cmd /\ op'[u].sent = op[u].sent
  BY DEF Turned
<1>4. \A c \in Clients : ioLock[c] = Free \/ ioLock[c] \in Threads
  BY <1>1 DEF Orderly
<1> QED
  BY <1>1, <1>2, <1>3, <1>4 DEF Orderly, LockKept, SameExchanges, Turned

\* A thread whose exchange is over leaves the lock free, and the others as they are.
LEMMA EndedKeeps ==
  ASSUME IInv, NEW t \in Threads, Ended(t)
  PROVE  Orderly' /\ SameExchanges
<1>1. Orderly
  BY Parts
<1>2. \A u \in Threads : op'[u] = Idle \/ (u # t /\ op'[u] = op[u])
  BY DEF Ended
<1>3. \A c \in Clients : ioLock[c] = Free \/ ioLock[c] \in Threads
  BY <1>1 DEF Orderly
<1>4. op'[t] = Idle
  BY DEF Ended
<1>5. \A c \in Clients : ioLock'[c] = Free \/ op'[ioLock'[c]].kind \in Locked
  BY <1>1, <1>3, NobodyIdles DEF Orderly, Ended
<1>6. \A c \in Clients : ioLock'[c] # Free => ClientOf[ioLock'[c]] = c
  BY <1>1 DEF Orderly, LockKept, Ended
<1>7. \A u \in Threads : op'[u].kind \in Locked => ioLock'[ClientOf[u]] = u
  <2> TAKE u \in Threads
  <2>1. SUFFICES ASSUME op'[u].kind \in Locked PROVE ioLock'[ClientOf[u]] = u
    OBVIOUS
  <2>2. u # t /\ op'[u] = op[u]
    BY <1>2, <2>1, NobodyIdles
  <2>3. ioLock[ClientOf[u]] = u /\ ClientOf[u] \in Clients
    BY <1>1, <2>1, <2>2 DEF Orderly, LockKept, Clients
  <2> QED
    BY <2>2, <2>3 DEF Ended
<1>8. \A u \in Threads : op'[u] = Idle \/ op'[u].kind \in Kinds[u]
  BY <1>1, <1>2 DEF Orderly, LockKept
<1>9. SameExchanges
  BY <1>2, NobodyIdles DEF SameExchanges
<1> QED
  BY <1>5, <1>6, <1>7, <1>8, <1>9 DEF Orderly, LockKept, Ended

\* _pending of one client becomes something that holds nothing new.
LEMMA PendingBecomes ==
  ASSUME Sent, NEW c \in Clients, NEW p \in Seq(Message), ToSet(p) \subseteq ToSet(pending[c]),
         pending' = [pending EXCEPT ![c] = p], UNCHANGED <<asked, wire, drawn, version>>
  PROVE  Sent' /\ NothingNew
<1>1. \A d \in Clients : pending'[d] = IF d = c THEN p ELSE pending[d]
  BY DEF Sent
<1>2. Sent'
  BY DEF Sent
<1>3. ASSUME NEW d \in Clients PROVE Heard(d)' \subseteq Heard(d)
  BY <1>1 DEF Heard
<1> QED
  BY <1>2, <1>3 DEF NothingNew

\* What is left to show for a step that brings no message.
LEMMA QuietStep ==
  ASSUME IInv, Orderly', Sent', arrived' \in [Threads -> BOOLEAN],
         NothingNew, SameExchanges, drawn' = drawn, version' = version
  PROVE  IInv'
<1>1. Own'
  BY QuietKeeps DEF IInv, Quiet
<1> QED
  BY <1>1, Zenon DEF IInv, TypeOK, Orderly, Sent

\* What every client hears.
LEMMA Told ==
  ASSUME Sent, NEW m \in Message, Tell(m), UNCHANGED pending
  PROVE  /\ wire' \in [Clients -> Seq(Message)]
         /\ \A c \in Clients : Heard(c)' = Heard(c) \cup {m}
<1>1. \A c \in Clients : wire'[c] = Append(wire[c], m) /\ wire[c] \in Seq(Message)
  BY DEF Sent, Tell
<1>2. \A c \in Clients : wire'[c] \in Seq(Message)
  BY <1>1
<1>3. ASSUME NEW c \in Clients PROVE Heard(c)' = Heard(c) \cup {m}
  <2>1. ToSet(wire'[c]) = ToSet(wire[c]) \cup {m}
    <3>1. PICK s \in Seq(Message) : s = wire[c]
      BY <1>1
    <3>2. ToSet(Append(s, m)) = ToSet(s) \cup {m}
      BY <3>1, ElementsOfAppend
    <3> QED
      BY <1>1, <3>1, <3>2, Zenon
  <2> QED
    BY <2>1, Zenon DEF Heard
<1> QED
  BY <1>2, <1>3 DEF Tell

\* The question at the front is one of those asked.
LEMMA FrontQuestion ==
  ASSUME Sent, asked # <<>>
  PROVE  /\ Head(asked) \in Question /\ Head(asked) \in ToSet(asked)
         /\ Tail(asked) \in Seq(Question) /\ ToSet(Tail(asked)) \subseteq ToSet(asked)
<1>1. PICK s \in Seq(Question) : s = asked
  BY DEF Sent
<1> QED
  BY <1>1, ElementsOfTail, HeadTailProperties

\* The device answers a request with messages that carry its id.
LEMMA AnswerKeeps ==
  ASSUME IInv, Answer
  PROVE  IInv'
<1> DEFINE q == Head(asked)
           m == [cmd |-> Head(asked).cmd, rid |-> Head(asked).rid, ver |-> version]
<1>1. Orderly /\ Sent /\ Own /\ arrived \in [Threads -> BOOLEAN]
  BY Parts
<1>2. q \in Question /\ q \in ToSet(asked) /\ asked' \in Seq(Question) /\ ToSet(asked') \subseteq ToSet(asked)
  BY <1>1, FrontQuestion DEF Answer
<1>3. m \in Message /\ m.cmd = q.cmd /\ m.rid = q.rid /\ m.ver = version
  <2>1. q.cmd \in Commands /\ q.rid \in Rid
    BY <1>2 DEF Question
  <2> QED
    BY <1>1, <2>1 DEF Message, Sent
<1>4. Tell(m) /\ UNCHANGED <<pending, ioLock, drawn, version, op, arrived>>
  BY DEF Answer
<1> HIDE DEF q, m
<1>5. wire' \in [Clients -> Seq(Message)] /\ \A c \in Clients : Heard(c)' = Heard(c) \cup {m}
  BY <1>1, <1>3, <1>4, Told
<1>6. Sent'
  BY <1>1, <1>2, <1>4, <1>5 DEF Sent
<1>7. Orderly' /\ arrived' \in [Threads -> BOOLEAN]
  BY <1>1, <1>4, Zenon DEF Orderly, LockKept
<1>8. Numbered'
  <2>1. Numbered
    BY <1>1 DEF Own
  <2>2. Issued(q.rid)
    BY <1>2, <2>1 DEF Numbered
  <2>3. \A c \in Clients : \A n \in Heard(c)' : n.rid = NoRid \/ Issued(n.rid)
    BY <1>3, <1>5, <2>1, <2>2 DEF Numbered
  <2> QED
    BY <1>2, <1>4, <2>1, <2>3 DEF Numbered, Issued
<1>9. ASSUME NEW t \in Threads PROVE Owned(t)'
  <2>1. SUFFICES ASSUME op[t].kind \in Asks PROVE Owned(t)'
    BY <1>4 DEF Owned
  <2>2. Owned(t)
    BY <1>1 DEF Own
  <2>3. op[t].sent <= version /\ (q.rid = op[t].rid => q.cmd = op[t].cmd)
    BY <1>2, <2>1, <2>2 DEF Owned
  <2>4. m.rid = op[t].rid => m.cmd = op[t].cmd /\ m.ver >= op[t].sent
    <3>1. version \in Nat /\ op[t].sent \in Nat
      <4>1. op[t] \in Exchanges
        BY <1>1, <2>1, NobodyIdles DEF Orderly
      <4> QED
        BY <1>1, <4>1 DEF Sent, Exchanges
    <3> QED
      BY <1>3, <2>3, <3>1
  <2>5. \A c \in Clients : \A n \in Heard(c)' :
          n.rid = op[t].rid => n.cmd = op[t].cmd /\ n.ver >= op[t].sent
    BY <1>5, <2>1, <2>2, <2>4 DEF Owned
  <2> QED
    BY <1>2, <1>4, <2>1, <2>2, <2>5 DEF Owned, Issued
<1>10. Own'
  BY <1>8, <1>9 DEF Own
<1> QED
  BY <1>6, <1>7, <1>10, Zenon DEF IInv, TypeOK, Orderly, Sent

\* The device may leave a request unanswered.
LEMMA IgnoreKeeps ==
  ASSUME IInv, Ignore
  PROVE  IInv'
<1>1. Orderly /\ Sent /\ Own /\ arrived \in [Threads -> BOOLEAN]
  BY Parts
<1>2. UNCHANGED <<wire, pending, ioLock, drawn, version, op, arrived>>
  BY DEF Ignore
<1>3. asked' \in Seq(Question) /\ ToSet(asked') \subseteq ToSet(asked)
  BY <1>1, FrontQuestion DEF Ignore
<1>4. Orderly' /\ arrived' \in [Threads -> BOOLEAN]
  BY <1>1, <1>2, Zenon DEF Orderly, LockKept
<1>5. Sent'
  BY <1>1, <1>2, <1>3 DEF Sent
<1>6. NothingNew /\ SameExchanges
  BY <1>2, <1>3 DEF NothingNew, SameExchanges, Heard
<1> QED
  BY <1>2, <1>4, <1>5, <1>6, QuietStep

\* A change of the device is told to every client, with an id no request has.
LEMMA PushKeeps ==
  ASSUME IInv, Push
  PROVE  IInv'
<1>1. Orderly /\ Sent /\ Own /\ arrived \in [Threads -> BOOLEAN]
  BY Parts
<1>2. version' = version + 1 /\ UNCHANGED <<asked, pending, ioLock, drawn, op, arrived>>
  BY DEF Push
<1>3. PICK m : m.rid = NoRid /\ m \in Message /\ Tell(m)
  <2>1. PICK cmd \in Commands : Tell([cmd |-> cmd, rid |-> NoRid, ver |-> version + 1])
    BY DEF Push
  <2>2. [cmd |-> cmd, rid |-> NoRid, ver |-> version + 1] \in Message
    BY <1>1 DEF Message, Sent
  <2> QED
    BY <2>1, <2>2
<1>4. wire' \in [Clients -> Seq(Message)] /\ \A c \in Clients : Heard(c)' = Heard(c) \cup {m}
  BY <1>1, <1>2, <1>3, Told
<1>5. Sent'
  BY <1>1, <1>2, <1>4 DEF Sent
<1>6. Orderly' /\ arrived' \in [Threads -> BOOLEAN]
  BY <1>1, <1>2, Zenon DEF Orderly, LockKept
<1>7. Numbered'
  BY <1>1, <1>2, <1>3, <1>4 DEF Own, Numbered, Issued
<1>8. ASSUME NEW t \in Threads PROVE Owned(t)'
  <2>1. SUFFICES ASSUME op[t].kind \in Asks PROVE Owned(t)'
    BY <1>2 DEF Owned
  <2>2. Owned(t)
    BY <1>1 DEF Own
  <2>3. op[t].sent <= version'
    <3>1. op[t] \in Exchanges
      BY <1>1, <2>1, NobodyIdles DEF Orderly
    <3>2. version \in Nat /\ op[t].sent \in Nat /\ op[t].sent <= version
      BY <1>1, <2>1, <2>2, <3>1 DEF Sent, Exchanges, Owned
    <3> QED
      BY <1>2, <3>2
  <2>4. m.rid # op[t].rid
    <3>1. op[t].rid.nr # 0
      BY <1>1, <2>1, <2>2 DEF Owned, Issued
    <3> QED
      BY <1>3, <3>1 DEF NoRid
  <2> QED
    BY <1>2, <1>4, <2>1, <2>2, <2>3, <2>4 DEF Owned, Issued
<1>9. Own'
  BY <1>7, <1>8 DEF Own
<1> QED
  BY <1>5, <1>6, <1>9, Zenon DEF IInv, TypeOK, Orderly, Sent

\* A new question has a number that nobody has seen yet.
LEMMA AskKeeps ==
  ASSUME IInv, NEW t \in Threads, NEW kind \in Asks \cup {"drain"}, NEW cmd \in Commands,
         Ask(t, kind, cmd), \A c \in Clients : Heard(c)' \subseteq Heard(c)
  PROVE  /\ Own' /\ asked' \in Seq(Question) /\ drawn' \in [Clients -> Nat]
         /\ op' \in [Threads -> {Idle} \cup Exchanges]
         /\ op'[t].kind = kind /\ \A u \in Threads \ {t} : op'[u] = op[u]
<1>0. PICK c, rid, q :
        /\ c = ClientOf[t] /\ rid = [client |-> c, nr |-> drawn[c] + 1]
        /\ q = [cmd |-> cmd, rid |-> rid]
  OBVIOUS
<1>1. Orderly /\ Sent /\ Own
  BY Parts
<1>2. c \in Clients
  BY <1>0 DEF Clients
<1>3. /\ op[t] = Idle /\ version' = version
      /\ drawn' = [drawn EXCEPT ![c] = @ + 1]
      /\ asked' = Append(asked, q) /\ Started(t, kind, cmd, rid)
  BY <1>0 DEF Ask, Started
<1>4. /\ drawn' \in [Clients -> Nat] /\ drawn[c] \in Nat /\ drawn'[c] = drawn[c] + 1
      /\ \A d \in Clients : drawn[d] \in Nat /\ drawn'[d] \in Nat /\ drawn'[d] >= drawn[d]
  BY <1>1, <1>2, <1>3 DEF Sent
<1>5. rid \in Rid /\ rid.client = c /\ rid.nr = drawn[c] + 1
  BY <1>0, <1>2, <1>4 DEF Rid
<1>6. q \in Question /\ q.rid = rid /\ q.cmd = cmd
  BY <1>0, <1>5 DEF Question
<1>7. kind \in AllKinds
  BY DEF AllKinds, Locked, Streams
<1>8. asked' \in Seq(Question) /\ ToSet(asked') = ToSet(asked) \cup {q}
  BY <1>1, <1>3, <1>6, ElementsOfAppend DEF Sent
<1>9. /\ op' \in [Threads -> {Idle} \cup Exchanges]
      /\ op'[t].kind = kind /\ op'[t].rid = rid /\ op'[t].cmd = cmd /\ op'[t].sent = version
      /\ \A u \in Threads \ {t} : op'[u] = op[u]
  <2>1. TypeOK
    BY DEF IInv
  <2> QED
    BY <1>3, <1>5, <1>7, <2>1, Starts
<1>10. /\ Issued(rid)' /\ ~Issued(rid)
       /\ \A r \in Rid : Issued(r) => Issued(r)'
  <2>1. Issued(rid)' /\ ~Issued(rid)
    BY <1>4, <1>5 DEF Issued
  <2>2. \A r \in Rid : r.client \in Clients /\ r.nr \in Nat
    BY DEF Rid
  <2> QED
    BY <1>4, <2>1, <2>2 DEF Issued
<1>11. /\ \A n \in ToSet(asked) : n.rid \in Rid
       /\ \A d \in Clients : \A m \in Heard(d) : m.rid \in Rid \cup {NoRid}
  <2>1. ToSet(asked) \subseteq Question
    BY <1>1, ElementsOf DEF Sent
  <2>2. \A d \in Clients : Heard(d) \subseteq Message
    <3> TAKE d \in Clients
    <3>1. wire[d] \in Seq(Message) /\ pending[d] \in Seq(Message)
      BY <1>1 DEF Sent
    <3> QED
      BY <3>1, ElementsOf DEF Heard
  <2> QED
    BY <2>1, <2>2 DEF Question, Message
<1>12. Numbered'
  <2>1. Numbered
    BY <1>1 DEF Own
  <2>2. \A n \in ToSet(asked') : Issued(n.rid)'
    BY <1>6, <1>8, <1>10, <1>11, <2>1 DEF Numbered
  <2>3. \A d \in Clients : \A m \in Heard(d)' : m.rid = NoRid \/ Issued(m.rid)'
    BY <1>10, <1>11, <2>1 DEF Numbered
  <2> QED
    BY <2>2, <2>3 DEF Numbered, Issued
<1>13. NoRid # rid
  BY <1>4, <1>5 DEF NoRid
<1>14. ASSUME NEW u \in Threads PROVE Owned(u)'
  <2>1. SUFFICES ASSUME op'[u].kind \in Asks PROVE Owned(u)'
    BY DEF Owned
  <2>2. Numbered
    BY <1>1 DEF Own
  <2>3. CASE u = t
    <3>1. op'[t].rid.client = ClientOf[t] /\ op'[t].sent <= version'
      BY <1>0, <1>1, <1>3, <1>5, <1>9 DEF Sent
    <3>4. Issued(op[t].rid)'
      BY <1>9, <1>10 DEF Issued
    <3>2. \A n \in ToSet(asked)' : n.rid = op'[t].rid => n.cmd = op'[t].cmd
      BY <1>6, <1>8, <1>9, <1>10, <2>2 DEF Numbered
    <3>3. \A d \in Clients : \A m \in Heard(d)' : m.rid # op'[t].rid
      BY <1>9, <1>10, <1>13, <2>2 DEF Numbered
    <3> QED
      BY <2>3, <3>1, <3>2, <3>3, <3>4 DEF Owned
  <2>4. CASE u # t
    <3>1. op'[u] = op[u] /\ op[u].kind \in Asks /\ Owned(u)
      BY <1>1, <1>9, <2>1, <2>4 DEF Own
    <3>2. op[u].rid \in Rid
      <4>1. op[u] \in Exchanges
        BY <1>1, <3>1, NobodyIdles DEF Orderly
      <4> QED
        BY <4>1 DEF Exchanges
    <3>3. Issued(op[u].rid) /\ Issued(op[u].rid)' /\ op[u].rid # rid
      BY <1>10, <3>1, <3>2 DEF Owned
    <3>4. \A n \in ToSet(asked)' : n.rid = op[u].rid => n.cmd = op[u].cmd
      BY <1>6, <1>8, <3>1, <3>3 DEF Owned
    <3>5. \A d \in Clients : \A m \in Heard(d)' :
            m.rid = op[u].rid => m.cmd = op[u].cmd /\ m.ver >= op[u].sent
      BY <3>1 DEF Owned
    <3>6. op[u].rid.client = ClientOf[u] /\ op[u].sent <= version'
      BY <1>3, <3>1 DEF Owned
    <3> QED
      BY <3>1, <3>3, <3>4, <3>5, <3>6 DEF Owned, Issued
  <2> QED
    BY <2>3, <2>4
<1>15. Own'
  BY <1>12, <1>14 DEF Own
<1> QED
  BY <1>4, <1>8, <1>9, <1>15

\* A thread that begins inside the lock has it to itself.
LEMMA LockTaken ==
  ASSUME Orderly, NEW t \in Threads, op[t] = Idle, ioLock[ClientOf[t]] = Free,
         ioLock' = [ioLock EXCEPT ![ClientOf[t]] = t],
         op' \in [Threads -> {Idle} \cup Exchanges], op'[t].kind \in Kinds[t] \cap Locked,
         \A u \in Threads \ {t} : op'[u] = op[u]
  PROVE  Orderly'
<1>1. ClientOf[t] \in Clients /\ t # Free
  BY ExchangeAssumption DEF Clients
<1>2. /\ ioLock' \in [Clients -> Threads \cup {Free}]
      /\ \A c \in Clients : ioLock'[c] = IF c = ClientOf[t] THEN t ELSE ioLock[c]
  BY <1>1 DEF Orderly
<1>3. \A c \in Clients \ {ClientOf[t]} : ioLock[c] # t
  BY <1>1 DEF Orderly, LockKept
<1>4. \A c \in Clients : ioLock'[c] = Free \/ op'[ioLock'[c]].kind \in Locked
  <2> TAKE c \in Clients
  <2>1. CASE c = ClientOf[t]
    BY <1>2, <2>1
  <2>2. CASE c # ClientOf[t]
    BY <1>2, <1>3, <2>2 DEF Orderly
  <2> QED
    BY <2>1, <2>2
<1>5. \A c \in Clients : ioLock'[c] # Free => ClientOf[ioLock'[c]] = c
  BY <1>2 DEF Orderly, LockKept
<1>6. \A u \in Threads : op'[u].kind \in Locked => ioLock'[ClientOf[u]] = u
  <2> TAKE u \in Threads
  <2>1. CASE u = t
    BY <1>1, <1>2, <2>1
  <2>2. CASE u # t
    <3>1. SUFFICES ASSUME op[u].kind \in Locked PROVE ioLock'[ClientOf[u]] = u
      BY <2>2
    <3>2. ioLock[ClientOf[u]] = u /\ ClientOf[u] \in Clients /\ u # Free
      BY <3>1, ExchangeAssumption DEF Orderly, LockKept, Clients
    <3> QED
      BY <1>2, <3>2
  <2> QED
    BY <2>1, <2>2
<1>7. \A u \in Threads : op'[u] = Idle \/ op'[u].kind \in Kinds[u]
  BY DEF Orderly, LockKept
<1> QED
  BY <1>2, <1>4, <1>5, <1>6, <1>7 DEF Orderly, LockKept

\* request() and _read_preset_once begin with an id nobody has drawn.
LEMMA BeginKeeps ==
  ASSUME IInv, NEW t \in Threads, NEW kind \in Kinds[t], NEW cmd \in Commands, Begin(t, kind, cmd)
  PROVE  IInv'
<1>1. Orderly /\ Sent /\ Own /\ arrived \in [Threads -> BOOLEAN]
  BY Parts
<1>2. /\ kind \in Asks /\ ioLock[ClientOf[t]] = Free
      /\ ioLock' = [ioLock EXCEPT ![ClientOf[t]] = t]
      /\ Ask(t, kind, cmd) /\ pending' = pending
  BY DEF Begin
<1>3. wire' = wire /\ version' = version /\ op[t] = Idle
  BY <1>2 DEF Ask
<1>4. \A c \in Clients : Heard(c)' \subseteq Heard(c)
  BY <1>2, <1>3 DEF Heard
<1>5. /\ Own' /\ asked' \in Seq(Question) /\ drawn' \in [Clients -> Nat]
      /\ op' \in [Threads -> {Idle} \cup Exchanges]
      /\ op'[t].kind = kind /\ \A u \in Threads \ {t} : op'[u] = op[u]
  BY <1>2, <1>4, AskKeeps
<1>6. Sent'
  BY <1>1, <1>2, <1>3, <1>5 DEF Sent
<1>7. arrived' \in [Threads -> BOOLEAN]
  BY <1>1, Zenon DEF Begin
<1>8. kind \in Kinds[t] \cap Locked
  BY <1>2 DEF Locked
<1>9. Orderly'
  BY <1>1, <1>2, <1>3, <1>5, <1>8, LockTaken
<1> QED
  BY <1>5, <1>6, <1>7, <1>9, Zenon DEF IInv, TypeOK, Orderly, Sent

\* A thread that begins outside the lock leaves the lock's affairs alone.
LEMMA OutsideKeeps ==
  ASSUME Orderly, NEW t \in Threads, op[t] = Idle, ioLock' = ioLock,
         op' \in [Threads -> {Idle} \cup Exchanges], op'[t].kind \in Kinds[t] \ Locked,
         \A u \in Threads \ {t} : op'[u] = op[u]
  PROVE  Orderly'
<1>1. \A c \in Clients : ioLock[c] # t
  BY NobodyIdles, ExchangeAssumption DEF Orderly
<1>2. \A c \in Clients : ioLock'[c] = Free \/ op'[ioLock'[c]].kind \in Locked
  BY <1>1 DEF Orderly
<1>3. \A u \in Threads : op'[u].kind \in Locked => ioLock'[ClientOf[u]] = u
  BY DEF Orderly, LockKept
<1>4. \A u \in Threads : op'[u] = Idle \/ op'[u].kind \in Kinds[u]
  BY DEF Orderly, LockKept
<1> QED
  BY <1>2, <1>3, <1>4 DEF Orderly, LockKept

\* switch_preset begins by emptying _pending, whose ever it is.
LEMMA BeginDrainKeeps ==
  ASSUME IInv, NEW t \in Threads, "drain" \in Kinds[t], NEW cmd \in Commands, BeginDrain(t, cmd)
  PROVE  IInv'
<1>1. Orderly /\ Sent /\ Own /\ arrived \in [Threads -> BOOLEAN]
  BY Parts
<1>2. /\ ioLock' = ioLock /\ Ask(t, "drain", cmd)
      /\ pending' = [pending EXCEPT ![ClientOf[t]] = <<>>]
  BY DEF BeginDrain
<1>3. wire' = wire /\ version' = version /\ op[t] = Idle
  BY <1>2 DEF Ask
<1>4. ClientOf[t] \in Clients /\ <<>> \in Seq(Message) /\ ToSet(<<>>) = {}
  BY ElementsOfEmpty DEF Clients
<1>5. pending' \in [Clients -> Seq(Message)] /\ \A c \in Clients : Heard(c)' \subseteq Heard(c)
  <2>1. \A c \in Clients : pending'[c] = IF c = ClientOf[t] THEN <<>> ELSE pending[c]
    BY <1>1, <1>2 DEF Sent
  <2>2. pending' \in [Clients -> Seq(Message)]
    BY <1>1, <1>2, <1>4 DEF Sent
  <2> QED
    BY <1>3, <1>4, <2>1, <2>2 DEF Heard
<1>6. /\ Own' /\ asked' \in Seq(Question) /\ drawn' \in [Clients -> Nat]
      /\ op' \in [Threads -> {Idle} \cup Exchanges]
      /\ op'[t].kind = "drain" /\ \A u \in Threads \ {t} : op'[u] = op[u]
  BY <1>2, <1>5, AskKeeps
<1>7. Sent'
  BY <1>1, <1>3, <1>5, <1>6 DEF Sent
<1>8. arrived' \in [Threads -> BOOLEAN]
  BY Zenon DEF BeginDrain
<1>9. "drain" \notin Locked
  BY DEF Locked, Asks
<1>10. Orderly'
  BY <1>1, <1>2, <1>3, <1>6, <1>9, OutsideKeeps
<1> QED
  BY <1>6, <1>7, <1>8, <1>10, Zenon DEF IInv, TypeOK, Orderly, Sent

\* latest_broadcast and cpu_load begin by throwing away what came of the command.
LEMMA BeginStreamKeeps ==
  ASSUME IInv, NEW t \in Threads, NEW kind \in Kinds[t], NEW cmd \in Commands,
         BeginStream(t, kind, cmd)
  PROVE  IInv'
<1>1. Orderly /\ Sent /\ Own /\ arrived \in [Threads -> BOOLEAN]
  BY Parts
<1>2. PICK c, p, rid :
        c \in Clients /\ c = ClientOf[t] /\ p = pending[c] /\ rid = [client |-> c, nr |-> 0]
  BY DEF Clients
<1>3. /\ op[t] = Idle /\ kind \in Streams
      /\ Started(t, kind, cmd, rid)
      /\ asked' = asked /\ wire' = wire /\ drawn' = drawn /\ version' = version
  BY <1>2 DEF BeginStream, Started
<1>4. pending' = [pending EXCEPT ![c] = Without(p, cmd)]
  BY <1>2 DEF BeginStream
<1>5. /\ op' \in [Threads -> {Idle} \cup Exchanges]
      /\ op'[t].kind = kind /\ \A u \in Threads \ {t} : op'[u] = op[u]
  <2>1. kind \in AllKinds /\ rid \in Rid
    BY <1>2, <1>3 DEF AllKinds, Rid
  <2> QED
    BY <1>3, <2>1, Starts DEF IInv
<1>6. Sent' /\ NothingNew
  <2>1. p \in Seq(Message)
    BY <1>1, <1>2 DEF Sent
  <2>2. Without(p, cmd) \in Seq(Message) /\ ToSet(Without(p, cmd)) \subseteq ToSet(p)
    BY <2>1, PassKeeps
  <2> QED
    BY <1>1, <1>2, <1>3, <1>4, <2>2, PendingBecomes
<1>7. arrived' \in [Threads -> BOOLEAN]
  BY <1>1, Zenon DEF BeginStream
<1>8. SameExchanges
  <2>1. kind \notin Asks
    BY <1>3 DEF Streams, Asks
  <2> QED
    BY <1>5, <2>1 DEF SameExchanges
<1>9. Orderly'
  <2>1. CASE kind = "stream"
    <3>1. ioLock[ClientOf[t]] = Free /\ ioLock' = [ioLock EXCEPT ![ClientOf[t]] = t]
      BY <2>1 DEF BeginStream
    <3>2. kind \in Kinds[t] \cap Locked
      BY <2>1 DEF Locked
    <3> QED
      BY <1>1, <1>3, <1>5, <3>1, <3>2, LockTaken
  <2>2. CASE kind = "load"
    <3>1. ioLock' = ioLock
      BY <2>2 DEF BeginStream
    <3>2. kind \in Kinds[t] \ Locked
      BY <2>2 DEF Locked, Asks
    <3> QED
      BY <1>1, <1>3, <1>5, <3>1, <3>2, OutsideKeeps
  <2> QED
    BY <1>3, <2>1, <2>2 DEF Streams
<1> QED
  BY <1>3, <1>6, <1>7, <1>8, <1>9, QuietStep

\* _collect moves what has arrived into _pending.
LEMMA CollectKeeps ==
  ASSUME IInv, NEW t \in Threads, Collect(t)
  PROVE  IInv'
<1>1. Orderly /\ Sent /\ Own /\ arrived \in [Threads -> BOOLEAN]
  BY Parts
<1>2. PICK c, p, w : c \in Clients /\ c = ClientOf[t] /\ p = pending[c] /\ w = wire[c]
  BY DEF Clients
<1>3. /\ op[t] # Idle /\ op' = [op EXCEPT ![t].at = "sift"]
      /\ wire' = [wire EXCEPT ![c] = <<>>]
      /\ asked' = asked /\ ioLock' = ioLock /\ drawn' = drawn /\ version' = version
  BY <1>2 DEF Collect
<1>4. pending' = [pending EXCEPT ![c] = p \o w]
  BY <1>2, Zenon DEF Collect, Collected
<1>5. p \in Seq(Message) /\ w \in Seq(Message) /\ <<>> \in Seq(Message) /\ ToSet(<<>>) = {}
  BY <1>1, <1>2, ElementsOfEmpty DEF Sent
<1>6. PICK pw : pw = p \o w
  OBVIOUS
<1>7. pw \in Seq(Message) /\ ToSet(pw) = ToSet(p) \cup ToSet(w)
  BY <1>5, <1>6, ElementsOfConcat, ConcatProperties
<1>8. pending' = [pending EXCEPT ![c] = pw]
  BY <1>4, <1>6, Zenon
<1>9. /\ \A d \in Clients : pending'[d] = IF d = c THEN pw ELSE pending[d]
      /\ \A d \in Clients : wire'[d] = IF d = c THEN <<>> ELSE wire[d]
  BY <1>1, <1>3, <1>8 DEF Sent
<1>10. Sent'
  BY <1>1, <1>3, <1>5, <1>7, <1>8 DEF Sent
<1>11. NothingNew
  <2>1. \A d \in Clients : Heard(d)' \subseteq Heard(d)
    BY <1>2, <1>5, <1>7, <1>9 DEF Heard
  <2> QED
    BY <1>3, <2>1 DEF NothingNew
<1>12. Orderly' /\ SameExchanges
  <2>1. Turned(t)
    BY <1>1, <1>3, Turns DEF Orderly
  <2> QED
    BY <1>3, <2>1, TurnedKeeps
<1>13. arrived' \in [Threads -> BOOLEAN]
  BY Zenon DEF Collect
<1> QED
  BY <1>3, <1>10, <1>11, <1>12, <1>13, QuietStep

\* An exchange that finds its message returns it and ends.
LEMMA FoundKeeps ==
  ASSUME IInv, NEW t \in Threads, Found(t)
  PROVE  IInv'
<1>1. Orderly /\ Sent /\ Own /\ arrived \in [Threads -> BOOLEAN]
  BY Parts
<1>2. PICK c, p, o, i :
        c \in Clients /\ c = ClientOf[t] /\ p = pending[c] /\ o = op[t] /\ i = Min(Hits(o, p))
  BY DEF Clients
<1>3. /\ Hits(o, p) # {} /\ Finish(t)
      /\ UNCHANGED <<asked, wire, drawn, version, arrived>>
      /\ pending' = [pending EXCEPT ![c] =
           IF o.kind = "request" THEN RequestKept(p, i, o.cmd) ELSE RemoveAt(p, i)]
  BY <1>2, Zenon DEF Found
<1>4. p \in Seq(Message) /\ Len(p) \in Nat
  BY <1>1, <1>2 DEF Sent
<1>5. i \in 1 .. Len(p)
  BY <1>2, <1>3, <1>4, FirstHit DEF Hits
<1>6. PICK q : q = IF o.kind = "request" THEN RequestKept(p, i, o.cmd) ELSE RemoveAt(p, i)
  OBVIOUS
<1>7. q \in Seq(Message) /\ ToSet(q) \subseteq ToSet(p)
  <2>1. RequestKept(p, i, o.cmd) \in Seq(Message) /\ ToSet(RequestKept(p, i, o.cmd)) \subseteq ToSet(p)
    BY <1>4, <1>5, RequestKeeps
  <2>2. RemoveAt(p, i) \in Seq(Message) /\ ToSet(RemoveAt(p, i)) \subseteq ToSet(p)
    BY <1>4, <1>5, ElementsOfRemoveAt
  <2> QED
    BY <1>6, <2>1, <2>2, Zenon
<1>8. pending' = [pending EXCEPT ![c] = q]
  BY <1>3, <1>6, Zenon
<1>9. Sent' /\ NothingNew
  BY <1>1, <1>2, <1>3, <1>7, <1>8, PendingBecomes
<1>10. Orderly' /\ SameExchanges
  BY <1>3, Ends, EndedKeeps
<1>11. arrived' \in [Threads -> BOOLEAN]
  BY <1>1, <1>3, Zenon
<1> QED
  BY <1>3, <1>9, <1>10, <1>11, QuietStep

\* An exchange that does not find its message goes round again; a request drops what
\* carries its command.
LEMMA NotYetKeeps ==
  ASSUME IInv, NEW t \in Threads, NotYet(t)
  PROVE  IInv'
<1>1. Orderly /\ Sent /\ Own /\ arrived \in [Threads -> BOOLEAN]
  BY Parts
<1>2. PICK c, p, o : c \in Clients /\ c = ClientOf[t] /\ p = pending[c] /\ o = op[t]
  BY DEF Clients
<1>3. op[t] # Idle /\ UNCHANGED <<asked, wire, ioLock, drawn, version, arrived>>
  BY <1>2 DEF NotYet
<1>4. p \in Seq(Message)
  BY <1>1, <1>2 DEF Sent
<1>5. op \in [Threads -> {Idle} \cup Exchanges]
  BY <1>1 DEF Orderly
<1>6. CASE o.kind = "request"
  <2>1. pending' = [pending EXCEPT ![c] = Without(p, o.cmd)]
    BY <1>2, <1>6 DEF NotYet
  <2>2. PICK f : f = Of(p, o.cmd)
    OBVIOUS
  <2>3. op' = [op EXCEPT ![t].at = "collect",
                         ![t].found = IF @ = <<>> /\ f # <<>> THEN <<f[1]>> ELSE @]
    BY <1>2, <1>6, <2>2, Zenon DEF NotYet
  <2>4. f \in Seq(Message)
    BY <1>4, <2>2, PassKeeps
  <2>5. Without(p, o.cmd) \in Seq(Message) /\ ToSet(Without(p, o.cmd)) \subseteq ToSet(p)
    BY <1>4, PassKeeps
  <2>6. Turned(t)
    BY <1>3, <1>5, <2>3, <2>4, TurnsWith
  <2>7. Sent' /\ NothingNew
    BY <1>1, <1>2, <1>3, <2>1, <2>5, PendingBecomes
  <2>8. Orderly' /\ SameExchanges
    BY <1>3, <2>6, TurnedKeeps
  <2>9. arrived' \in [Threads -> BOOLEAN]
    BY <1>1, <1>3, Zenon
  <2> QED
    BY <1>3, <2>7, <2>8, <2>9, QuietStep
<1>7. CASE o.kind # "request"
  <2>1. op' = [op EXCEPT ![t].at = "collect"] /\ pending' = pending
    BY <1>2, <1>7 DEF NotYet
  <2>2. Turned(t)
    BY <1>3, <1>5, <2>1, Turns
  <2>3. Sent' /\ NothingNew
    BY <1>1, <1>3, <2>1 DEF Sent, NothingNew, Heard
  <2>4. Orderly' /\ SameExchanges
    BY <1>3, <2>2, TurnedKeeps
  <2>5. arrived' \in [Threads -> BOOLEAN]
    BY <1>1, <1>3, Zenon
  <2> QED
    BY <1>3, <2>3, <2>4, <2>5, QuietStep
<1> QED
  BY <1>6, <1>7

\* switch_preset takes everything out.
LEMMA DrainKeeps ==
  ASSUME IInv, NEW t \in Threads, Drain(t)
  PROVE  IInv'
<1>1. Orderly /\ Sent /\ Own /\ arrived \in [Threads -> BOOLEAN]
  BY Parts
<1>2. PICK c \in Clients : c = ClientOf[t]
  BY DEF Clients
<1>3. /\ op[t] # Idle /\ UNCHANGED <<asked, wire, drawn, version>>
      /\ pending' = [pending EXCEPT ![c] = <<>>]
      /\ Finish(t) \/ (op' = [op EXCEPT ![t].at = "collect"] /\ ioLock' = ioLock)
  BY <1>2 DEF Drain
<1>4. Sent' /\ NothingNew
  <2>1. <<>> \in Seq(Message) /\ ToSet(<<>>) \subseteq ToSet(pending[c])
    BY ElementsOfEmpty
  <2> QED
    BY <1>1, <1>3, <2>1, PendingBecomes
<1>5. Orderly' /\ SameExchanges
  <2>1. CASE Finish(t)
    BY <2>1, Ends, EndedKeeps
  <2>2. CASE op' = [op EXCEPT ![t].at = "collect"] /\ ioLock' = ioLock
    <3>1. Turned(t)
      BY <1>1, <1>3, <2>2, Turns DEF Orderly
    <3> QED
      BY <1>3, <2>2, <3>1, TurnedKeeps
  <2> QED
    BY <1>3, <2>1, <2>2
<1>6. arrived' \in [Threads -> BOOLEAN]
  BY Zenon DEF Drain
<1> QED
  BY <1>3, <1>4, <1>5, <1>6, QuietStep

\* latest_broadcast and cpu_load take what came of the command.
LEMMA GatherKeeps ==
  ASSUME IInv, NEW t \in Threads, Gather(t)
  PROVE  IInv'
<1>1. Orderly /\ Sent /\ Own /\ arrived \in [Threads -> BOOLEAN]
  BY Parts
<1>2. PICK c, p, o : c \in Clients /\ c = ClientOf[t] /\ p = pending[c] /\ o = op[t]
  BY DEF Clients
<1>3. /\ op[t] # Idle /\ UNCHANGED <<asked, wire, drawn, version>>
      /\ pending' = [pending EXCEPT ![c] = Without(p, o.cmd)]
  BY <1>2 DEF Gather
<1>4. Finish(t) \/ (op' = [op EXCEPT ![t].at = "collect"] /\ ioLock' = ioLock)
  BY <1>2 DEF Gather
<1>5. Sent' /\ NothingNew
  <2>1. p \in Seq(Message)
    BY <1>1, <1>2 DEF Sent
  <2>2. Without(p, o.cmd) \in Seq(Message) /\ ToSet(Without(p, o.cmd)) \subseteq ToSet(p)
    BY <2>1, PassKeeps
  <2> QED
    BY <1>1, <1>2, <1>3, <2>2, PendingBecomes
<1>6. Orderly' /\ SameExchanges
  <2>1. CASE Finish(t)
    BY <2>1, Ends, EndedKeeps
  <2>2. CASE op' = [op EXCEPT ![t].at = "collect"] /\ ioLock' = ioLock
    <3>1. Turned(t)
      BY <1>1, <1>3, <2>2, Turns DEF Orderly
    <3> QED
      BY <1>3, <2>2, <3>1, TurnedKeeps
  <2> QED
    BY <1>4, <2>1, <2>2
<1>7. arrived' \in [Threads -> BOOLEAN]
  BY Zenon DEF Gather
<1> QED
  BY <1>3, <1>5, <1>6, <1>7, QuietStep

\* An exchange whose time is over ends with what it has.
LEMMA TimeOutKeeps ==
  ASSUME IInv, NEW t \in Threads, TimeOut(t)
  PROVE  IInv'
<1>1. Orderly /\ Sent /\ Own /\ arrived \in [Threads -> BOOLEAN]
  BY Parts
<1>2. Finish(t) /\ UNCHANGED <<asked, wire, pending, drawn, version, arrived>>
  BY DEF TimeOut
<1>3. Orderly' /\ SameExchanges
  BY <1>2, Ends, EndedKeeps
<1>4. Sent' /\ NothingNew
  BY <1>1, <1>2 DEF Sent, NothingNew, Heard
<1>5. arrived' \in [Threads -> BOOLEAN]
  BY <1>1, <1>2, Zenon
<1> QED
  BY <1>2, <1>3, <1>4, <1>5, QuietStep

\* The invariant holds before the first call.
LEMMA InitHolds ==
  ASSUME Init
  PROVE  IInv
<1>1. <<>> \in Seq(Question) /\ <<>> \in Seq(Message) /\ ToSet(<<>>) = {}
  BY ElementsOfEmpty
<1>2. Idle.kind \notin Asks /\ Idle.kind \notin Locked
  BY NobodyIdles
<1>3. TypeOK
  BY <1>1 DEF Init, TypeOK
<1>4. LockKept
  BY <1>2 DEF Init, LockKept
<1>5. Numbered
  BY <1>1 DEF Init, Numbered, Heard
<1>6. \A t \in Threads : Owned(t)
  BY <1>2 DEF Init, Owned
<1> QED
  BY <1>3, <1>4, <1>5, <1>6 DEF IInv, Own

\* Every step of the device and of every thread keeps the invariant.
LEMMA NextKeeps ==
  ASSUME IInv, [Next]_vars
  PROVE  IInv'
<1>1. CASE UNCHANGED vars
  <2>1. UNCHANGED <<asked, wire, pending, ioLock, drawn, version, op, arrived>>
    BY <1>1, Zenon DEF vars
  <2>2. Orderly' /\ Sent' /\ arrived' \in [Threads -> BOOLEAN]
    BY <2>1, Parts, Zenon DEF Orderly, LockKept, Sent
  <2>3. NothingNew /\ SameExchanges
    BY <2>1 DEF NothingNew, SameExchanges, Heard
  <2> QED
    BY <2>1, <2>2, <2>3, QuietStep
<1>2. CASE Answer \/ Ignore \/ Push
  BY <1>2, AnswerKeeps, IgnoreKeeps, PushKeeps
<1>3. ASSUME NEW t \in Threads, NEW cmd \in Commands, NEW kind \in Kinds[t],
             Begin(t, kind, cmd) \/ BeginStream(t, kind, cmd)
      PROVE  IInv'
  BY <1>3, BeginKeeps, BeginStreamKeeps
<1>4. ASSUME NEW t \in Threads, NEW cmd \in Commands, "drain" \in Kinds[t], BeginDrain(t, cmd)
      PROVE  IInv'
  BY <1>4, BeginDrainKeeps
<1>5. ASSUME NEW t \in Threads,
             Collect(t) \/ Found(t) \/ NotYet(t) \/ Drain(t) \/ Gather(t) \/ TimeOut(t)
      PROVE  IInv'
  BY <1>5, CollectKeeps, FoundKeeps, NotYetKeeps, DrainKeeps, GatherKeeps, TimeOutKeeps
<1> QED
  BY <1>1, <1>2, <1>3, <1>4, <1>5, Zenon DEF Next

\* The invariant holds in every state of every behaviour.
LEMMA InvariantHolds == Spec => []IInv
<1>1. Init => IInv
  BY InitHolds
<1>2. IInv /\ [Next]_vars => IInv'
  BY NextKeeps
<1> QED
  BY <1>1, <1>2, PTL DEF Spec

-----------------------------------------------------------------------------
(* The theorems *)

\* The device, the clients, _pending and the lock are always as described.
THEOREM ExchangesTyped == Spec => []TypeOK
<1>1. IInv => TypeOK
  BY DEF IInv
<1> QED
  BY <1>1, InvariantHolds, PTL

\* However many threads and clients ask, and whatever is in _pending: what an
\* exchange that goes by its request_id takes is the answer to its own
\* question, given after it was asked (transport.py 436-441, 504-524).
THEOREM AnswersAreOwn == Spec => ReturnsOwnAnswer
<1> DEFINE Own1(t) ==
      op[t] # Idle /\ op[t].kind \in {"request", "match"} /\ Found(t)
        => LET m == pending[ClientOf[t]][Min(Hits(op[t], pending[ClientOf[t]]))]
           IN m.rid = op[t].rid /\ m.ver >= op[t].sent
<1>1. ASSUME IInv, NEW t \in Threads PROVE Own1(t)
  <2>1. SUFFICES ASSUME op[t].kind \in {"request", "match"}, Found(t)
                 PROVE  LET m == pending[ClientOf[t]][Min(Hits(op[t], pending[ClientOf[t]]))]
                        IN m.rid = op[t].rid /\ m.ver >= op[t].sent
    OBVIOUS
  <2>2. Sent /\ Own
    BY <1>1, Parts
  <2>3. PICK c, p, o, i :
          c \in Clients /\ c = ClientOf[t] /\ p = pending[c] /\ o = op[t] /\ i = Min(Hits(o, p))
    BY DEF Clients
  <2>4. p \in Seq(Message) /\ Len(p) \in Nat
    BY <2>2, <2>3 DEF Sent
  <2>5. Hits(o, p) # {}
    BY <2>1, <2>3 DEF Found
  <2>6. i \in Hits(o, p)
    BY <2>3, <2>4, <2>5, FirstHit, Zenon
  <2>7. i \in 1 .. Len(p) /\ p[i].rid = o.rid
    BY <2>1, <2>3, <2>6, Zenon DEF Hits, Matches
  <2>8. p[i] \in Heard(c)
    BY <2>3, <2>4, <2>7, ElementsOf DEF Heard
  <2>9. o.kind \in Asks /\ Owned(t)
    BY <2>1, <2>2, <2>3 DEF Asks, Own
  <2>10. p[i].ver >= o.sent
    BY <2>3, <2>7, <2>8, <2>9 DEF Owned
  <2> QED
    BY <2>3, <2>7, <2>10
<1>2. IInv => [\A t \in Threads : Own1(t)]_vars
  BY <1>1
<1> HIDE DEF Own1
<1>3. Spec => [][\A t \in Threads : Own1(t)]_vars
  BY <1>2, InvariantHolds, PTL
<1> QED
  BY <1>3 DEF ReturnsOwnAnswer, Own1

-----------------------------------------------------------------------------
(* An answer that is there is found, unless it is taken past the lock.       *)

\* What came in for a thread is still in _pending, and the thread is about to look.
Answered(t) ==
  op[t].kind \in Asks /\ arrived[t] =>
    op[t].at = "sift" /\ \E m \in ToSet(pending[ClientOf[t]]) : m.rid = op[t].rid

\* Beside an exchange nobody of its client is inside the lock.
LEMMA Alone ==
  ASSUME IInv, NEW t \in Threads, NEW u \in Threads \ {t},
         op[t].kind \in Asks, ClientOf[u] = ClientOf[t]
  PROVE  op[u].kind \notin Locked /\ ioLock[ClientOf[u]] \notin {u, Free}
<1>1. op[t].kind \in Locked
  BY DEF Locked
<1>2. ioLock[ClientOf[t]] = t /\ t # Free
  BY <1>1, ExchangeAssumption DEF IInv, LockKept
<1> QED
  BY <1>2 DEF IInv, LockKept

\* A thread keeps its answer as long as its own things stay as they are.
LEMMA Bystander ==
  ASSUME NEW t \in Threads, Answered(t), op'[t] = op[t], arrived'[t] = arrived[t],
         pending'[ClientOf[t]] = pending[ClientOf[t]]
  PROVE  Answered(t)'
BY DEF Answered

\* What another thread does.
Moves(u) ==
  \/ \E cmd \in Commands, kind \in Kinds[u] : Begin(u, kind, cmd) \/ BeginStream(u, kind, cmd)
  \/ \E cmd \in Commands : BeginDrain(u, cmd)
  \/ Collect(u) \/ Found(u) \/ NotYet(u) \/ Drain(u) \/ Gather(u) \/ TimeOut(u)

\* A thread moves nobody's exchange but its own.
LEMMA OthersStay ==
  ASSUME IInv, NEW t \in Threads, NEW u \in Threads \ {t}, Moves(u)
  PROVE  op'[t] = op[t]
<1>1. op \in [Threads -> {Idle} \cup Exchanges]
  BY DEF IInv, TypeOK
<1>2. CASE \E cmd \in Commands, kind \in Kinds[u] : Begin(u, kind, cmd) \/ BeginStream(u, kind, cmd)
  BY <1>1, <1>2 DEF Begin, BeginStream, Ask
<1>3. CASE \E cmd \in Commands : BeginDrain(u, cmd)
  BY <1>1, <1>3 DEF BeginDrain, Ask
<1>4. CASE Collect(u) \/ Found(u) \/ Drain(u) \/ Gather(u) \/ TimeOut(u)
  BY <1>1, <1>4 DEF Collect, Found, Drain, Gather, TimeOut, Finish
<1>5. CASE NotYet(u)
  BY <1>1, <1>5 DEF NotYet
<1> QED
  BY <1>2, <1>3, <1>4, <1>5 DEF Moves

\* No thread of another client touches it.
LEMMA StrangersLeave ==
  ASSUME IInv, NEW t \in Threads, NEW u \in Threads \ {t}, ClientOf[u] # ClientOf[t], Moves(u)
  PROVE  arrived'[t] = arrived[t] /\ pending'[ClientOf[t]] = pending[ClientOf[t]]
<1>1. pending \in [Clients -> Seq(Message)] /\ ClientOf[t] \in Clients /\ ClientOf[u] \in Clients
  BY DEF IInv, TypeOK, Clients
<1>2. arrived \in [Threads -> BOOLEAN]
  BY Zenon DEF IInv, TypeOK
<1>3. \A p : t \notin Robbed(u, p)
  BY DEF Robbed
<1>4. arrived'[t] = arrived[t]
  <2>1. CASE Collect(u)
    BY <1>2, <2>1, Zenon DEF Collect
  <2>2. CASE \E cmd \in Commands, kind \in Kinds[u] : Begin(u, kind, cmd)
    BY <1>2, <2>2, Zenon DEF Begin
  <2>3. CASE \E cmd \in Commands, kind \in Kinds[u] : BeginStream(u, kind, cmd)
    <3>1. \/ arrived' = [arrived EXCEPT ![u] = FALSE]
          \/ \E p : arrived' = [v \in Threads |-> arrived[v] /\ v \notin Robbed(u, p) \cup {u}]
      BY <2>3, Zenon DEF BeginStream
    <3> QED
      BY <1>2, <1>3, <3>1, Zenon
  <2>4. CASE \E cmd \in Commands : BeginDrain(u, cmd)
    <3>1. arrived' = [v \in Threads |-> arrived[v] /\ v \notin Robbed(u, <<>>) \cup {u}]
      BY <2>4, Zenon DEF BeginDrain
    <3> QED
      BY <1>2, <1>3, <3>1, Zenon
  <2>5. CASE Drain(u)
    BY <1>2, <1>3, <2>5, Zenon DEF Drain
  <2>6. CASE Gather(u)
    <3>1. \E x, p : arrived' = [v \in Threads |-> arrived[v] /\ ~(x /\ v \in Robbed(u, p))]
      BY <2>6, ZenonT(60) DEF Gather
    <3> QED
      BY <1>2, <1>3, <3>1, Zenon
  <2>7. CASE Found(u) \/ NotYet(u) \/ TimeOut(u)
    BY <2>7, Zenon DEF Found, NotYet, TimeOut
  <2> QED
    BY <2>1, <2>2, <2>3, <2>4, <2>5, <2>6, <2>7 DEF Moves
<1>5. pending' = pending \/ \E x : pending' = [pending EXCEPT ![ClientOf[u]] = x]
  <2>1. CASE \E cmd \in Commands, kind \in Kinds[u] : Begin(u, kind, cmd) \/ BeginStream(u, kind, cmd)
    BY <2>1, Zenon DEF Begin, BeginStream
  <2>2. CASE \E cmd \in Commands : BeginDrain(u, cmd)
    BY <2>2, Zenon DEF BeginDrain
  <2>3. CASE Collect(u) \/ Found(u)
    BY <2>3, Zenon DEF Collect, Found
  <2>4. CASE NotYet(u)
    BY <2>4, Zenon DEF NotYet
  <2>5. CASE Drain(u) \/ Gather(u)
    BY <2>5, Zenon DEF Drain, Gather
  <2>6. CASE TimeOut(u)
    BY <2>6, Zenon DEF TimeOut
  <2> QED
    BY <2>1, <2>2, <2>3, <2>4, <2>5, <2>6 DEF Moves
<1> QED
  BY <1>1, <1>4, <1>5, Zenon

\* Of its own client only switch_preset, cpu_load and a call whose time is over move
\* beside it, and a thread that still counts as answered has been left its answer.
LEMMA FriendsLeave ==
  ASSUME IInv, NEW t \in Threads, NEW u \in Threads \ {t}, ClientOf[u] = ClientOf[t],
         Answered(t), op[t].kind \in Asks, op'[t] = op[t], arrived'[t], Moves(u)
  PROVE  Answered(t)'
<1>1. op[u].kind \notin Locked /\ ioLock[ClientOf[u]] \notin {u, Free}
  BY Alone
<1>2. pending \in [Clients -> Seq(Message)] /\ ClientOf[u] \in Clients
  BY DEF IInv, TypeOK, Clients
<1>3. ~(\E cmd \in Commands, kind \in Kinds[u] : Begin(u, kind, cmd))
  BY <1>1 DEF Begin
<1>4. ~Collect(u) /\ ~Found(u) /\ ~NotYet(u)
  BY <1>1 DEF Collect, Found, NotYet, Locked
<1>5. t \in Robbed(u, <<>>)
  BY ElementsOfEmpty DEF Robbed
<1>6. ASSUME NEW p, t \notin Robbed(u, p), arrived[t],
             pending' = [pending EXCEPT ![ClientOf[u]] = p]
      PROVE  Answered(t)'
  <2>1. PICK m \in ToSet(p) : m.rid = op[t].rid
    BY <1>6 DEF Robbed
  <2>2. pending'[ClientOf[t]] = p
    BY <1>2, <1>6
  <2>3. op[t].at = "sift"
    BY <1>6 DEF Answered
  <2>4. m \in ToSet(pending'[ClientOf[t]]) /\ op'[t].at = "sift" /\ m.rid = op'[t].rid
    BY <2>1, <2>2, <2>3, Zenon
  <2> QED
    BY <2>4, Zenon DEF Answered
<1>7. ~(\E cmd \in Commands : BeginDrain(u, cmd)) /\ ~Drain(u)
  <2>1. ~(\E cmd \in Commands : BeginDrain(u, cmd))
    BY <1>5, Zenon DEF BeginDrain
  <2>2. ~Drain(u)
    BY <1>5, Zenon DEF Drain
  <2> QED
    BY <2>1, <2>2
<1>8. ASSUME NEW cmd \in Commands, NEW kind \in Kinds[u], BeginStream(u, kind, cmd)
      PROVE  Answered(t)'
  <2>1. PICK left : left = Without(pending[ClientOf[u]], cmd)
    OBVIOUS
  <2>2. pending' = [pending EXCEPT ![ClientOf[u]] = left]
    BY <1>8, <2>1, Zenon DEF BeginStream
  <2>3. arrived' = [v \in Threads |-> arrived[v] /\ v \notin Robbed(u, left) \cup {u}]
    BY <1>1, <1>8, <2>1, Zenon DEF BeginStream
  <2>4. arrived[t] /\ t \notin Robbed(u, left)
    BY <2>3, Zenon
  <2> QED
    BY <1>6, <2>2, <2>4
<1>9. CASE Gather(u)
  <2>1. PICK left : left = Without(pending[ClientOf[u]], op[u].cmd)
    OBVIOUS
  <2>2. op[u].kind = "load"
    BY <1>1, <1>9 DEF Gather, Streams, Locked
  <2>3. pending' = [pending EXCEPT ![ClientOf[u]] = left]
    BY <1>9, <2>1, Zenon DEF Gather
  <2>4. arrived' = [v \in Threads |-> arrived[v] /\ ~(op[u].kind = "load" /\ v \in Robbed(u, left))]
    BY <1>9, <2>1, Zenon DEF Gather
  <2>5. arrived[t] /\ t \notin Robbed(u, left)
    BY <2>2, <2>4, Zenon
  <2> QED
    BY <1>6, <2>3, <2>5
<1>10. CASE TimeOut(u)
  <2>1. arrived' = arrived /\ pending' = pending
    BY <1>10, Zenon DEF TimeOut
  <2> QED
    BY <2>1, Bystander
<1> QED
  BY <1>3, <1>4, <1>7, <1>8, <1>9, <1>10 DEF Moves

\* A thread whose answer has come in finds it the next time it looks.
LEMMA AnsweredHits ==
  ASSUME IInv, NEW t \in Threads, Answered(t), op[t].kind \in Asks, arrived[t]
  PROVE  Hits(op[t], pending[ClientOf[t]]) # {}
<1>1. PICK c, p, o : c \in Clients /\ c = ClientOf[t] /\ p = pending[c] /\ o = op[t]
  BY DEF Clients
<1>2. p \in Seq(Message) /\ Owned(t)
  BY <1>1 DEF IInv, TypeOK, Own
<1>3. PICK m \in ToSet(p) : m.rid = o.rid
  BY <1>1 DEF Answered
<1>4. m.cmd = o.cmd
  BY <1>1, <1>2, <1>3 DEF Owned, Heard
<1>5. PICK i \in 1 .. Len(p) : m = p[i]
  BY <1>2, <1>3, ElementsOf
<1>6. i \in Hits(o, p)
  BY <1>3, <1>4, <1>5 DEF Hits, Matches
<1> QED
  BY <1>1, <1>6

\* What a thread does itself.
LEMMA OwnMove ==
  ASSUME IInv, NEW t \in Threads, Answered(t), op'[t].kind \in Asks, arrived'[t], Moves(t)
  PROVE  Answered(t)'
<1>1. Orderly /\ Sent /\ op \in [Threads -> {Idle} \cup Exchanges]
  BY Parts DEF Orderly
<1>2. arrived \in [Threads -> BOOLEAN]
  BY Zenon DEF IInv, TypeOK
<1>3. ~(\E cmd \in Commands, kind \in Kinds[t] : Begin(t, kind, cmd) \/ BeginStream(t, kind, cmd))
  <2>1. ~(\E cmd \in Commands, kind \in Kinds[t] : Begin(t, kind, cmd))
    BY <1>2, Zenon DEF Begin
  <2>2. ~(\E cmd \in Commands, kind \in Kinds[t] : BeginStream(t, kind, cmd))
    <3>1. arrived' # [arrived EXCEPT ![t] = FALSE]
      BY <1>2, Zenon
    <3>2. \A p : arrived' # [u \in Threads |-> arrived[u] /\ u \notin Robbed(t, p) \cup {t}]
      BY Zenon
    <3> QED
      BY <3>1, <3>2, Zenon DEF BeginStream
  <2> QED
    BY <2>1, <2>2, Zenon
<1>4. ~(\E cmd \in Commands : BeginDrain(t, cmd))
  BY Zenon DEF BeginDrain
<1>5. ~Finish(t)
  BY Ends, NobodyIdles DEF Ended
<1>6. CASE Collect(t)
  <2>1. PICK c, p, w : c \in Clients /\ c = ClientOf[t] /\ p = pending[c] /\ w = wire[c]
    BY DEF Clients
  <2>2. /\ op[t] # Idle /\ op[t].at = "collect" /\ op' = [op EXCEPT ![t].at = "sift"]
    BY <1>6 DEF Collect
  <2>3. Turned(t) /\ op'[t].at = "sift"
    BY <1>1, <2>2, Turns
  <2>4. op[t].kind \in Asks /\ op'[t].rid = op[t].rid
    BY <2>3 DEF Turned
  <2>5. ~arrived[t]
    BY <2>2, <2>4 DEF Answered
  <2>6. \E i \in 1 .. Len(w) : w[i].rid = op[t].rid
    BY <1>6, <2>1, <2>5, Zenon DEF Collect
  <2>7. p \in Seq(Message) /\ w \in Seq(Message)
    BY <1>1, <2>1 DEF Sent
  <2>8. PICK m \in ToSet(w) : m.rid = op[t].rid
    BY <2>6, <2>7, ElementsOf
  <2>9. ToSet(p \o w) = ToSet(p) \cup ToSet(w)
    BY <2>7, ElementsOfConcat
  <2>10. pending'[ClientOf[t]] = p \o w
    BY <1>1, <1>6, <2>1, Zenon DEF Collect, Collected, Sent
  <2>11. m \in ToSet(pending'[ClientOf[t]])
    BY <2>8, <2>9, <2>10, Zenon
  <2> QED
    BY <2>3, <2>4, <2>8, <2>11 DEF Answered
<1>7. CASE NotYet(t)
  <2>1. /\ op[t].kind \in Asks /\ Hits(op[t], pending[ClientOf[t]]) = {} /\ arrived' = arrived
    BY <1>7 DEF NotYet
  <2> QED
    BY <2>1, AnsweredHits
<1>8. ~Drain(t) /\ ~Gather(t)
  <2>1. SUFFICES ASSUME Drain(t) \/ Gather(t) PROVE FALSE
    OBVIOUS
  <2>2. op[t] # Idle /\ op[t].kind \notin Asks /\ op' = [op EXCEPT ![t].at = "collect"]
    BY <1>5, <2>1 DEF Drain, Gather, Asks, Streams
  <2>3. Turned(t)
    BY <1>1, <2>2, Turns
  <2> QED
    BY <2>2, <2>3 DEF Turned
<1>9. ~Found(t) /\ ~TimeOut(t)
  BY <1>5 DEF Found, TimeOut
<1> QED
  BY <1>3, <1>4, <1>6, <1>7, <1>8, <1>9 DEF Moves

\* An answer that came in stays in _pending until its exchange sifts it.
LEMMA AnsweredKeeps ==
  ASSUME IInv, \A t \in Threads : Answered(t), [Next]_vars
  PROVE  \A t \in Threads : Answered(t)'
<1>1. SUFFICES ASSUME NEW t \in Threads, op'[t].kind \in Asks, arrived'[t] PROVE Answered(t)'
  BY DEF Answered
<1>2. CASE UNCHANGED vars \/ Answer \/ Ignore \/ Push
  <2>1. op' = op /\ arrived' = arrived /\ pending' = pending
    BY <1>2, Zenon DEF vars, Answer, Ignore, Push
  <2> QED
    BY <2>1, Bystander
<1>3. ASSUME NEW u \in Threads, Moves(u)
      PROVE  Answered(t)'
  <2>1. CASE u = t
    BY <1>1, <1>3, <2>1, OwnMove
  <2>2. CASE u # t
    <3>1. op'[t] = op[t]
      BY <1>3, <2>2, OthersStay
    <3>2. CASE ClientOf[u] # ClientOf[t]
      <4>1. arrived'[t] = arrived[t] /\ pending'[ClientOf[t]] = pending[ClientOf[t]]
        BY <1>3, <2>2, <3>2, StrangersLeave
      <4> QED
        BY <3>1, <4>1, Bystander
    <3>3. CASE ClientOf[u] = ClientOf[t]
      BY <1>1, <1>3, <2>2, <3>1, <3>3, FriendsLeave
    <3> QED
      BY <3>2, <3>3
  <2> QED
    BY <2>1, <2>2
<1> QED
  BY <1>2, <1>3, Zenon DEF Next, Moves

\* However many threads and clients ask: an exchange whose answer has come in
\* does not end without it, but for what switch_preset and cpu_load take out of
\* _pending past the lock (transport._serialized; server.py 529-535, 1070-1086).
THEOREM AnsweredAreFound == Spec => AnsweredIsFound
<1> DEFINE AllAnswered == \A t \in Threads : Answered(t)
           NotMissed(t) == op[t] # Idle /\ op[t].kind \in Asks /\ TimeOut(t) => ~arrived[t]
<1>1. Init => AllAnswered
  BY NobodyIdles DEF Init, Answered
<1>2. IInv /\ AllAnswered /\ [Next]_vars => AllAnswered'
  BY AnsweredKeeps
<1>3. AllAnswered => [\A t \in Threads : NotMissed(t)]_vars
  BY DEF Answered, TimeOut
<1> HIDE DEF AllAnswered
<1>4. Spec => []AllAnswered
  BY <1>1, <1>2, InvariantHolds, PTL DEF Spec
<1> HIDE DEF NotMissed
<1>5. Spec => [][\A t \in Threads : NotMissed(t)]_vars
  BY <1>3, <1>4, PTL
<1> QED
  BY <1>5 DEF AnsweredIsFound, NotMissed
=============================================================================
