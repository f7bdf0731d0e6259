--------------------------- MODULE DaemonHubProofs --------------------------
(* The daemon, for any number of clients, reports and calls, and the record   *)
(* of its session, for any number of daemons and servers.                     *)
EXTENDS DaemonHub, SessionLock, SequenceTheorems, WellFoundedInduction, TLAPS

-----------------------------------------------------------------------------
(* Induction over the natural numbers, as a fact about sets *)

\* Every set of natural numbers that is not empty has a least one.
LEMMA LeastNumber ==
  ASSUME NEW T \in SUBSET Nat, T # {}
  PROVE  \E n \in T : \A m \in T : n <= m
<1>1. IsWellFoundedOn(OpToRel(<, Nat), Nat)
  BY NatLessThanWellFounded
<1>2. PICK n \in T : \A m \in T : <<m, n>> \notin OpToRel(<, Nat)
  BY <1>1, WFMin
<1>3. \A m \in T : ~(m < n)
  BY <1>2 DEF OpToRel
<1> QED
  BY <1>3

\* Induction, for a set of numbers in place of a property.
LEMMA InductionOnSet ==
  ASSUME NEW T \in SUBSET Nat, 0 \in T, \A n \in T : n + 1 \in T
  PROVE  \A n \in Nat : n \in T
<1>1. SUFFICES ASSUME Nat \ T # {} PROVE FALSE
  OBVIOUS
<1>2. PICK n \in Nat \ T : \A m \in Nat \ T : n <= m
  BY <1>1, LeastNumber
<1>3. n # 0 /\ n - 1 \in Nat
  BY <1>2
<1>4. n - 1 \in T
  BY <1>2, <1>3
<1>5. (n - 1) + 1 \in T
  BY <1>4
<1> QED
  BY <1>2, <1>5

\* A function on the first numbers is a sequence of that length.
LEMMA FunctionIsSeq ==
  ASSUME NEW S, NEW n \in Nat, NEW f \in [1 .. n -> S]
  PROVE  f \in Seq(S) /\ Len(f) = n
<1>1. f \in Seq(S)
  BY SeqDef, Zenon
<1>2. DOMAIN f = 1 .. n
  OBVIOUS
<1>3. Len(f) \in Nat /\ DOMAIN f = 1 .. Len(f)
  BY <1>1, LenProperties
<1>4. Len(f) = n
  BY <1>2, <1>3
<1> QED
  BY <1>1, <1>4

-----------------------------------------------------------------------------
(* FlattenSeq *)

\* f[i] joins the first i sequences of ss.
Joins(ss, f, n) ==
  \A i \in 1 .. n : f[i] = IF i = 1 THEN ss[1] ELSE f[i - 1] \o ss[i]

\* There is such a function, up to any length.
Joinable(ss, n, S) == \E f \in [1 .. n -> Seq(S)] : Joins(ss, f, n)

\* A sequence of sequences can be joined up to any length.
LEMMA JoinExists ==
  ASSUME NEW S, NEW ss \in Seq(Seq(S)), NEW n \in Nat, n <= Len(ss)
  PROVE  Joinable(ss, n, S)
<1> DEFINE T == {k \in Nat : k <= Len(ss) => \E f \in [1 .. k -> Seq(S)] : Joins(ss, f, k)}
<1>1. 0 \in T
  <2>1. [i \in 1 .. 0 |-> <<>>] \in [1 .. 0 -> Seq(S)]
    OBVIOUS
  <2>2. Joins(ss, [i \in 1 .. 0 |-> <<>>], 0)
    BY DEF Joins
  <2> QED
    BY <2>1, <2>2
<1>2. ASSUME NEW k \in T PROVE k + 1 \in T
  <2> SUFFICES ASSUME k + 1 <= Len(ss)
               PROVE  \E g \in [1 .. k + 1 -> Seq(S)] : Joins(ss, g, k + 1)
    OBVIOUS
  <2>1. k \in Nat /\ k + 1 \in 1 .. Len(ss) /\ ss[k + 1] \in Seq(S) /\ 1 \in 1 .. Len(ss)
    BY ElementOfSeq
  <2>2. PICK f \in [1 .. k -> Seq(S)] : Joins(ss, f, k)
    BY <2>1
  <2> DEFINE g == [i \in 1 .. k + 1 |-> IF i <= k THEN f[i]
                                        ELSE IF k = 0 THEN ss[1] ELSE f[k] \o ss[k + 1]]
  <2>3. (IF k = 0 THEN ss[1] ELSE f[k] \o ss[k + 1]) \in Seq(S)
    BY <2>1, <2>2, ConcatProperties
  <2>4. g \in [1 .. k + 1 -> Seq(S)]
    BY <2>1, <2>2, <2>3
  <2>5. Joins(ss, g, k + 1)
    <3> SUFFICES ASSUME NEW i \in 1 .. k + 1
                 PROVE  g[i] = IF i = 1 THEN ss[1] ELSE g[i - 1] \o ss[i]
      BY DEF Joins
    <3>1. CASE i <= k
      <4>1. g[i] = f[i] /\ (i # 1 => g[i - 1] = f[i - 1])
        BY <3>1, <2>1
      <4>2. i \in 1 .. k
        BY <3>1, <2>1
      <4>3. f[i] = IF i = 1 THEN ss[1] ELSE f[i - 1] \o ss[i]
        BY <4>2, <2>2 DEF Joins
      <4> QED
        BY <4>1, <4>3
    <3>2. CASE i = k + 1
      <4>1. i # 1 => k # 0 /\ g[i - 1] = f[k]
        BY <3>2, <2>1
      <4>2. g[i] = IF k = 0 THEN ss[1] ELSE f[k] \o ss[k + 1]
        BY <3>2, <2>1
      <4> QED
        BY <3>2, <4>1, <4>2, <2>1
    <3> QED
      BY <3>1, <3>2, <2>1
  <2> QED
    BY <2>4, <2>5
<1> HIDE DEF T
<1>3. \A k \in Nat : k \in T
  BY <1>1, <1>2, InductionOnSet DEF T
<1> QED
  BY <1>3 DEF T, Joinable

\* Two functions have the same values up to n.
Agree(f, g, n) == \A i \in 1 .. n : f[i] = g[i]

\* It is determined by the sequences it joins.
LEMMA JoinsAgree ==
  ASSUME NEW ss, NEW tt, NEW f, NEW g, NEW n \in Nat,
         Joins(ss, f, n), Joins(tt, g, n), Agree(ss, tt, n)
  PROVE  Agree(f, g, n)
<1> DEFINE T == {k \in Nat : k \in 1 .. n => f[k] = g[k]}
<1>1. 0 \in T
  OBVIOUS
<1>2. ASSUME NEW k \in T PROVE k + 1 \in T
  <2> SUFFICES ASSUME k + 1 \in 1 .. n PROVE f[k + 1] = g[k + 1]
    OBVIOUS
  <2>1. CASE k = 0
    BY <2>1 DEF Joins, Agree
  <2>2. CASE k # 0
    <3>1. f[k] = g[k] /\ (k + 1) - 1 = k /\ k + 1 # 1
      BY <2>2
    <3> QED
      BY <3>1 DEF Joins, Agree
  <2> QED
    BY <2>1, <2>2
<1> HIDE DEF T
<1>3. \A k \in Nat : k \in T
  BY <1>1, <1>2, InductionOnSet DEF T
<1> QED
  BY <1>3 DEF T, Agree

\* FlattenSeq is what such a function comes to.
LEMMA FlattenIs ==
  ASSUME NEW S, NEW ss \in Seq(Seq(S)), ss # <<>>
  PROVE  \E f \in [1 .. Len(ss) -> Seq(S)] :
           Joins(ss, f, Len(ss)) /\ FlattenSeq(ss) = f[Len(ss)]
<1> DEFINE Body(f) == [i \in 1 .. Len(ss) |-> IF i = 1 THEN ss[i] ELSE f[i - 1] \o ss[i]]
           F == CHOOSE f : f = Body(f)
<1>1. Len(ss) \in Nat /\ Len(ss) # 0
  BY EmptySeq
<1>2. FlattenSeq(ss) = F[Len(ss)]
  BY <1>1 DEF FlattenSeq
<1>3. PICK f \in [1 .. Len(ss) -> Seq(S)] : Joins(ss, f, Len(ss))
  <2>1. Joinable(ss, Len(ss), S)
    BY <1>1, JoinExists
  <2> QED
    BY <2>1, Zenon DEF Joinable
<1>4. f = Body(f)
  BY <1>3 DEF Joins
<1>5. F = Body(F)
  BY <1>4, Zenon
<1>6. PICK G : G = F /\ G = Body(G)
  BY <1>5, Zenon
<1> HIDE DEF F
<1>7. Joins(ss, G, Len(ss))
  <2>1. \A i \in 1 .. Len(ss) : G[i] = IF i = 1 THEN ss[i] ELSE G[i - 1] \o ss[i]
    BY <1>6, Zenon
  <2>2. \A i \in 1 .. Len(ss) : G[i] = IF i = 1 THEN ss[1] ELSE G[i - 1] \o ss[i]
    BY <2>1, Zenon
  <2> QED
    BY <2>2, Zenon DEF Joins
<1>8. G[Len(ss)] = f[Len(ss)]
  <2>1. Agree(ss, ss, Len(ss))
    BY DEF Agree
  <2>2. Agree(G, f, Len(ss))
    BY <1>1, <1>3, <1>7, <2>1, JoinsAgree
  <2>3. Len(ss) \in 1 .. Len(ss)
    BY <1>1
  <2> QED
    BY <2>2, <2>3 DEF Agree
<1> QED
  BY <1>2, <1>3, <1>6, <1>8

\* Nothing joined is nothing.
LEMMA FlattenEmpty == FlattenSeq(<<>>) = <<>>
  BY EmptySeq DEF FlattenSeq

\* What is joined from sequences over a set is a sequence over it.
LEMMA FlattenTyped ==
  ASSUME NEW S, NEW ss \in Seq(Seq(S))
  PROVE  FlattenSeq(ss) \in Seq(S)
<1>1. CASE ss = <<>>
  BY <1>1, FlattenEmpty, EmptySeq
<1>2. CASE ss # <<>>
  <2>1. Len(ss) \in 1 .. Len(ss)
    BY <1>2, EmptySeq
  <2>2. PICK f \in [1 .. Len(ss) -> Seq(S)] : FlattenSeq(ss) = f[Len(ss)]
    BY <1>2, FlattenIs
  <2> QED
    BY <2>1, <2>2
<1> QED
  BY <1>1, <1>2

\* One sequence more comes at the end.
LEMMA FlattenAppend ==
  ASSUME NEW S, NEW ss \in Seq(Seq(S)), NEW s \in Seq(S)
  PROVE  FlattenSeq(Append(ss, s)) = FlattenSeq(ss) \o s
<1>1. PICK n \in Nat : n = Len(ss)
  BY LenProperties
<1>2. PICK m \in Nat : m = n + 1
  OBVIOUS
<1>3. PICK tt : tt = Append(ss, s)
  OBVIOUS
<1>4. tt \in Seq(Seq(S)) /\ tt # <<>> /\ Len(tt) = m /\ tt[m] = s /\ \A i \in 1 .. n : tt[i] = ss[i]
  BY <1>1, <1>2, <1>3, AppendProperties
<1>5. PICK g \in [1 .. m -> Seq(S)] : Joins(tt, g, m) /\ FlattenSeq(tt) = g[m]
  BY <1>4, FlattenIs
<1>6. m \in 1 .. m /\ m - 1 = n /\ (m = 1 <=> n = 0)
  BY <1>2
<1>7. g[m] = IF n = 0 THEN tt[1] ELSE g[n] \o s
  BY <1>4, <1>5, <1>6 DEF Joins
<1>8. CASE ss = <<>>
  <2>1. n = 0 /\ tt[1] = s
    BY <1>1, <1>2, <1>4, <1>8, EmptySeq
  <2>2. FlattenSeq(ss) \o s = s
    <3>1. FlattenSeq(ss) = <<>>
      BY <1>8, FlattenEmpty
    <3>2. <<>> \o s = s
      BY ConcatEmptySeq
    <3> QED
      BY <3>1, <3>2, Zenon
  <2>3. FlattenSeq(tt) = s
    BY <1>5, <1>7, <2>1
  <2> QED
    BY <1>3, <2>2, <2>3, Zenon
<1>9. CASE ss # <<>>
  <2>1. PICK f \in [1 .. n -> Seq(S)] : Joins(ss, f, n) /\ FlattenSeq(ss) = f[n]
    BY <1>1, <1>9, FlattenIs
  <2>2. n \in 1 .. n /\ n # 0
    BY <1>1, <1>9, EmptySeq
  <2>3. Joins(tt, g, n)
    <3>1. \A i \in 1 .. n : i \in 1 .. m
      BY <1>2
    <3> QED
      BY <1>5, <3>1 DEF Joins
  <2>4. Agree(tt, ss, n)
    BY <1>4 DEF Agree
  <2>5. Agree(g, f, n)
    BY <1>1, <2>1, <2>3, <2>4, JoinsAgree
  <2>6. g[n] = f[n]
    BY <2>2, <2>5 DEF Agree
  <2> QED
    BY <1>3, <1>5, <1>7, <2>1, <2>2, <2>6
<1> QED
  BY <1>8, <1>9

\* Concatenation is associative, with names for what is concatenated.
Is(z, x, y) == z = x \o y

\* Concatenation is associative.
LEMMA Regroup ==
  ASSUME NEW S, NEW x \in Seq(S), NEW y \in Seq(S), NEW z \in Seq(S),
         NEW a \in Seq(S), Is(a, x, y), NEW b \in Seq(S), Is(b, y, z),
         NEW c, Is(c, a, z), NEW d, Is(d, x, b)
  PROVE  c = d
<1>1. Len(a \o z) = Len(x \o b)
  BY DEF Is
<1>2. ASSUME NEW i \in 1 .. Len(a \o z) PROVE (a \o z)[i] = (x \o b)[i]
  BY DEF Is
<1>3. a \o z \in Seq(S) /\ x \o b \in Seq(S)
  BY ConcatProperties
<1>4. a \o z = x \o b
  BY <1>1, <1>2, <1>3, SeqEqual
<1> QED
  BY <1>4, Zenon DEF Is

\* Without the first sequence, the joins are shorter by it.
Rest(ss, tt, g, n, S) ==
  /\ ss[1] \in Seq(S)
  /\ \A i \in 1 .. n : tt[i] = ss[i + 1] /\ tt[i] \in Seq(S) /\ g[i] \in Seq(S)

Shifts(ss, f, g, n) == \A i \in 1 .. n : f[i + 1] = ss[1] \o g[i]

\* What joins the sequence without its head is what joins it, less the head.
LEMMA JoinsShift ==
  ASSUME NEW S, NEW n \in Nat, NEW m, m = n + 1,
         NEW ss, NEW tt, NEW f, NEW g,
         Joins(ss, f, m), Joins(tt, g, n), Rest(ss, tt, g, n, S)
  PROVE  Shifts(ss, f, g, n)
<1> USE DEF Rest, Shifts
<1> DEFINE T == {k \in Nat : k \in 1 .. n => f[k + 1] = ss[1] \o g[k]}
<1>1. 0 \in T
  OBVIOUS
<1>2. ASSUME NEW k \in T PROVE k + 1 \in T
  <2>1. PICK i \in Nat : i = k + 1
    OBVIOUS
  <2>2. SUFFICES ASSUME i \in 1 .. n PROVE f[i + 1] = ss[1] \o g[i]
    BY <2>1
  <2>3. PICK j \in Nat : j = i + 1
    OBVIOUS
  <2>4. k \in Nat /\ i - 1 = k /\ j - 1 = i /\ i \in 1 .. m /\ j \in 1 .. m /\ j # 1
    BY <2>1, <2>2, <2>3
  <2>5. f[j] = f[i] \o tt[i]
    <3>1. f[j] = f[j - 1] \o ss[j]
      BY <2>4 DEF Joins
    <3>2. tt[i] = ss[j]
      BY <2>2, <2>3
    <3> QED
      BY <2>4, <3>1, <3>2
  <2>6. CASE k = 0
    <3>1. i = 1
      BY <2>1, <2>6
    <3>2. f[1] = ss[1] /\ g[1] = tt[1]
      BY <2>2, <2>4, <3>1 DEF Joins
    <3> QED
      BY <2>3, <2>5, <3>1, <3>2
  <2>7. CASE k # 0
    <3>1. k \in 1 .. n /\ i # 1
      BY <2>1, <2>2, <2>4, <2>7
    <3>2. f[i] = ss[1] \o g[k] /\ g[k] \in Seq(S) /\ tt[i] \in Seq(S)
      BY <2>1, <2>2, <3>1
    <3>3. g[i] = g[k] \o tt[i]
      <4>1. g[i] = g[i - 1] \o tt[i]
        BY <2>2, <3>1 DEF Joins
      <4> QED
        BY <2>4, <4>1
    <3>4. f[i] \in Seq(S) /\ g[i] \in Seq(S) /\ ss[1] \in Seq(S)
      BY <2>2, <3>2, ConcatProperties
    <3>5. PICK x, y, z, a, b :
          x = ss[1] /\ y = g[k] /\ z = tt[i] /\ a = f[i] /\ b = g[i]
      OBVIOUS
    <3>6. /\ x \in Seq(S) /\ y \in Seq(S) /\ z \in Seq(S) /\ a \in Seq(S) /\ b \in Seq(S)
          /\ Is(a, x, y) /\ Is(b, y, z)
      BY <3>2, <3>3, <3>4, <3>5, Zenon DEF Is
    <3>7. PICK c, d : Is(c, a, z) /\ Is(d, x, b)
      BY Zenon DEF Is
    <3>8. c = d
      BY <3>6, <3>7, Regroup
    <3>9. a \o z = x \o b
      BY <3>7, <3>8, Zenon DEF Is
    <3> QED
      BY <2>3, <2>4, <2>5, <3>5, <3>9
  <2> QED
    BY <2>6, <2>7
<1>3. \A k \in T : k + 1 \in T
  BY <1>2
<1>4. \A k \in Nat : k \in T
  <2> T \in SUBSET Nat
    OBVIOUS
  <2> HIDE DEF T
  <2> QED
    BY <1>1, <1>3, InductionOnSet
<1>5. ASSUME NEW i \in 1 .. n PROVE f[i + 1] = ss[1] \o g[i]
  <2>1. i \in T
    <3> HIDE DEF T
    <3> QED
      BY <1>4
  <2> QED
    BY <2>1
<1> QED
  BY <1>5

\* What comes first stays first.
LEMMA FlattenTail ==
  ASSUME NEW S, NEW ss \in Seq(Seq(S)), ss # <<>>
  PROVE  FlattenSeq(ss) = Head(ss) \o FlattenSeq(Tail(ss))
<1>1. PICK m \in Nat : m = Len(ss) /\ m # 0
  BY LenProperties, EmptySeq
<1> DEFINE n == m - 1
<1>2. n \in Nat /\ n + 1 = m
  BY <1>1
<1> HIDE DEF n
<1>3. PICK tt : tt = Tail(ss)
  OBVIOUS
<1>4. tt \in Seq(Seq(S)) /\ Len(tt) = n /\ \A i \in 1 .. n : tt[i] = ss[i + 1]
  BY <1>1, <1>2, <1>3, HeadTailProperties DEF n
<1>5. Head(ss) = ss[1] /\ ss[1] \in Seq(S)
  BY <1>1, HeadTailProperties, ElementOfSeq
<1>6. PICK f \in [1 .. m -> Seq(S)] : Joins(ss, f, m) /\ FlattenSeq(ss) = f[m]
  BY <1>1, FlattenIs
<1>7. CASE n = 0
  <2>1. tt = <<>>
    BY <1>4, <1>7, EmptySeq
  <2>2. m = 1
    BY <1>2, <1>7
  <2>4. f[1] = ss[1]
    BY <2>2, <1>6 DEF Joins
  <2>3. ss[1] \o <<>> = ss[1]
    BY <1>5, ConcatEmptySeq
  <2> QED
    BY <1>3, <1>5, <1>6, <2>1, <2>2, <2>3, <2>4, FlattenEmpty
<1>8. CASE n # 0
  <2>1. tt # <<>> /\ n \in 1 .. n
    BY <1>2, <1>4, <1>8, EmptySeq
  <2>2. PICK g \in [1 .. n -> Seq(S)] : Joins(tt, g, n) /\ FlattenSeq(tt) = g[n]
    BY <1>2, <1>4, <2>1, FlattenIs
  <2>3. Rest(ss, tt, g, n, S)
    BY <1>4, <2>2, <1>5, ElementOfSeq DEF Rest
  <2>4. n \in Nat /\ m = n + 1 /\ Joins(ss, f, m) /\ Joins(tt, g, n) /\ Rest(ss, tt, g, n, S)
    BY <1>2, <1>6, <2>2, <2>3
  <2>5. Shifts(ss, f, g, n)
    BY <2>4, JoinsShift
  <2>6. f[m] = ss[1] \o g[n]
    BY <1>1, <1>2, <2>1, <2>5 DEF Shifts
  <2> QED
    BY <1>3, <1>5, <1>6, <2>2, <2>6
<1> QED
  BY <1>7, <1>8

-----------------------------------------------------------------------------
(* The operators of the daemon *)

\* A round of the pump is a sequence of reports.
LEMMA IntervalType ==
  ASSUME NEW lo \in Nat, NEW hi \in 0 .. MaxReports, lo <= hi
  PROVE  Interval(lo, hi) \in Seq(Reports)
  BY HubAssumption DEF Interval, Reports

\* Whatever it is given, what is kept of a queue is a tail of at most QUEUE_CAP.
LEMMA TrimmedType ==
  ASSUME NEW q \in Seq(Reports)
  PROVE  Trimmed(q) \in Seq(Reports) /\ Len(Trimmed(q)) <= QueueCap
<1>1. CASE Len(q) <= QueueCap
  BY <1>1, HubAssumption DEF Trimmed
<1>2. CASE Len(q) > QueueCap
  <2>1. Trimmed(q) = SubSeq(q, Len(q) - QueueCap + 1, Len(q))
    BY <1>2, HubAssumption DEF Trimmed
  <2> QED
    BY <1>2, <2>1, HubAssumption
<1> QED
  BY <1>1, <1>2, HubAssumption

\* A step that leaves a part of the state alone leaves its types alone.
LEMMA Untouched ==
  /\ PumpTypes /\ UNCHANGED pumpVars => PumpTypes'
  /\ HubTypes /\ UNCHANGED hubVars => HubTypes'
  /\ ClientTypes /\ UNCHANGED clientVars => ClientTypes'
  /\ QueueTypes /\ UNCHANGED <<queue, lost>> => QueueTypes'
  BY DEF PumpTypes, HubTypes, ClientTypes, QueueTypes, pumpVars, hubVars, clientVars

\* Answering takes the oldest call off and puts one reply on.
LEMMA AnswerType ==
  ASSUME HubTypes, NEW c \in Cids, calls[c] # <<>>,
         NEW reports \in Seq(Reports), NEW base \in Nat, Answer(c, reports, base)
  PROVE  calls' \in [Cids -> Seq(Call)] /\ replies' \in [Cids -> Seq(Reply)]
<1>1. calls[c] \in Seq(Call) /\ replies[c] \in Seq(Reply)
  BY DEF HubTypes
<1>2. Oldest(c) \in Call /\ Tail(calls[c]) \in Seq(Call)
  BY <1>1 DEF Oldest
<1>3. [id |-> Oldest(c).id, op |-> Oldest(c).op, reports |-> reports, base |-> base] \in Reply
  BY <1>2 DEF Reply, Call
<1>4. calls' \in [Cids -> Seq(Call)]
  BY <1>2 DEF Answer, HubTypes
<1>5. Append(replies[c], [id |-> Oldest(c).id, op |-> Oldest(c).op,
                          reports |-> reports, base |-> base]) \in Seq(Reply)
  BY <1>1, <1>3
<1>6. replies' \in [Cids -> Seq(Reply)]
  BY <1>5 DEF Answer, HubTypes
<1> QED
  BY <1>4, <1>6

\* TypeOK, and what keeps the counters and the thread inside a write well defined.
HubInv ==
  /\ TypeOK
  /\ pump = "snapshot" => Len(batch) <= pumped
  /\ writer # Nobody => calls[writer] # <<>> /\ Oldest(writer).op = "write"

LEMMA InitTypes == Init => HubInv
<1> SUFFICES ASSUME Init PROVE HubInv
  OBVIOUS
<1>1. PumpTypes
  BY HubAssumption DEF Init, PumpTypes
<1>2. 0 \in 0 .. MaxReports /\ 0 \in 0 .. MaxClients
  BY HubAssumption
<1>3. HubTypes
  <2>1. calls \in [Cids -> Seq(Call)] /\ replies \in [Cids -> Seq(Reply)]
    BY DEF Init
  <2>2. writer \in Cids \cup {Nobody} /\ stopping \in BOOLEAN
    BY DEF Init
  <2> QED
    BY <1>2, <2>1, <2>2 DEF Init, HubTypes
<1>4. ClientTypes
  BY <1>2 DEF Init, ClientTypes
<1>5. QueueTypes
  BY DEF Init, QueueTypes
<1> QED
  BY <1>1, <1>3, <1>4, <1>5 DEF Init, TypeOK, HubInv

\* One step per action: no interleaving of the pump, the client threads and the
\* clients takes the state out of its types.
LEMMA StepTypes == HubInv /\ [Next]_vars => TypeOK'
<1> SUFFICES ASSUME HubInv, [Next]_vars PROVE TypeOK'
  OBVIOUS
<1> USE Untouched DEF TypeOK
<1>a. PumpTypes /\ HubTypes /\ ClientTypes /\ QueueTypes
  BY DEF HubInv
<1>1. CASE Emit
  BY <1>1, <1>a, HubAssumption DEF Emit, PumpTypes
<1>2. CASE PumpRead
  <2>1. Fresh \in Seq(Reports)
    BY <1>a, IntervalType DEF PumpTypes, Fresh
  <2> QED
    BY <1>2, <1>a, <2>1 DEF PumpRead, PumpTypes
<1>3. CASE PumpSnapshot
  BY <1>3, <1>a DEF PumpSnapshot, PumpTypes, HubTypes
<1>4. CASE FanOut
  <2>1. PICK c : c = Min(targets)
    OBVIOUS
  <2>2. PICK full : full = IF c \in serving THEN queue[c] \o batch ELSE <<>>
    OBVIOUS
  <2>3. full \in Seq(Reports)
    BY <1>a, <2>2, ConcatProperties DEF PumpTypes, HubTypes, QueueTypes
  <2>4. Trimmed(full) \in Seq(Reports) /\ (lost[c] \/ Trimmed(full) # full) \in BOOLEAN
    BY <2>3, TrimmedType
  <2>5. /\ queue' = [queue EXCEPT ![c] = Trimmed(full)]
        /\ lost' = [lost EXCEPT ![c] = lost[c] \/ Trimmed(full) # full]
        /\ targets' = targets \ {c}
        /\ pump' = IF targets = {c} THEN "read" ELSE "fan_out"
        /\ UNCHANGED <<emitted, pumped, batch, hubVars, clientVars>>
    BY <1>4, <2>1, <2>2 DEF FanOut
  <2>6. QueueTypes'
    BY <1>a, <2>4, <2>5 DEF QueueTypes
  <2>7. PumpTypes'
    BY <1>a, <2>5 DEF PumpTypes
  <2> QED
    BY <1>a, <2>5, <2>6, <2>7
<1>5. CASE Close
  BY <1>5, <1>a DEF Close, HubTypes
<1>6. ASSUME NEW c \in Cids, Attach(c) PROVE TypeOK'
  <2>1. [id |-> 1, op |-> "hello"] \in Call
    BY DEF Call, Ops
  <2>2. HandedOut \in 0 .. MaxReports
    <3>1. Len(batch) \in Nat /\ pumped \in Nat /\ pumped <= MaxReports
      BY <1>a, HubAssumption DEF PumpTypes
    <3> QED
      BY <3>1, HubAssumption DEF HandedOut, HubInv
  <2>3. <<[id |-> 1, op |-> "hello"]>> \in Seq(Call)
    BY <2>1
  <2>4. nextClient + 1 \in 0 .. MaxClients
    BY <1>6, <1>a, HubAssumption DEF Attach, Cids, HubTypes
  <2>5. HubTypes'
    BY <1>6, <1>a, <2>3, <2>4 DEF Attach, HubTypes
  <2>6. ClientTypes'
    BY <1>6, <1>a, <2>1, <2>2 DEF Attach, ClientTypes
  <2> QED
    BY <1>6, <1>a, <2>5, <2>6 DEF Attach
<1>7. ASSUME NEW c \in Cids, Handle(c) PROVE TypeOK'
  <2> DEFINE Socks == calls' \in [Cids -> Seq(Call)] /\ replies' \in [Cids -> Seq(Reply)]
  <2>0. <<>> \in Seq(Reports) /\ queue[c] \in Seq(Reports) /\ Slice(c) \in Nat /\ 0 \in Nat
    BY <1>a, HubAssumption DEF QueueTypes, Slice, Cids
  <2>1. CASE HandleHello(c)
    <3>1. Socks
      BY <2>1, <1>a, <2>0, AnswerType DEF HandleHello, Ready
    <3> QED
      BY <2>1, <1>a, <3>1 DEF HandleHello, HubTypes
  <2>2. CASE HandleStatus(c)
    <3>1. Socks
      BY <2>2, <1>a, <2>0, AnswerType DEF HandleStatus, Ready
    <3> QED
      BY <2>2, <1>a, <3>1 DEF HandleStatus, HubTypes
  <2>3. CASE HandleRead(c)
    <3>1. Socks
      BY <2>3, <1>a, <2>0, AnswerType DEF HandleRead, Ready
    <3>2. QueueTypes'
      BY <2>3, <1>a DEF HandleRead, QueueTypes
    <3> QED
      BY <2>3, <1>a, <3>1, <3>2 DEF HandleRead, HubTypes
  <2>4. CASE WriteBegin(c)
    BY <2>4, <1>a DEF WriteBegin, HubTypes
  <2>5. CASE WriteEnd(c)
    <3>1. calls[c] # <<>>
      BY <2>5, HubAssumption DEF WriteEnd, HubInv, Nobody, Cids
    <3>2. Socks
      BY <2>5, <1>a, <2>0, <3>1, AnswerType DEF WriteEnd
    <3> QED
      BY <2>5, <1>a, <3>2 DEF WriteEnd, HubTypes
  <2>6. CASE HandleBye(c)
    <3>1. Socks
      BY <2>6, <1>a, <2>0, AnswerType DEF HandleBye, Ready
    <3>2. QueueTypes'
      BY <2>6, <1>a DEF HandleBye, Unregister, QueueTypes
    <3> QED
      BY <2>6, <1>a, <3>1, <3>2 DEF HandleBye, Unregister, HubTypes
  <2> QED
    BY <1>7, <2>1, <2>2, <2>3, <2>4, <2>5, <2>6 DEF Handle
<1>8. ASSUME NEW c \in Cids, Drop(c) PROVE TypeOK'
  <2>1. HubTypes' /\ QueueTypes'
    BY <1>8, <1>a DEF Drop, Unregister, HubTypes, QueueTypes
  <2> QED
    BY <1>8, <1>a, <2>1 DEF Drop, Unregister
<1>9. ASSUME NEW c \in Cids, NEW op \in {"read", "write", "status", "bye"}, Rpc(c, op)
      PROVE TypeOK'
  <2>1. PICK new \in Call : new = [id |-> callId[c] + 1, op |-> op]
    <3>1. callId[c] + 1 \in Nat
      BY <1>a DEF ClientTypes
    <3> QED
      BY <3>1 DEF Call, Ops
  <2>2. Append(calls[c], new) \in Seq(Call)
    BY <1>a, <2>1 DEF HubTypes
  <2>3. HubTypes'
    BY <1>9, <1>a, <2>1, <2>2 DEF Rpc, HubTypes
  <2>4. ClientTypes'
    BY <1>9, <1>a, <2>1 DEF Rpc, ClientTypes
  <2> QED
    BY <1>9, <1>a, <2>3, <2>4 DEF Rpc
<1>10. ASSUME NEW c \in Cids, TakeReply(c) PROVE TypeOK'
  <2>1. Head(replies[c]) \in Reply /\ Tail(replies[c]) \in Seq(Reply)
    BY <1>10, <1>a DEF TakeReply, HubTypes
  <2>2. PICK r \in Reply : r = Head(replies[c])
    BY <2>1
  <2>3. got[c] \o r.reports \in Seq(Reports) /\ r.base \in Nat
    BY <1>a, <2>2, ConcatProperties DEF Reply, ClientTypes
  <2>4. ClientTypes'
    BY <1>10, <1>a, <2>2, <2>3 DEF TakeReply, AfterCall, ClientTypes
  <2>5. HubTypes'
    BY <1>10, <1>a, <2>1 DEF TakeReply, HubTypes
  <2> QED
    BY <1>10, <1>a, <2>4, <2>5 DEF TakeReply
<1>11. ASSUME NEW c \in Cids, SkipLateReply(c) PROVE TypeOK'
  <2>1. (lost[c] \/ Head(replies[c]).reports # <<>>) \in BOOLEAN
    OBVIOUS
  <2>2. Tail(replies[c]) \in Seq(Reply)
    BY <1>11, <1>a DEF SkipLateReply, HubTypes
  <2>3. HubTypes' /\ QueueTypes'
    BY <1>11, <1>a, <2>1, <2>2 DEF SkipLateReply, HubTypes, QueueTypes
  <2> QED
    BY <1>11, <1>a, <2>3 DEF SkipLateReply
<1>12. ASSUME NEW c \in Cids, TimeOut(c) PROVE TypeOK'
  <2>1. ClientTypes'
    BY <1>12, <1>a DEF TimeOut, AfterCall, ClientTypes
  <2> QED
    BY <1>12, <1>a, <2>1 DEF TimeOut
<1>13. ASSUME NEW c \in Cids, Crash(c) PROVE TypeOK'
  <2>1. (lost[c] \/ InFlight(c) # <<>>) \in BOOLEAN
    OBVIOUS
  <2>2. HubTypes' /\ QueueTypes'
    BY <1>13, <1>a, <2>1 DEF Crash, HubTypes, QueueTypes
  <2>3. ClientTypes'
    BY <1>13, <1>a DEF Crash, ClientTypes
  <2> QED
    BY <1>13, <1>a, <2>2, <2>3 DEF Crash
<1>14. CASE UNCHANGED vars
  BY <1>14, <1>a DEF vars
<1> QED
  BY <1>1, <1>2, <1>3, <1>4, <1>5, <1>6, <1>7, <1>8, <1>9, <1>10, <1>11, <1>12, <1>13, <1>14
     DEF Next, Pump, Receive

-----------------------------------------------------------------------------
(* Request ids and answers *)

\* An entry of either socket is older than the call its client waits on, or
\* belongs to it; a hello carries the client's slice, and only a read reports.
CallOK(c, m) ==
  m.id <= callId[c] /\ (call[c] # NoCall /\ m.id = callId[c] => m.op = call[c].op)
ReplyOK(c, r) ==
  /\ CallOK(c, r)
  /\ r.op = "hello" => r.base = Slice(c)
  /\ r.reports # <<>> => r.op = "read"

ClientIds(c) ==
  /\ c >= nextClient => phase[c] = "off"
  /\ phase[c] = "off" => calls[c] = <<>> /\ replies[c] = <<>> /\ call[c] = NoCall
  /\ call[c] # NoCall => call[c].id = callId[c]
  /\ phase[c] = "greeting" /\ call[c] # NoCall => call[c].op = "hello"
  /\ phase[c] = "up" \/ used[c] > 0 => reqBase[c] = Slice(c)
  /\ \A i \in 1 .. Len(calls[c]) : CallOK(c, calls[c][i])
  /\ \A i \in 1 .. Len(replies[c]) : ReplyOK(c, replies[c][i])

IdInv == \A c \in Cids : ClientIds(c)

idVars(c) == <<calls[c], replies[c], phase[c], call[c], callId[c], reqBase[c], used[c]>>

\* A step that leaves a client's sockets and counters alone, and takes no new
\* client in, leaves its ids alone.
LEMMA SameIds ==
  ASSUME NEW c \in Cids, ClientIds(c), nextClient' = nextClient, UNCHANGED idVars(c)
  PROVE  ClientIds(c)'
  BY DEF ClientIds, CallOK, ReplyOK, Slice, idVars

LEMMA TailAt ==
  ASSUME NEW S, NEW s \in Seq(S), s # <<>>
  PROVE  \A i \in 1 .. Len(Tail(s)) : i + 1 \in 1 .. Len(s) /\ Tail(s)[i] = s[i + 1]
  OBVIOUS

\* A handler that answers the oldest call keeps the ids, as long as a hello is
\* given its slice and only a read is given reports.
LEMMA AnswerIds ==
  ASSUME TypeOK, NEW c \in Cids, ClientIds(c), calls[c] # <<>>,
         NEW reports, NEW base, Answer(c, reports, base),
         Oldest(c).op = "hello" => base = Slice(c),
         reports # <<>> => Oldest(c).op = "read",
         nextClient' = nextClient, UNCHANGED clientVars
  PROVE  ClientIds(c)'
<1>1. calls[c] \in Seq(Call) /\ replies[c] \in Seq(Reply)
  BY DEF TypeOK, HubTypes
<1>2. PICK new : new = [id |-> Oldest(c).id, op |-> Oldest(c).op,
                        reports |-> reports, base |-> base]
  OBVIOUS
<1>3. calls'[c] = Tail(calls[c]) /\ replies'[c] = Append(replies[c], new)
  BY <1>2 DEF Answer, TypeOK, HubTypes
<1>4. CallOK(c, Oldest(c))
  BY <1>1 DEF ClientIds, Oldest
<1>5. ReplyOK(c, new)
  BY <1>2, <1>4 DEF ReplyOK, CallOK
<1>6. \A i \in 1 .. Len(calls'[c]) : CallOK(c, calls'[c][i])
  BY <1>1, <1>3, TailAt DEF ClientIds
<1>7. \A i \in 1 .. Len(replies'[c]) : ReplyOK(c, replies'[c][i])
  BY <1>1, <1>3, <1>5 DEF ClientIds
<1> QED
  BY <1>6, <1>7 DEF ClientIds, CallOK, ReplyOK, Slice, clientVars

LEMMA InitIds == Init => IdInv
  BY DEF Init, IdInv, ClientIds, NoCall, Cids

\* The one step that matters for each action: which client it touches, and why
\* the ids of its sockets stay below, or equal, those of its call.
LEMMA StepIds == HubInv /\ IdInv /\ [Next]_vars => IdInv'
<1> SUFFICES ASSUME HubInv, IdInv, [Next]_vars, NEW d \in Cids PROVE ClientIds(d)'
  BY DEF IdInv, Cids
<1>a. TypeOK /\ ClientIds(d)
  BY DEF HubInv, IdInv
<1> USE <1>a
<1>1. CASE Emit \/ Pump \/ Close \/ UNCHANGED vars
  BY <1>1, SameIds DEF Emit, Pump, PumpRead, PumpSnapshot, FanOut, Close, vars,
                       pumpVars, hubVars, clientVars, idVars
<1>2. ASSUME NEW c \in Cids, Attach(c) PROVE ClientIds(d)'
  <2>1. CASE d = c
    BY <1>2, <2>1
    DEF Attach, ClientIds, CallOK, ReplyOK, Slice, TypeOK, HubTypes, ClientTypes, Cids
  <2>2. CASE d # c
    BY <1>2, <2>2
    DEF Attach, ClientIds, CallOK, ReplyOK, Slice, TypeOK, HubTypes, ClientTypes, Cids
  <2> QED
    BY <2>1, <2>2
<1>3. ASSUME NEW c \in Cids, Handle(c) PROVE ClientIds(d)'
  <2>1. CASE d # c
    <3>1. UNCHANGED idVars(d) /\ nextClient' = nextClient
      BY <1>3, <2>1 DEF Handle, HandleHello, HandleStatus, HandleRead, WriteBegin, WriteEnd,
         HandleBye, Answer, Unregister, clientVars, idVars, TypeOK, HubTypes
    <3> QED
      BY <3>1, SameIds
  <2>2. CASE d = c
    <3>1. CASE WriteBegin(c)
      BY <3>1, SameIds DEF WriteBegin, clientVars, idVars
    <3>2. CASE WriteEnd(c)
      <4>1. calls[c] # <<>> /\ Oldest(c).op = "write"
        BY <3>2, HubAssumption DEF WriteEnd, HubInv, Nobody, Cids
      <4> QED
        BY <2>2, <3>2, <4>1, AnswerIds DEF WriteEnd
    <3>3. CASE HandleHello(c)
      BY <2>2, <3>3, AnswerIds DEF HandleHello, Ready
    <3>4. CASE HandleStatus(c)
      BY <2>2, <3>4, AnswerIds DEF HandleStatus, Ready
    <3>5. CASE HandleRead(c)
      BY <2>2, <3>5, AnswerIds DEF HandleRead, Ready
    <3>6. CASE HandleBye(c)
      BY <2>2, <3>6, AnswerIds DEF HandleBye, Ready, Unregister
    <3> QED
      BY <1>3, <3>1, <3>2, <3>3, <3>4, <3>5, <3>6 DEF Handle
  <2> QED
    BY <2>1, <2>2
<1>4. ASSUME NEW c \in Cids, Drop(c) PROVE ClientIds(d)'
  BY <1>4 DEF Drop, Unregister, clientVars, ClientIds, CallOK, ReplyOK, Slice, TypeOK, HubTypes
<1>5. ASSUME NEW c \in Cids, NEW op \in {"read", "write", "status", "bye"}, Rpc(c, op)
      PROVE ClientIds(d)'
  <2>1. CASE d # c
    BY <1>5, <2>1, SameIds DEF Rpc, idVars, TypeOK, HubTypes, ClientTypes
  <2>2. CASE d = c
    <3>1. PICK new : new = [id |-> callId[c] + 1, op |-> op]
      OBVIOUS
    <3>2. /\ calls'[c] = Append(calls[c], new) /\ call'[c] = new /\ callId'[c] = callId[c] + 1
          /\ replies' = replies /\ nextClient' = nextClient /\ reqBase' = reqBase
          /\ phase[c] = "up" /\ phase'[c] \in {"up", "closing"}
      BY <1>5, <3>1 DEF Rpc, TypeOK, HubTypes, ClientTypes
    <3>3. calls[c] \in Seq(Call) /\ replies[c] \in Seq(Reply) /\ callId[c] \in Nat
      BY DEF TypeOK, HubTypes, ClientTypes
    <3>4. (\A i \in 1 .. Len(calls[c]) : CallOK(c, calls[c][i]))'
      <4>1. \A i \in 1 .. Len(calls[c]) : calls[c][i] \in Call /\ calls[c][i].id <= callId[c]
        BY <2>2, <3>3 DEF ClientIds, CallOK
      <4> QED
        BY <3>1, <3>2, <3>3, <4>1 DEF CallOK, Call
    <3>5. (\A i \in 1 .. Len(replies[c]) : ReplyOK(c, replies[c][i]))'
      <4> SUFFICES ASSUME NEW i \in 1 .. Len(replies[c]) PROVE ReplyOK(c, replies[c][i])'
        BY <3>2
      <4>1. PICK r : r = replies[c][i] /\ r = replies'[c][i]
        BY <3>2
      <4>2. r.id \in Nat
        <5>1. r \in Reply
          BY <3>3, <4>1, ElementOfSeq
        <5> QED
          BY <5>1 DEF Reply
      <4>3. ReplyOK(c, r)
        BY <2>2, <4>1 DEF ClientIds
      <4>4. r.id <= callId[c]
        BY <4>3 DEF ReplyOK, CallOK
      <4>5. r.id <= callId'[c] /\ r.id # callId'[c]
        BY <3>2, <3>3, <4>2, <4>4
      <4> QED
        BY <4>1, <4>3, <4>5 DEF ReplyOK, CallOK, Slice
    <3> QED
      BY <2>2, <3>1, <3>2, <3>4, <3>5 DEF ClientIds, Slice
  <2> QED
    BY <2>1, <2>2
<1>6. ASSUME NEW c \in Cids, TakeReply(c) PROVE ClientIds(d)'
  <2>1. CASE d # c
    BY <1>6, <2>1, SameIds DEF TakeReply, idVars, TypeOK, HubTypes, ClientTypes
  <2>2. CASE d = c
    <3>1. replies[c] \in Seq(Reply) /\ replies[c] # <<>>
      BY <1>6 DEF TakeReply, TypeOK, HubTypes
    <3>2. PICK r \in Reply : r = Head(replies[c]) /\ r = replies[c][1] /\ ReplyOK(c, r)
      BY <2>2, <3>1 DEF ClientIds
    <3>3. /\ call[c] # NoCall /\ r.id = call[c].id /\ call'[c] = NoCall
          /\ replies'[c] = Tail(replies[c]) /\ UNCHANGED <<calls, callId, used, nextClient>>
          /\ reqBase'[c] = IF r.op = "hello" THEN r.base ELSE reqBase[c]
          /\ phase'[c] = IF phase[c] = "greeting" THEN "up" ELSE AfterCall(c)
      BY <1>6, <3>2 DEF TakeReply, IsAnswer, TypeOK, HubTypes, ClientTypes
    <3>4. r.op = call[c].op /\ (r.op = "hello" => r.base = Slice(c))
      BY <2>2, <3>2, <3>3 DEF ReplyOK, CallOK, ClientIds
    <3>5. (\A i \in 1 .. Len(calls[c]) : CallOK(c, calls[c][i]))'
      BY <2>2, <3>3 DEF ClientIds, CallOK
    <3>6. (\A i \in 1 .. Len(replies[c]) : ReplyOK(c, replies[c][i]))'
      BY <2>2, <3>1, <3>3, TailAt DEF ClientIds, CallOK, ReplyOK, Slice
    <3>7. phase[c] # "off" /\ phase'[c] # "off"
      BY <2>2, <3>3 DEF ClientIds, AfterCall, TypeOK, ClientTypes
    <3>8. phase'[c] = "up" \/ used[c] > 0 => reqBase'[c] = Slice(c)
      BY <2>2, <3>3, <3>4 DEF ClientIds, AfterCall
    <3> QED
      BY <2>2, <3>3, <3>5, <3>6, <3>7, <3>8 DEF ClientIds, Slice
  <2> QED
    BY <2>1, <2>2
<1>7. ASSUME NEW c \in Cids, SkipLateReply(c) PROVE ClientIds(d)'
  <2>1. replies[c] \in Seq(Reply) /\ replies[c] # <<>> /\ call[c] # NoCall
    BY <1>7 DEF SkipLateReply, TypeOK, HubTypes
  <2>2. CASE d # c
    BY <1>7, <2>2, SameIds DEF SkipLateReply, clientVars, idVars, TypeOK, HubTypes
  <2>3. CASE d = c
    <3>1. replies'[c] = Tail(replies[c]) /\ UNCHANGED <<calls, nextClient, clientVars>>
      BY <1>7 DEF SkipLateReply, TypeOK, HubTypes
    <3>2. (\A i \in 1 .. Len(replies[c]) : ReplyOK(c, replies[c][i]))'
      BY <2>1, <2>3, <3>1, TailAt DEF ClientIds, CallOK, ReplyOK, Slice, clientVars
    <3> QED
      BY <2>1, <2>3, <3>1, <3>2 DEF ClientIds, CallOK, Slice, clientVars
  <2> QED
    BY <2>2, <2>3
<1>8. ASSUME NEW c \in Cids, TimeOut(c) \/ Crash(c) PROVE ClientIds(d)'
  <2>1. CASE d # c
    BY <1>8, <2>1, SameIds DEF TimeOut, Crash, hubVars, idVars, TypeOK, HubTypes, ClientTypes
  <2>2. CASE d = c
    <3>1. /\ call'[c] = NoCall /\ replies'[c] \in {replies[c], <<>>}
          /\ phase'[c] \in {phase[c], "gone"} /\ phase[c] # "off"
          /\ UNCHANGED <<calls, nextClient, callId, reqBase, used>>
      BY <1>8, <2>2
      DEF TimeOut, Crash, AfterCall, hubVars, ClientIds, TypeOK, HubTypes, ClientTypes
    <3>2. (\A i \in 1 .. Len(replies[c]) : ReplyOK(c, replies[c][i]))'
      BY <2>2, <3>1 DEF ClientIds, CallOK, ReplyOK, Slice
    <3> QED
      BY <2>2, <3>1, <3>2 DEF ClientIds, CallOK, Slice
  <2> QED
    BY <2>1, <2>2
<1> QED
  BY <1>1, <1>2, <1>3, <1>4, <1>5, <1>6, <1>7, <1>8 DEF Next, Receive

\* What else HubInv says: a round is never larger than what has been pumped, and
\* the thread inside a write still has that write to answer.
LEMMA StepHub == HubInv /\ IdInv /\ [Next]_vars => HubInv'
<1> SUFFICES ASSUME HubInv, IdInv, [Next]_vars PROVE HubInv'
  OBVIOUS
<1>1. TypeOK'
  BY StepTypes
<1>2. (pump = "snapshot" => Len(batch) <= pumped)'
  <2>1. CASE UNCHANGED <<pump, batch, pumped>>
    BY <2>1 DEF HubInv
  <2>2. CASE PumpRead
    BY <2>2, HubAssumption DEF PumpRead, Fresh, Interval, HubInv, TypeOK, PumpTypes
  <2>3. CASE PumpSnapshot \/ FanOut
    BY <2>3 DEF PumpSnapshot, FanOut
  <2>4. CASE Emit
    BY <2>4 DEF Emit, HubInv
  <2> QED
    BY <2>1, <2>2, <2>3, <2>4 DEF Next, Pump, Handle, Receive, Close, Attach, Drop, Unregister,
       HandleHello, HandleStatus, HandleRead, WriteBegin, WriteEnd, HandleBye, Rpc, TakeReply,
       SkipLateReply, TimeOut, Crash, vars, pumpVars
<1>3. (writer # Nobody => calls[writer] # <<>> /\ Oldest(writer).op = "write")'
  <2> SUFFICES ASSUME writer' # Nobody
               PROVE  calls'[writer'] # <<>> /\ Head(calls'[writer']).op = "write"
    BY DEF Oldest
  <2>1. PICK w \in Cids : w = writer'
    BY <1>1 DEF TypeOK, HubTypes
  <2>2. calls[w] \in Seq(Call)
    BY <2>1 DEF HubInv, TypeOK, HubTypes
  <2>3. CASE writer = w
    <3>1. calls[w] # <<>> /\ Head(calls[w]).op = "write"
      BY <2>1, <2>3 DEF HubInv, Oldest
    <3>2. calls'[w] = calls[w] \/ \E new : calls'[w] = Append(calls[w], new)
      <4>1. CASE UNCHANGED calls
        BY <4>1
      <4>2. ASSUME NEW c \in Cids, Handle(c) \/ Drop(c) \/ Attach(c) PROVE calls'[w] = calls[w]
        <5>1. CASE Attach(c)
          BY <5>1, <2>1, <3>1 DEF Attach, IdInv, ClientIds, HubInv, TypeOK, HubTypes, Cids
        <5>2. CASE Drop(c)
          BY <5>2, <2>1, <2>3 DEF Drop, HubInv, TypeOK, HubTypes
        <5>3. CASE Handle(c) /\ c # w
          BY <5>3 DEF Handle, HandleHello, HandleStatus, HandleRead, WriteBegin, WriteEnd,
             HandleBye, Answer, HubInv, TypeOK, HubTypes
        <5>4. CASE Handle(c) /\ c = w
          BY <5>4, <2>1, <2>3, <3>1 DEF Handle, HandleHello, HandleStatus, HandleRead,
             WriteBegin, WriteEnd, HandleBye, Ready, Oldest
        <5> QED
          BY <4>2, <5>1, <5>2, <5>3, <5>4
      <4>3. ASSUME NEW c \in Cids, NEW op \in {"read", "write", "status", "bye"}, Rpc(c, op)
            PROVE \E new : calls'[w] = Append(calls[w], new) \/ calls'[w] = calls[w]
        BY <4>3 DEF Rpc, HubInv, TypeOK, HubTypes
      <4> QED
        BY <4>1, <4>2, <4>3
        DEF Next, Emit, Pump, PumpRead, PumpSnapshot, FanOut, Close, Receive,
           TakeReply, SkipLateReply, TimeOut, Crash, vars, pumpVars, hubVars
    <3> QED
      BY <2>1, <2>2, <3>1, <3>2
  <2>4. CASE writer # w
    <3>1. WriteBegin(w)
      <4>1. writer' = w /\ writer' # writer /\ w # Nobody
        BY <2>1, <2>4
      <4> QED
        BY <4>1 DEF Next, Emit, Pump, PumpRead, PumpSnapshot, FanOut, Close, Attach, Handle,
           HandleHello, HandleStatus, HandleRead, WriteBegin, WriteEnd, HandleBye, Unregister, Drop,
           Rpc, Receive, TakeReply, SkipLateReply, TimeOut, Crash, vars, hubVars
    <3> QED
      BY <2>1, <3>1 DEF WriteBegin, Ready, Oldest
  <2> QED
    BY <2>3, <2>4
<1> QED
  BY <1>1, <1>2, <1>3 DEF HubInv

LEMMA InvInit == Init => HubInv /\ IdInv
  BY InitTypes, InitIds

LEMMA InvStep == HubInv /\ IdInv /\ [Next]_vars => (HubInv /\ IdInv)'
  BY StepHub, StepIds

\* Every value the daemon and its clients hold is one of its type, for any
\* number of clients, any REQ_STRIDE and QUEUE_CAP, reports and calls.
THEOREM HubTyped == Spec => []TypeOK
<1>1. HubInv => TypeOK
  BY DEF HubInv
<1> QED
  BY InvInit, InvStep, <1>1, PTL DEF Spec

\* Slices do not touch: an id of the slice before is at most where this one begins.
LEMMA SlicesApart ==
  ASSUME NEW c \in Cids, NEW d \in Cids, c < d,
         NEW i \in 1 .. ReqStride, NEW j \in 1 .. ReqStride
  PROVE  Slice(c) + i # Slice(d) + j
<1>1. c \in Nat /\ d \in Nat /\ ReqStride \in Nat /\ c + 1 <= d
  BY HubAssumption DEF Cids
<1>2. ReqStride * (c + 1) = ReqStride * c + ReqStride
  BY <1>1
<1>3. ReqStride * (c + 1) <= ReqStride * d
  BY <1>1
<1>4. ReqStride * c \in Nat /\ ReqStride * d \in Nat
  BY <1>1
<1> QED
  BY <1>1, <1>2, <1>3, <1>4 DEF Slice

\* However many clients attach, leave and attach again, and whatever they time
\* out on, two of them that stay within one slice never use the same request id.
THEOREM ClientsIdsDisjoint == Spec => []SlicesDisjoint
<1>1. HubInv /\ IdInv => SlicesDisjoint
  <2> SUFFICES ASSUME HubInv, IdInv,
                      NEW c \in Cids, NEW d \in Cids, c # d,
                      Drawn(c) <= ReqStride, Drawn(d) <= ReqStride,
                      NEW i \in 1 .. Drawn(c), NEW j \in 1 .. Drawn(d)
               PROVE  reqBase[c] + i # reqBase[d] + j
    BY DEF SlicesDisjoint, RequestIds
  <2>1. used[c] \in Nat /\ used[d] \in Nat /\ Drawn(c) \in Nat /\ Drawn(d) \in Nat
    BY DEF HubInv, TypeOK, ClientTypes, Drawn
  <2>2. i \in 1 .. ReqStride /\ j \in 1 .. ReqStride
    BY <2>1, HubAssumption
  <2>3. reqBase[c] = Slice(c) /\ reqBase[d] = Slice(d)
    BY <2>1 DEF IdInv, ClientIds, Drawn
  <2>4. c < d \/ d < c
    BY HubAssumption DEF Cids
  <2> QED
    BY <2>2, <2>3, <2>4, SlicesApart
<1> QED
  BY InvInit, InvStep, <1>1, PTL DEF Spec

\* Reports reach a client only through the answer to the read it waits on: the
\* reply to a call that timed out, however late, never passes for another's.
THEOREM RepliesAnswerTheirCall == Spec => AnswersOwnCall
<1>1. HubInv /\ IdInv /\ [Next]_vars => [\A c \in Cids : got'[c] # got[c] => call[c].op = "read"]_vars
  <2> SUFFICES ASSUME HubInv, IdInv, Next, NEW d \in Cids, got'[d] # got[d]
               PROVE  call[d].op = "read"
    OBVIOUS
  <2>1. PICK c \in Cids : TakeReply(c)
    BY DEF Next, Emit, Pump, PumpRead, PumpSnapshot, FanOut, Close, Attach, Handle, HandleHello,
       HandleStatus, HandleRead, WriteBegin, WriteEnd, HandleBye, Unregister, Drop, Rpc, Receive,
       SkipLateReply, TimeOut, Crash, clientVars
  <2>2. replies[c] \in Seq(Reply) /\ replies[c] # <<>> /\ got[c] \in Seq(Reports)
    BY <2>1 DEF TakeReply, HubInv, TypeOK, HubTypes, ClientTypes
  <2>3. PICK r \in Reply : r = Head(replies[c]) /\ r = replies[c][1]
    BY <2>2
  <2>4. c = d /\ got'[c] = got[c] \o r.reports
    BY <2>1, <2>3 DEF TakeReply, HubInv, TypeOK, ClientTypes
  <2>5. r.reports # <<>>
    BY <2>2, <2>4, ConcatEmptySeq
  <2>6. ReplyOK(c, r) /\ r.id = call[c].id /\ call[c] # NoCall /\ call[c].id = callId[c]
    BY <2>1, <2>2, <2>3 DEF IdInv, ClientIds, TakeReply, IsAnswer
  <2> QED
    BY <2>4, <2>5, <2>6 DEF ReplyOK, CallOK
<1> QED
  BY InvInit, InvStep, <1>1, PTL DEF Spec, AnswersOwnCall

\* A queue that nobody reads never holds more than QUEUE_CAP reports, whatever
\* the size of the rounds and however long its client stays away.
THEOREM QueuesStayBounded == Spec => []QueueBounded
<1>1. Init => QueueBounded
  BY HubAssumption DEF Init, QueueBounded
<1>2. HubInv /\ QueueBounded /\ [Next]_vars => QueueBounded'
  <2> SUFFICES ASSUME HubInv, QueueBounded, [Next]_vars, NEW d \in Cids
               PROVE  Len(queue'[d]) <= QueueCap
    BY DEF QueueBounded
  <2>1. CASE FanOut
    <3>1. PICK c : c = Min(targets)
      OBVIOUS
    <3>2. PICK full : full = IF c \in serving THEN queue[c] \o batch ELSE <<>>
      OBVIOUS
    <3>3. full \in Seq(Reports)
      BY <3>2, ConcatProperties DEF HubInv, TypeOK, PumpTypes, HubTypes, QueueTypes
    <3>4. queue' = [queue EXCEPT ![c] = Trimmed(full)]
      BY <2>1, <3>1, <3>2 DEF FanOut
    <3> QED
      BY <3>3, <3>4, TrimmedType DEF QueueBounded, HubInv, TypeOK, QueueTypes
  <2>2. CASE UNCHANGED queue
    BY <2>2 DEF QueueBounded
  <2>3. CASE \E c \in Cids : queue' = [queue EXCEPT ![c] = <<>>]
    BY <2>3, HubAssumption DEF QueueBounded, HubInv, TypeOK, QueueTypes
  <2> QED
    BY <2>1, <2>2, <2>3 DEF Next, Emit, Pump, PumpRead, PumpSnapshot, Close, Attach, Handle,
       HandleHello, HandleStatus, HandleRead, WriteBegin, WriteEnd, HandleBye, Unregister, Drop, Rpc,
       Receive, TakeReply, SkipLateReply, TimeOut, Crash, vars
<1> QED
  BY InvInit, InvStep, <1>1, <1>2, PTL DEF Spec

-----------------------------------------------------------------------------
(* What the hub promises of the reports                                     *)

(* Sequences of report numbers *)

\* Reports above lo and up to hi, each later than the one before.
Ascends(s, lo, hi) ==
  /\ s \in Seq(Nat)
  /\ \A i \in 1 .. Len(s) : lo < s[i] /\ s[i] <= hi
  /\ \A i, j \in 1 .. Len(s) : i < j => s[i] < s[j]

\* The same, and all of them when whole says so.
Follows(s, lo, hi, whole) == Ascends(s, lo, hi) /\ (whole => s = Interval(lo, hi))

\* An interval, entry by entry.
LEMMA IntervalIs ==
  ASSUME NEW lo \in Nat, NEW hi \in Nat, lo <= hi
  PROVE  /\ Interval(lo, hi) \in Seq(Nat) /\ Len(Interval(lo, hi)) = hi - lo
         /\ \A i \in 1 .. hi - lo : Interval(lo, hi)[i] = lo + i
         /\ Ascends(Interval(lo, hi), lo, hi)
<1>1. PICK n \in Nat : n = hi - lo
  OBVIOUS
<1>2. PICK s : s = Interval(lo, hi)
  OBVIOUS
<1>3. s = [i \in 1 .. n |-> lo + i]
  BY <1>1, <1>2 DEF Interval
<1>4. s \in [1 .. n -> Nat] /\ \A i \in 1 .. n : s[i] = lo + i
  BY <1>1, <1>3
<1>5. s \in Seq(Nat) /\ Len(s) = n
  BY <1>1, <1>4, FunctionIsSeq
<1>6. Ascends(s, lo, hi)
  BY <1>1, <1>4, <1>5 DEF Ascends
<1> QED
  BY <1>1, <1>2, <1>4, <1>5, <1>6

\* A sequence of numbers that rise by one is an interval.
LEMMA RisesByOne ==
  ASSUME NEW lo \in Nat, NEW hi \in Nat, lo <= hi, NEW s \in Seq(Nat),
         Len(s) = hi - lo, \A i \in 1 .. hi - lo : s[i] = lo + i
  PROVE  s = Interval(lo, hi)
<1>1. PICK t : t = Interval(lo, hi)
  OBVIOUS
<1>2. t \in Seq(Nat) /\ Len(t) = hi - lo /\ \A i \in 1 .. hi - lo : t[i] = lo + i
  BY <1>1, IntervalIs
<1>3. s = t
  BY <1>2, SeqEqual
<1> QED
  BY <1>1, <1>3

\* Nothing is the interval from a number to itself.
LEMMA EmptyInterval ==
  ASSUME NEW n \in Nat
  PROVE  Interval(n, n) = <<>>
<1>1. PICK t : t = Interval(n, n)
  OBVIOUS
<1>2. t \in Seq(Nat) /\ Len(t) = 0
  BY <1>1, IntervalIs
<1>3. t = <<>>
  BY <1>2, EmptySeq
<1> QED
  BY <1>1, <1>3

\* What is joined, entry by entry.
Joint(s, x, y) ==
  /\ s \in Seq(Nat) /\ Len(s) = Len(x) + Len(y)
  /\ \A i \in 1 .. Len(x) : s[i] = x[i]
  /\ \A i \in 1 .. Len(y) : s[Len(x) + i] = y[i]

\* A concatenation is its two parts, entry by entry.
LEMMA ConcatAt ==
  ASSUME NEW x \in Seq(Nat), NEW y \in Seq(Nat), NEW s, Is(s, x, y)
  PROVE  Joint(s, x, y)
<1>1. x \o y \in Seq(Nat) /\ Len(x \o y) = Len(x) + Len(y)
  BY ConcatProperties
<1>2. Len(x) \in Nat /\ Len(y) \in Nat
  BY LenProperties
<1>3. \A i \in 1 .. Len(x) : (x \o y)[i] = x[i]
  BY <1>2
<1>4. \A i \in 1 .. Len(y) : (x \o y)[Len(x) + i] = y[i]
  BY <1>2
<1> QED
  BY <1>1, <1>3, <1>4, Zenon DEF Is, Joint

\* An interval continues an interval.
LEMMA IntervalsJoin ==
  ASSUME NEW x \in Nat, NEW y \in Nat, NEW z \in Nat, x <= y, y <= z
  PROVE  Interval(x, y) \o Interval(y, z) = Interval(x, z)
<1>1. PICK a, b, s : a = Interval(x, y) /\ b = Interval(y, z) /\ Is(s, a, b)
  BY Zenon DEF Is
<1>2. a \in Seq(Nat) /\ Len(a) = y - x /\ \A i \in 1 .. y - x : a[i] = x + i
  BY <1>1, IntervalIs
<1>3. b \in Seq(Nat) /\ Len(b) = z - y /\ \A i \in 1 .. z - y : b[i] = y + i
  BY <1>1, IntervalIs
<1>4. Joint(s, a, b)
  BY <1>1, <1>2, <1>3, ConcatAt
<1>5. s \in Seq(Nat) /\ Len(s) = z - x
  BY <1>2, <1>3, <1>4 DEF Joint
<1>6. ASSUME NEW i \in 1 .. z - x PROVE s[i] = x + i
  <2>1. CASE i <= y - x
    BY <2>1, <1>2, <1>4 DEF Joint
  <2>2. CASE ~(i <= y - x)
    <3> DEFINE j == i - (y - x)
    <3>1. j \in 1 .. z - y /\ i = (y - x) + j /\ y + j = x + i
      BY <2>2
    <3> HIDE DEF j
    <3>2. s[i] = b[j]
      BY <3>1, <1>2, <1>3, <1>4 DEF Joint
    <3> QED
      BY <3>1, <3>2, <1>3
  <2> QED
    BY <2>1, <2>2
<1>7. s = Interval(x, z)
  BY <1>5, <1>6, RisesByOne
<1> QED
  BY <1>1, <1>7, Zenon DEF Is

\* What is left when entries k+1 to k+n are taken out, and some of the end.
LEMMA AscendsThin ==
  ASSUME NEW lo \in Nat, NEW hi \in Nat, NEW s, Ascends(s, lo, hi),
         NEW t \in Seq(Nat), NEW k \in Nat, NEW n \in Nat, Len(t) + n <= Len(s),
         \A i \in 1 .. Len(t) : t[i] = IF i <= k THEN s[i] ELSE s[i + n]
  PROVE  Ascends(t, lo, hi)
<1>1. Len(t) \in Nat /\ s \in Seq(Nat) /\ Len(s) \in Nat
  BY LenProperties DEF Ascends
<1>2. PICK m, l : m = Len(t) /\ l = Len(s)
  OBVIOUS
<1>3. /\ m \in Nat /\ l \in Nat /\ m + n <= l
      /\ \A i \in 1 .. m : t[i] = IF i <= k THEN s[i] ELSE s[i + n]
      /\ \A i \in 1 .. l : lo < s[i] /\ s[i] <= hi
      /\ \A i, j \in 1 .. l : i < j => s[i] < s[j]
  BY <1>1, <1>2 DEF Ascends
<1>4. ASSUME NEW i \in 1 .. m PROVE i \in 1 .. l /\ i + n \in 1 .. l
  BY <1>3
<1>5. ASSUME NEW i \in 1 .. m PROVE lo < t[i] /\ t[i] <= hi
  BY <1>3, <1>4
<1>6. ASSUME NEW i \in 1 .. m, NEW j \in 1 .. m, i < j PROVE t[i] < t[j]
  <2>1. i \in 1 .. l /\ i + n \in 1 .. l /\ j \in 1 .. l /\ j + n \in 1 .. l
    BY <1>4
  <2>2. i + n < j + n /\ i < j + n
    BY <1>6
  <2>3. s[i] < s[j] /\ s[i + n] < s[j + n] /\ s[i] < s[j + n]
    BY <1>3, <1>6, <2>1, <2>2
  <2>4. CASE i <= k /\ j <= k
    BY <1>3, <2>3, <2>4
  <2>5. CASE i <= k /\ ~(j <= k)
    BY <1>3, <2>3, <2>5
  <2>6. CASE ~(i <= k)
    <3>1. ~(j <= k)
      BY <1>6, <2>6
    <3> QED
      BY <1>3, <2>3, <2>6, <3>1
  <2> QED
    BY <2>4, <2>5, <2>6
<1> QED
  BY <1>2, <1>5, <1>6 DEF Ascends

\* What ascends can be continued by what ascends from there.
LEMMA AscendsJoin ==
  ASSUME NEW lo \in Nat, NEW m \in Nat, NEW hi \in Nat, lo <= m, m <= hi,
         NEW x, Ascends(x, lo, m), NEW y, Ascends(y, m, hi), NEW s, Is(s, x, y)
  PROVE  Ascends(s, lo, hi)
<1>1. x \in Seq(Nat) /\ y \in Seq(Nat) /\ Len(x) \in Nat /\ Len(y) \in Nat
  BY LenProperties DEF Ascends
<1>2. Joint(s, x, y)
  BY <1>1, ConcatAt
<1>3. PICK p, q : p = Len(x) /\ q = Len(y)
  OBVIOUS
<1>4. /\ p \in Nat /\ q \in Nat
      /\ \A i \in 1 .. p : s[i] \in Nat /\ lo < s[i] /\ s[i] <= m
      /\ \A i, j \in 1 .. p : i < j => s[i] < s[j]
  <2>1. \A i \in 1 .. p : x[i] \in Nat
    BY <1>1, <1>3, ElementOfSeq
  <2> QED
    BY <1>1, <1>2, <1>3, <2>1 DEF Ascends, Joint
<1>5. /\ \A i \in 1 .. q : s[p + i] \in Nat /\ m < s[p + i] /\ s[p + i] <= hi
      /\ \A i, j \in 1 .. q : i < j => s[p + i] < s[p + j]
  <2>1. \A i \in 1 .. q : y[i] \in Nat
    BY <1>1, <1>3, ElementOfSeq
  <2> QED
    BY <1>1, <1>2, <1>3, <2>1 DEF Ascends, Joint
<1>6. s \in Seq(Nat) /\ Len(s) = p + q
  BY <1>2, <1>3 DEF Joint
<1>7. ASSUME NEW i \in 1 .. p + q, ~(i <= p)
      PROVE /\ \E k \in 1 .. q : k = i - p /\ i = p + k
            /\ s[i] \in Nat /\ m < s[i] /\ s[i] <= hi
  <2> DEFINE k == i - p
  <2>1. k \in 1 .. q /\ i = p + k
    BY <1>4, <1>7
  <2> HIDE DEF k
  <2>2. s[i] \in Nat /\ m < s[i] /\ s[i] <= hi
    BY <1>5, <2>1
  <2> QED
    BY <2>1, <2>2 DEF k
<1>8. ASSUME NEW i \in 1 .. p + q PROVE lo < s[i] /\ s[i] <= hi
  <2>1. CASE i <= p
    <3>1. s[i] \in Nat /\ lo < s[i] /\ s[i] <= m
      BY <1>4, <2>1
    <3> QED
      BY <3>1
  <2>2. CASE ~(i <= p)
    <3>1. s[i] \in Nat /\ m < s[i] /\ s[i] <= hi
      BY <1>7, <2>2
    <3> QED
      BY <3>1
  <2> QED
    BY <2>1, <2>2
<1>9. ASSUME NEW i \in 1 .. p + q, NEW j \in 1 .. p + q, i < j PROVE s[i] < s[j]
  <2>1. CASE j <= p
    <3>1. i \in 1 .. p /\ j \in 1 .. p
      BY <1>4, <1>9, <2>1
    <3> QED
      BY <1>4, <1>9, <3>1
  <2>2. CASE ~(i <= p)
    <3>1. ~(j <= p)
      BY <1>4, <1>9, <2>2
    <3>2. PICK k \in 1 .. q : k = i - p /\ i = p + k
      BY <1>7, <2>2
    <3>3. PICK l \in 1 .. q : l = j - p /\ j = p + l
      BY <1>7, <3>1
    <3>4. k < l
      BY <1>4, <1>9, <3>2, <3>3
    <3> QED
      BY <1>5, <3>2, <3>3, <3>4
  <2>3. CASE i <= p /\ ~(j <= p)
    <3>1. s[i] \in Nat /\ s[i] <= m /\ s[j] \in Nat /\ m < s[j]
      BY <1>4, <1>7, <2>3
    <3> QED
      BY <3>1
  <2> QED
    BY <2>1, <2>2, <2>3
<1> QED
  BY <1>6, <1>8, <1>9 DEF Ascends

-----------------------------------------------------------------------------
(* What the daemon and a client do with a stream *)

\* A round of the pump continues it.
LEMMA FollowsOn ==
  ASSUME NEW lo \in Nat, NEW m \in Nat, NEW hi \in Nat, lo <= m, m <= hi,
         NEW w, NEW s, Follows(s, lo, m, w),
         NEW b, b = Interval(m, hi), NEW t, Is(t, s, b)
  PROVE  Follows(t, lo, hi, w)
<1>1. Ascends(b, m, hi)
  BY IntervalIs
<1>2. Ascends(t, lo, hi)
  BY <1>1, AscendsJoin DEF Follows
<1>3. ASSUME w PROVE t = Interval(lo, hi)
  <2>1. s = Interval(lo, m)
    BY <1>3, Zenon DEF Follows
  <2>2. t = Interval(lo, m) \o Interval(m, hi)
    BY <2>1, Zenon DEF Is
  <2> QED
    BY <2>2, IntervalsJoin, Zenon
<1> QED
  BY <1>2, <1>3, Zenon DEF Follows

\* Something in the middle of it is lost.
LEMMA FollowsWithout ==
  ASSUME NEW lo \in Nat, NEW hi \in Nat, NEW w, NEW s, Follows(s, lo, hi, w),
         NEW x \in Seq(Nat), NEW y \in Seq(Nat), NEW z \in Seq(Nat),
         NEW a, Is(a, x, y), Is(s, a, z), NEW t, Is(t, x, z)
  PROVE  Follows(t, lo, hi, FALSE)
<1>1. Joint(a, x, y) /\ Joint(t, x, z)
  BY ConcatAt
<1>2. a \in Seq(Nat)
  BY <1>1 DEF Joint
<1>3. Joint(s, a, z)
  BY <1>2, ConcatAt
<1>4. PICK p, q, r : p = Len(x) /\ q = Len(y) /\ r = Len(z)
  OBVIOUS
<1>5. p \in Nat /\ q \in Nat /\ r \in Nat
  BY <1>4, LenProperties
<1>6. t \in Seq(Nat) /\ Len(t) = p + r /\ Len(s) = (p + q) + r
  BY <1>1, <1>3, <1>4 DEF Joint
<1>7. \A i \in 1 .. p : t[i] = s[i]
  BY <1>1, <1>3, <1>4, <1>5 DEF Joint
<1>8. \A j \in 1 .. r : t[p + j] = z[j] /\ s[(p + q) + j] = z[j]
  BY <1>1, <1>3, <1>4 DEF Joint
<1>9. ASSUME NEW i \in 1 .. p + r, ~(i <= p) PROVE t[i] = s[i + q]
  <2> DEFINE j == i - p
  <2>1. j \in 1 .. r /\ p + j = i /\ (p + q) + j = i + q
    BY <1>5, <1>9
  <2> HIDE DEF j
  <2> QED
    BY <1>8, <2>1
<1>10. \A i \in 1 .. Len(t) : t[i] = IF i <= p THEN s[i] ELSE s[i + q]
  BY <1>5, <1>6, <1>7, <1>9
<1>11. Len(t) + q <= Len(s)
  BY <1>5, <1>6
<1>12. Ascends(t, lo, hi)
  BY <1>5, <1>6, <1>10, <1>11, AscendsThin DEF Follows
<1> QED
  BY <1>12 DEF Follows

\* Its end is lost: what is left follows as far as it goes.
LEMMA FollowsUpTo ==
  ASSUME NEW lo \in Nat, NEW hi \in Nat, lo <= hi, NEW w, NEW s, Follows(s, lo, hi, w),
         NEW x \in Seq(Nat), NEW y \in Seq(Nat), Is(s, x, y)
  PROVE  \E k \in Nat : lo <= k /\ k <= hi /\ Follows(x, lo, k, w)
<1>1. Joint(s, x, y)
  BY ConcatAt
<1>2. PICK p, q : p = Len(x) /\ q = Len(y)
  OBVIOUS
<1>3. p \in Nat /\ q \in Nat /\ Len(s) = p + q /\ \A i \in 1 .. p : x[i] = s[i]
  BY <1>1, <1>2, LenProperties DEF Joint
<1>4. \A i \in 1 .. Len(x) : x[i] = IF i <= p THEN s[i] ELSE s[i + q]
  BY <1>2, <1>3
<1>5. Ascends(x, lo, hi)
  <2>1. Ascends(s, lo, hi)
    BY DEF Follows
  <2>2. Len(x) + q <= Len(s)
    BY <1>2, <1>3
  <2> QED
    BY <1>3, <1>4, <2>1, <2>2, AscendsThin
<1>6. CASE w
  <2>1. s = Interval(lo, hi)
    BY <1>6, Zenon DEF Follows
  <2>2. Len(s) = hi - lo /\ \A i \in 1 .. hi - lo : s[i] = lo + i
    BY <2>1, IntervalIs
  <2> DEFINE k == lo + p
  <2>3. k \in Nat /\ lo <= k /\ k <= hi /\ k - lo = p
    BY <1>3, <2>2
  <2> HIDE DEF k
  <2>4. \A i \in 1 .. k - lo : x[i] = lo + i
    BY <1>3, <2>2, <2>3
  <2>5. x = Interval(lo, k)
    BY <1>2, <2>3, <2>4, RisesByOne
  <2>6. Follows(x, lo, k, w)
    BY <2>3, <2>5, IntervalIs DEF Follows
  <2> QED
    BY <2>3, <2>6
<1>7. CASE ~w
  BY <1>5, <1>7 DEF Follows
<1> QED
  BY <1>6, <1>7

\* Where a client that is given h next stands: at what it was given last.
LastOf(x, lo) == IF x = <<>> THEN lo ELSE x[Len(x)]

\* A run of reports that comes next begins after what came last, and right after
\* it when nothing was lost.
LEMMA FollowsNext ==
  ASSUME NEW lo \in Nat, NEW hi \in Nat, lo <= hi, NEW w, NEW s, Follows(s, lo, hi, w),
         NEW x \in Seq(Nat), NEW h, NEW z \in Seq(Nat),
         NEW a \in Nat, NEW b \in Nat, a < b, h = Interval(a, b),
         NEW y, Is(y, x, h), Is(s, y, z)
  PROVE  LastOf(x, lo) \in Nat /\ LastOf(x, lo) <= a /\ b <= hi /\ (w => LastOf(x, lo) = a)
<1>1. h \in Seq(Nat) /\ Len(h) = b - a /\ \A i \in 1 .. b - a : h[i] = a + i
  <2>1. a <= b
    OBVIOUS
  <2> QED
    BY <2>1, IntervalIs
<1>2. Joint(y, x, h)
  BY <1>1, ConcatAt
<1>3. y \in Seq(Nat)
  BY <1>2 DEF Joint
<1>4. Joint(s, y, z)
  BY <1>3, ConcatAt
<1>5. PICK p, q : p = Len(x) /\ q = Len(h)
  OBVIOUS
<1>6. p \in Nat /\ q \in Nat /\ q = b - a /\ Len(z) \in Nat /\ Len(s) = (p + q) + Len(z)
  BY <1>1, <1>2, <1>4, <1>5, LenProperties DEF Joint
<1>7. \A i \in 1 .. p + q : s[i] = y[i]
  BY <1>2, <1>4, <1>5 DEF Joint
<1>8. (\A i \in 1 .. p : s[i] = x[i]) /\ (\A i \in 1 .. q : s[p + i] = h[i])
  <2>1. (\A i \in 1 .. p : y[i] = x[i]) /\ (\A i \in 1 .. q : y[p + i] = h[i])
    BY <1>2, <1>5 DEF Joint
  <2>2. (\A i \in 1 .. p : i \in 1 .. p + q) /\ (\A i \in 1 .. q : p + i \in 1 .. p + q)
    BY <1>6
  <2> QED
    BY <1>7, <2>1, <2>2
<1>9. p + 1 \in 1 .. Len(s) /\ p + q \in 1 .. Len(s) /\ 1 \in 1 .. q /\ q \in 1 .. q
  BY <1>6
<1>10. s[p + 1] = a + 1 /\ s[p + q] = b
  <2>1. h[1] = a + 1 /\ h[q] = a + q
    BY <1>1, <1>6, <1>9
  <2>2. s[p + 1] = h[1] /\ s[p + q] = h[q]
    BY <1>8, <1>9
  <2>3. a + q = b
    BY <1>6
  <2> QED
    BY <2>1, <2>2, <2>3
<1>11. b <= hi /\ lo < a + 1
  BY <1>9, <1>10 DEF Follows, Ascends
<1>12. CASE p = 0
  <2>1. x = <<>>
    BY <1>5, <1>12, EmptySeq
  <2>2. LastOf(x, lo) = lo
    BY <2>1 DEF LastOf
  <2>3. ASSUME w PROVE lo = a
    <3>1. s = Interval(lo, hi)
      BY <2>3, Zenon DEF Follows
    <3>2. Len(s) = hi - lo /\ \A i \in 1 .. hi - lo : s[i] = lo + i
      BY <3>1, IntervalIs
    <3>3. s[1] = lo + 1 /\ s[1] = a + 1
      BY <1>6, <1>9, <1>10, <1>12, <3>2
    <3> QED
      BY <3>3
  <2> QED
    BY <1>11, <2>2, <2>3
<1>13. CASE p # 0
  <2>1. x # <<>> /\ p \in 1 .. p /\ p \in 1 .. Len(s)
    BY <1>5, <1>6, <1>13, EmptySeq
  <2>2. LastOf(x, lo) = x[p] /\ x[p] = s[p] /\ x[p] \in Nat
    BY <1>5, <1>8, <2>1, ElementOfSeq DEF LastOf
  <2>3. s[p] < s[p + 1]
    BY <1>6, <1>9, <2>1 DEF Follows, Ascends
  <2>4. ASSUME w PROVE s[p] = a
    <3>1. s = Interval(lo, hi)
      BY <2>4, Zenon DEF Follows
    <3>2. Len(s) = hi - lo /\ \A i \in 1 .. hi - lo : s[i] = lo + i
      BY <3>1, IntervalIs
    <3>3. s[p] = lo + p /\ s[p + 1] = lo + (p + 1)
      BY <1>9, <2>1, <3>2
    <3> QED
      BY <1>6, <1>10, <3>3
  <2> QED
    BY <1>10, <1>11, <2>2, <2>3, <2>4
<1> QED
  BY <1>6, <1>12, <1>13

-----------------------------------------------------------------------------
(* The parts of a client's stream *)

\* Report numbers are numbers.
LEMMA ReportsAreNumbers ==
  ASSUME NEW q \in Seq(Reports)
  PROVE  q \in Seq(Nat)
<1>1. \A i \in 1 .. Len(q) : q[i] \in Reports
  BY ElementOfSeq
<1>2. \A i \in 1 .. Len(q) : q[i] \in Nat
  BY <1>1, HubAssumption DEF Reports
<1> QED
  BY <1>2, SeqDef

\* What a queue of replies carries.
Loads(rs) == [i \in 1 .. Len(rs) |-> rs[i].reports]
Carried(rs) == FlattenSeq(Loads(rs))

\* The reports of each reply, one by one.
LEMMA LoadsAre ==
  ASSUME NEW rs \in Seq(Reply)
  PROVE  /\ Loads(rs) \in Seq(Seq(Nat)) /\ Len(Loads(rs)) = Len(rs)
         /\ \A i \in 1 .. Len(rs) : Loads(rs)[i] = rs[i].reports
<1>1. PICK n \in Nat : n = Len(rs)
  BY LenProperties
<1>2. \A i \in 1 .. n : rs[i] \in Reply
  BY <1>1, ElementOfSeq
<1>3. \A i \in 1 .. n : rs[i].reports \in Seq(Nat)
  BY <1>2, ReportsAreNumbers DEF Reply
<1>4. PICK l : l = Loads(rs)
  OBVIOUS
<1>5. l \in [1 .. n -> Seq(Nat)] /\ \A i \in 1 .. n : l[i] = rs[i].reports
  BY <1>1, <1>3, <1>4 DEF Loads
<1>6. l \in Seq(Seq(Nat)) /\ Len(l) = n
  BY <1>5, FunctionIsSeq
<1> QED
  BY <1>1, <1>4, <1>5, <1>6

\* Replies carry numbers.
LEMMA CarriedTyped ==
  ASSUME NEW rs \in Seq(Reply)
  PROVE  Carried(rs) \in Seq(Nat)
  BY LoadsAre, FlattenTyped DEF Carried

\* No replies carry nothing.
LEMMA CarriedEmpty == Carried(<<>>) = <<>>
<1>1. PICK l : l = Loads(<<>>)
  OBVIOUS
<1>2. <<>> \in Seq(Reply) /\ Len(<<>>) = 0
  OBVIOUS
<1>3. l \in Seq(Seq(Nat)) /\ Len(l) = 0
  BY <1>1, <1>2, LoadsAre
<1>4. l = <<>>
  BY <1>3, EmptySeq
<1> QED
  BY <1>1, <1>4, FlattenEmpty, Zenon DEF Carried

\* A reply more carries its reports behind the others.
LEMMA CarriedAppend ==
  ASSUME NEW rs \in Seq(Reply), NEW r \in Reply
  PROVE  Carried(Append(rs, r)) = Carried(rs) \o r.reports
<1>1. PICK rr, l, ll, m, h : /\ rr = Append(rs, r) /\ l = Loads(rs) /\ ll = Loads(rr)
                             /\ h = r.reports /\ m = Append(l, h)
  OBVIOUS
<1>2. rr \in Seq(Reply) /\ Len(rr) = Len(rs) + 1 /\ rr[Len(rs) + 1] = r
      /\ \A i \in 1 .. Len(rs) : rr[i] = rs[i]
  BY <1>1, AppendProperties
<1>3. h \in Seq(Nat)
  BY <1>1, ReportsAreNumbers DEF Reply
<1>4. l \in Seq(Seq(Nat)) /\ Len(l) = Len(rs) /\ \A i \in 1 .. Len(rs) : l[i] = rs[i].reports
  BY <1>1, LoadsAre, Zenon
<1>5. ll \in Seq(Seq(Nat)) /\ Len(ll) = Len(rr) /\ \A i \in 1 .. Len(rr) : ll[i] = rr[i].reports
  BY <1>1, <1>2, LoadsAre, Zenon
<1>6. m \in Seq(Seq(Nat)) /\ Len(m) = Len(l) + 1 /\ m[Len(l) + 1] = h
      /\ \A i \in 1 .. Len(l) : m[i] = l[i]
  BY <1>1, <1>3, <1>4, AppendProperties
<1>7. Len(rs) \in Nat
  BY LenProperties
<1>8. ASSUME NEW i \in 1 .. Len(ll) PROVE ll[i] = m[i]
  <2>1. i \in 1 .. Len(rs) \/ i = Len(rs) + 1
    BY <1>2, <1>5, <1>7
  <2>2. CASE i \in 1 .. Len(rs)
    BY <1>2, <1>4, <1>5, <1>6, <2>2
  <2>3. CASE i = Len(rs) + 1
    BY <1>1, <1>2, <1>4, <1>5, <1>6, <2>3
  <2> QED
    BY <2>1, <2>2, <2>3
<1>9. Len(ll) = Len(m)
  BY <1>2, <1>4, <1>5, <1>6
<1>10. ll = m
  BY <1>5, <1>6, <1>8, <1>9, SeqEqual
<1>11. FlattenSeq(m) = FlattenSeq(l) \o h
  BY <1>1, <1>3, <1>4, FlattenAppend
<1> QED
  BY <1>1, <1>10, <1>11, Zenon DEF Carried

\* The first reply carries the first reports.
LEMMA CarriedTail ==
  ASSUME NEW rs \in Seq(Reply), rs # <<>>
  PROVE  /\ Head(rs).reports \in Seq(Nat) /\ Carried(Tail(rs)) \in Seq(Nat)
         /\ Carried(rs) = Head(rs).reports \o Carried(Tail(rs))
<1>1. PICK tt, l, ll, m : tt = Tail(rs) /\ l = Loads(rs) /\ ll = Loads(tt) /\ m = Tail(l)
  OBVIOUS
<1>2. /\ Len(rs) \in Nat /\ Len(rs) # 0 /\ Head(rs) \in Reply /\ Head(rs) = rs[1]
      /\ tt \in Seq(Reply) /\ Len(tt) = Len(rs) - 1
      /\ \A i \in 1 .. Len(tt) : tt[i] = rs[i + 1]
  BY <1>1, HeadTailProperties, LenProperties, EmptySeq
<1>3. l \in Seq(Seq(Nat)) /\ Len(l) = Len(rs) /\ \A i \in 1 .. Len(rs) : l[i] = rs[i].reports
  BY <1>1, LoadsAre, Zenon
<1>4. ll \in Seq(Seq(Nat)) /\ Len(ll) = Len(tt) /\ \A i \in 1 .. Len(tt) : ll[i] = tt[i].reports
  BY <1>1, <1>2, LoadsAre, Zenon
<1>5. l # <<>>
  BY <1>2, <1>3, EmptySeq
<1>6. /\ Head(l) = l[1] /\ m \in Seq(Seq(Nat)) /\ Len(m) = Len(l) - 1
      /\ \A i \in 1 .. Len(m) : m[i] = l[i + 1]
  BY <1>1, <1>3, <1>5, HeadTailProperties
<1>7. Len(ll) = Len(m)
  BY <1>2, <1>3, <1>4, <1>6
<1>8. ASSUME NEW i \in 1 .. Len(ll) PROVE ll[i] = m[i]
  <2>1. i \in 1 .. Len(tt) /\ i \in 1 .. Len(m) /\ i + 1 \in 1 .. Len(rs)
    BY <1>2, <1>4, <1>7
  <2> QED
    BY <1>2, <1>3, <1>4, <1>6, <2>1
<1>9. ll = m
  BY <1>4, <1>6, <1>7, <1>8, SeqEqual
<1>10. Head(l) = Head(rs).reports
  <2>1. 1 \in 1 .. Len(rs)
    BY <1>2
  <2> QED
    BY <1>2, <1>3, <1>6, <2>1
<1>11. FlattenSeq(l) = Head(l) \o FlattenSeq(m)
  BY <1>1, <1>3, <1>5, FlattenTail
<1>12. Carried(rs) = Head(rs).reports \o Carried(tt)
  BY <1>1, <1>9, <1>10, <1>11, Zenon DEF Carried
<1>13. Head(rs).reports \in Seq(Nat) /\ Carried(tt) \in Seq(Nat)
  BY <1>2, CarriedTyped, ReportsAreNumbers DEF Reply
<1> QED
  BY <1>1, <1>12, <1>13, Zenon

\* Trimming leaves a run of reports a run that ends where it ended.
LEMMA TrimmedRun ==
  ASSUME NEW a \in Nat, NEW z \in Nat, a <= z, NEW q, q = Interval(a, z)
  PROVE  \E k \in Nat : a <= k /\ k <= z /\ Trimmed(q) = Interval(k, z)
<1>1. q \in Seq(Nat) /\ Len(q) = z - a /\ \A i \in 1 .. z - a : q[i] = a + i
  BY IntervalIs
<1>2. QueueCap \in Nat
  BY HubAssumption
<1>3. CASE ~(z - a > QueueCap)
  BY <1>1, <1>3 DEF Trimmed
<1>4. CASE z - a > QueueCap
  <2> DEFINE k == z - QueueCap
             b == (z - a) - QueueCap
  <2>1. k \in Nat /\ a <= k /\ k <= z /\ z - k = QueueCap /\ b \in Nat /\ a + b = k /\ b + QueueCap = z - a
    BY <1>2, <1>4
  <2> HIDE DEF k, b
  <2>2. PICK t : t = SubSeq(q, b + 1, z - a)
    OBVIOUS
  <2>3. Trimmed(q) = t
    BY <1>1, <1>4, <2>2 DEF Trimmed, b
  <2>4. t \in Seq(Nat) /\ Len(t) = z - k /\ \A i \in 1 .. z - k : t[i] = q[b + i]
    <3>1. \A i \in b + 1 .. z - a : q[i] \in Nat
      BY <1>1, <1>2, <2>1, ElementOfSeq
    <3>2. b + 1 \in Int /\ z - a \in Int /\ (b + 1 <= z - a => (z - a) - (b + 1) + 1 = z - k)
          /\ (~(b + 1 <= z - a) => z - k = 0)
      BY <1>2, <2>1
    <3>3. t \in Seq(Nat) /\ Len(t) = z - k
      BY <2>2, <3>1, <3>2, SubSeqProperties
    <3>4. \A i \in 1 .. Len(t) : t[i] = q[b + i]
      BY <2>1, <2>2, <3>1, <3>2
    <3> QED
      BY <3>3, <3>4
  <2>5. ASSUME NEW i \in 1 .. z - k PROVE t[i] = k + i
    <3>1. b + i \in 1 .. z - a /\ a + (b + i) = k + i
      BY <1>2, <2>1
    <3> QED
      BY <1>1, <2>4, <3>1
  <2>6. t = Interval(k, z)
    BY <2>1, <2>4, <2>5, RisesByOne
  <2> QED
    BY <2>1, <2>3, <2>6
<1> QED
  BY <1>3, <1>4

-----------------------------------------------------------------------------
(* Moving a part of the stream on *)

\* It does not matter which two of three are put together first.
Regroups(x, y, z) == (x \o y) \o z = x \o (y \o z)

\* Concatenation is associative.
LEMMA Associative ==
  ASSUME NEW x \in Seq(Nat), NEW y \in Seq(Nat), NEW z \in Seq(Nat)
  PROVE  Regroups(x, y, z)
<1>1. PICK a, b, c, d : a = x \o y /\ b = y \o z /\ c = a \o z /\ d = x \o b
  OBVIOUS
<1>2. Is(a, x, y) /\ Is(b, y, z) /\ Is(c, a, z) /\ Is(d, x, b)
  BY <1>1, Zenon DEF Is
<1>3. a \in Seq(Nat) /\ b \in Seq(Nat)
  BY <1>1, ConcatProperties
<1>4. c = d
  BY <1>2, <1>3, Regroup
<1> QED
  BY <1>1, <1>4, Zenon DEF Regroups

\* From the queue into a reply.
LEMMA Drained ==
  ASSUME NEW g \in Seq(Nat), NEW f \in Seq(Nat), NEW q \in Seq(Nat)
  PROVE  (g \o (f \o q)) \o <<>> = (g \o f) \o q
<1>1. Regroups(g, f, q)
  BY Associative
<1>2. f \o q \in Seq(Nat) /\ g \o (f \o q) \in Seq(Nat)
  BY ConcatProperties
<1>3. (g \o (f \o q)) \o <<>> = g \o (f \o q)
  BY <1>2, ConcatEmptySeq, Zenon
<1> QED
  BY <1>1, <1>3, Zenon DEF Regroups


\* The middle of the stream is lost.
LEMMA MiddleLost ==
  ASSUME NEW lo \in Nat, NEW hi \in Nat, NEW w, NEW g \in Seq(Nat), NEW h \in Seq(Nat),
         NEW r \in Seq(Nat), Follows((g \o h) \o r, lo, hi, w)
  PROVE  Follows(g \o r, lo, hi, w /\ h = <<>>)
<1>1. PICK a, s, t : a = g \o h /\ s = a \o r /\ t = g \o r
  OBVIOUS
<1>2. Is(a, g, h) /\ Is(s, a, r) /\ Is(t, g, r) /\ Follows(s, lo, hi, w)
  BY <1>1, Zenon DEF Is
<1>3. Follows(t, lo, hi, FALSE)
  BY <1>2, FollowsWithout
<1>4. CASE h = <<>>
  <2>1. a = g
    BY <1>1, <1>4, ConcatEmptySeq, Zenon
  <2>2. s = t
    BY <1>1, <2>1, Zenon
  <2>3. Follows(t, lo, hi, w)
    BY <1>2, <2>2, Zenon
  <2>4. Follows(t, lo, hi, w /\ h = <<>>)
    BY <1>4, <2>3, Zenon DEF Follows
  <2> QED
    BY <1>1, <2>4, Zenon
<1>5. CASE h # <<>>
  <2>1. Follows(t, lo, hi, w /\ h = <<>>)
    BY <1>3, <1>5, Zenon DEF Follows
  <2> QED
    BY <1>1, <2>1, Zenon
<1> QED
  BY <1>4, <1>5, Zenon

\* What a queue is trimmed by is lost, and nothing else.
LEMMA TrimmedOff ==
  ASSUME NEW lo \in Nat, NEW hi \in Nat, NEW w, NEW x \in Seq(Nat), NEW q \in Seq(Nat),
         Follows(x \o q, lo, hi, w)
  PROVE  /\ Trimmed(q) \in Seq(Nat)
         /\ Follows(x \o Trimmed(q), lo, hi, w /\ Trimmed(q) = q)
<1>1. PICK n \in Nat : n = Len(q)
  BY LenProperties
<1>2. QueueCap \in Nat
  BY HubAssumption
<1>3. CASE ~(n > QueueCap)
  <2>1. Trimmed(q) = q
    BY <1>1, <1>3 DEF Trimmed
  <2> QED
    BY <2>1, Zenon DEF Follows
<1>4. CASE n > QueueCap
  <2> DEFINE b == n - QueueCap
  <2>1. b \in Nat /\ b <= n /\ b + QueueCap = n
    BY <1>2, <1>4
  <2> HIDE DEF b
  <2>2. PICK u, t : u = SubSeq(q, 1, b) /\ t = SubSeq(q, b + 1, n)
    OBVIOUS
  <2>3. Trimmed(q) = t
    BY <1>1, <1>4, <2>2 DEF Trimmed, b
  <2>4. u \in Seq(Nat) /\ t \in Seq(Nat) /\ Len(t) = QueueCap /\ q = u \o t
    <3>1. \A i \in 1 .. n : q[i] \in Nat
      BY <1>1, ElementOfSeq
    <3>2. u \in Seq(Nat) /\ Len(u) = b /\ \A i \in 1 .. b : u[i] = q[i]
      BY <2>1, <2>2, <3>1
    <3>3. t \in Seq(Nat) /\ Len(t) = QueueCap /\ \A i \in 1 .. QueueCap : t[i] = q[b + i]
      BY <1>2, <2>1, <2>2, <3>1
    <3>4. PICK v : Is(v, u, t)
      BY Zenon DEF Is
    <3>5. Joint(v, u, t)
      BY <3>2, <3>3, <3>4, ConcatAt
    <3>6. v \in Seq(Nat) /\ Len(v) = n
      BY <2>1, <3>2, <3>3, <3>5 DEF Joint
    <3>7. ASSUME NEW i \in 1 .. n PROVE q[i] = v[i]
      <4>1. CASE i <= b
        BY <2>1, <3>2, <3>5, <4>1 DEF Joint
      <4>2. CASE ~(i <= b)
        <5> DEFINE j == i - b
        <5>1. j \in 1 .. QueueCap /\ b + j = i
          BY <1>2, <2>1, <4>2
        <5> HIDE DEF j
        <5> QED
          BY <3>2, <3>3, <3>5, <5>1 DEF Joint
      <4> QED
        BY <4>1, <4>2
    <3>8. q = v
      BY <1>1, <3>6, <3>7, SeqEqual
    <3> QED
      BY <3>2, <3>3, <3>4, <3>8, Zenon DEF Is
  <2>5. x \o q = (x \o u) \o t
    <3>1. Regroups(x, u, t)
      BY <2>4, Associative
    <3> QED
      BY <2>4, <3>1, Zenon DEF Regroups
  <2>6. Follows((x \o u) \o t, lo, hi, w)
    BY <2>5, Zenon
  <2>7. Follows(x \o t, lo, hi, w /\ u = <<>>)
    BY <2>4, <2>6, MiddleLost, Zenon
  <2>8. t # q
    BY <1>1, <1>2, <1>4, <2>4
  <2>9. Follows(x \o t, lo, hi, w /\ t = q)
    BY <2>7, <2>8, Zenon DEF Follows
  <2> QED
    BY <2>3, <2>4, <2>9, Zenon
<1> QED
  BY <1>3, <1>4

-----------------------------------------------------------------------------
(* The invariant *)

\* The round the pump is in, and whom it is for.
Round ==
  /\ pump # "read" => Len(batch) <= pumped /\ batch = Interval(pumped - Len(batch), pumped)
  /\ pump = "fan_out" => targets # {}
  /\ \A c \in targets : phase[c] # "off"

\* A client is served from when it registers at the earliest; before that it has
\* nothing.
Registered(c) ==
  /\ phase[c] = "off" <=> c >= nextClient
  /\ c \in serving => phase[c] # "off"
  /\ phase[c] = "off" => got[c] = <<>> /\ ~lost[c]

\* What it has been given follows from when it registered, up to the round the
\* pump is in as long as it is served.
FedTo(c, k) ==
  /\ joined[c] <= k /\ k <= GivenUpTo(c) /\ (c \in serving => k = GivenUpTo(c))
  /\ Follows(Stream(c), joined[c], k, ~lost[c])
Fed(c) == \E k \in Nat : FedTo(c, k)

\* Its queue ends with the last report it was given; without a thread it has none.
Queued(c) ==
  /\ c \in serving => \E a \in Nat : a <= GivenUpTo(c) /\ queue[c] = Interval(a, GivenUpTo(c))
  /\ c \notin serving => queue[c] = <<>>

\* Every reply carries a run of consecutive reports, or none.
Run(r) == \E a, b \in Nat : a <= b /\ r = Interval(a, b)
Runs(c) == \A i \in 1 .. Len(replies[c]) : Run(replies[c][i].reports)

Client(c) == Registered(c) /\ Fed(c) /\ Queued(c) /\ Runs(c)

StreamInv == Round /\ \A c \in Cids : Client(c)

\* A stream in its three parts, before and after a step.
LEMMA StreamParts ==
  ASSUME NEW c
  PROVE  /\ Stream(c) = (got[c] \o Carried(replies[c])) \o queue[c]
         /\ Stream(c)' = (got'[c] \o Carried(replies'[c])) \o queue'[c]
  BY Zenon DEF Stream, InFlight, Carried, Loads

\* The three parts are sequences of numbers.
LEMMA PartsTyped ==
  ASSUME TypeOK, NEW c \in Cids
  PROVE  /\ got[c] \in Seq(Nat) /\ Carried(replies[c]) \in Seq(Nat) /\ queue[c] \in Seq(Nat)
         /\ replies[c] \in Seq(Reply) /\ calls[c] \in Seq(Call)
         /\ joined[c] \in Nat /\ lost[c] \in BOOLEAN
<1>1. /\ got[c] \in Seq(Reports) /\ queue[c] \in Seq(Reports) /\ replies[c] \in Seq(Reply)
      /\ calls[c] \in Seq(Call) /\ joined[c] \in 0 .. MaxReports
  BY DEF TypeOK, ClientTypes, HubTypes, QueueTypes
<1>2. lost[c] \in BOOLEAN
  BY DEF TypeOK, QueueTypes
<1>3. joined[c] \in Nat
  BY <1>1, HubAssumption
<1> QED
  BY <1>1, <1>2, <1>3, ReportsAreNumbers, CarriedTyped

\* How far the round is for a client, and that it is no further than the device.
LEMMA GivenIs ==
  ASSUME TypeOK, Round, NEW c \in Cids
  PROVE  GivenUpTo(c) \in Nat /\ GivenUpTo(c) <= pumped /\ pumped \in Nat
         /\ emitted \in Nat /\ pumped <= emitted
<1>1. /\ pumped \in Nat /\ emitted \in Nat /\ pumped <= emitted
      /\ batch \in Seq(Reports) /\ pump \in {"read", "snapshot", "fan_out"}
  BY HubAssumption DEF TypeOK, PumpTypes
<1>2. Len(batch) \in Nat
  BY <1>1, LenProperties
<1>3. CASE Owes(c)
  <2>1. Len(batch) <= pumped
    BY <1>3 DEF Owes, Round
  <2> QED
    BY <1>1, <1>2, <1>3, <2>1 DEF GivenUpTo
<1>4. CASE ~Owes(c)
  BY <1>1, <1>4 DEF GivenUpTo
<1> QED
  BY <1>3, <1>4


-----------------------------------------------------------------------------
(* Steps that leave a stream alone *)

\* What a step has to show for the stream of a client after it.
LEMMA FedAfter ==
  ASSUME NEW c, NEW k \in Nat, NEW j, j = joined'[c], NEW s, s = Stream(c)',
         NEW w, w <=> ~lost'[c], j <= k, k <= GivenUpTo(c)',
         c \in serving' => k = GivenUpTo(c)', Follows(s, j, k, w)
  PROVE  Fed(c)'
<1>1. Follows(Stream(c)', joined'[c], k, ~lost'[c])
  BY Zenon DEF Follows
<1>2. FedTo(c, k)'
  BY <1>1, Zenon DEF FedTo
<1> QED
  BY <1>2 DEF Fed

\* The step is another client's, or the pump's.
Same(d) ==
  /\ UNCHANGED <<got[d], replies[d], queue[d], joined[d], lost[d]>>
  /\ d \in serving' <=> d \in serving
  /\ phase'[d] = "off" <=> phase[d] = "off"
  /\ d >= nextClient' <=> d >= nextClient

\* Then its stream is what it was, if the round has not moved for it.
LEMMA SameStream ==
  ASSUME TypeOK, Round, NEW d \in Cids, Client(d), Same(d),
         GivenUpTo(d)' \in Nat, GivenUpTo(d) <= GivenUpTo(d)',
         d \in serving => GivenUpTo(d)' = GivenUpTo(d)
  PROVE  Client(d)'
<1>1. Registered(d)'
  BY DEF Client, Registered, Same
<1>2. Stream(d)' = Stream(d)
  BY StreamParts, Zenon DEF Same
<1>3. Fed(d)'
  <2>1. PICK k \in Nat : FedTo(d, k)
    BY DEF Client, Fed
  <2>2. k <= GivenUpTo(d)'
    BY <2>1, GivenIs DEF FedTo
  <2>3. d \in serving' => k = GivenUpTo(d)'
    BY <2>1, Zenon DEF FedTo, Same
  <2>4. /\ Follows(Stream(d)', joined[d], k, ~lost[d])
        /\ joined[d] <= k /\ joined'[d] = joined[d] /\ lost'[d] = lost[d]
    BY <1>2, <2>1, Zenon DEF FedTo, Same
  <2>5. FedTo(d, k)'
    BY <2>2, <2>3, <2>4, Zenon DEF FedTo
  <2> QED
    BY <2>1, <2>5 DEF Fed
<1>4. Queued(d)'
  BY Zenon DEF Client, Queued, Same
<1>5. Runs(d)'
  BY Zenon DEF Client, Runs, Same
<1> QED
  BY <1>1, <1>3, <1>4, <1>5 DEF Client

\* A step that leaves the pump alone leaves alone how far its round is.
LEMMA GivenStays ==
  ASSUME UNCHANGED pumpVars, NEW c
  PROVE  GivenUpTo(c)' = GivenUpTo(c)
  BY DEF GivenUpTo, Owes, pumpVars

\* Another client's step leaves the stream alone.
LEMMA SameClient ==
  ASSUME TypeOK, Round, NEW d \in Cids, Client(d), Same(d), UNCHANGED pumpVars
  PROVE  Client(d)'
<1>1. GivenUpTo(d)' = GivenUpTo(d) /\ GivenUpTo(d) \in Nat
  BY GivenStays, GivenIs
<1>2. GivenUpTo(d)' \in Nat /\ GivenUpTo(d) <= GivenUpTo(d)'
  BY <1>1
<1> QED
  BY <1>1, <1>2, SameStream

\* It leaves the round alone, too.
LEMMA RoundStays ==
  ASSUME Round, TypeOK, UNCHANGED pumpVars, \A c \in Cids : phase'[c] = "off" => phase[c] = "off"
  PROVE  Round'
<1>1. targets \subseteq Cids
  BY DEF TypeOK, PumpTypes
<1> QED
  BY <1>1 DEF Round, pumpVars

\* A client whose call is open, or that is served, has attached.
LEMMA Attached ==
  ASSUME IdInv, StreamInv, NEW c \in Cids, c \in serving \/ call[c] # NoCall
  PROVE  phase[c] # "off"
  BY DEF IdInv, ClientIds, StreamInv, Client, Registered

\* Steps that move neither a report nor a reply.
LEMMA QuietStreams ==
  ASSUME HubInv, IdInv, StreamInv,
         UNCHANGED <<pumped, pump, batch, targets, nextClient, serving, replies, got, joined, queue, lost>>,
         \A c \in Cids : phase'[c] = "off" <=> phase[c] = "off"
  PROVE  StreamInv'
<1>1. TypeOK /\ Round
  BY DEF HubInv, StreamInv
<1>2. targets \subseteq Cids
  BY <1>1 DEF TypeOK, PumpTypes
<1>3. Round'
  BY <1>1, <1>2 DEF Round
<1>4. ASSUME NEW d \in Cids PROVE Client(d)'
  <2>1. Same(d)
    BY DEF Same
  <2>2. GivenUpTo(d)' = GivenUpTo(d) /\ GivenUpTo(d) \in Nat
    BY <1>1, GivenIs DEF GivenUpTo, Owes
  <2>3. GivenUpTo(d)' \in Nat /\ GivenUpTo(d) <= GivenUpTo(d)'
    BY <2>2
  <2>4. Client(d)
    BY DEF StreamInv
  <2> QED
    BY <1>1, <2>1, <2>2, <2>3, <2>4, SameStream
<1> QED
  BY <1>3, <1>4 DEF StreamInv

\* What of a step does not touch the streams: the device, a write, a call that
\* begins or times out, the stop.
LEMMA QuietSteps ==
  ASSUME HubInv, IdInv, StreamInv,
         \/ Emit \/ Close \/ UNCHANGED vars
         \/ \E c \in Cids : \/ WriteBegin(c) \/ TimeOut(c)
                            \/ \E op \in {"read", "write", "status", "bye"} : Rpc(c, op)
  PROVE  StreamInv'
<1>1. phase \in [Cids -> {"off", "greeting", "up", "closing", "gone"}]
  BY DEF HubInv, TypeOK, ClientTypes
<1>2. CASE Emit \/ Close \/ UNCHANGED vars
  <2>1. UNCHANGED <<pumped, pump, batch, targets, nextClient, serving, replies, got, joined, queue, lost, phase>>
    BY <1>2 DEF Emit, Close, vars, hubVars, clientVars, pumpVars
  <2> QED
    BY <2>1, QuietStreams
<1>3. ASSUME NEW c \in Cids, WriteBegin(c) PROVE StreamInv'
  <2>1. UNCHANGED <<pumped, pump, batch, targets, nextClient, serving, replies, got, joined, queue, lost, phase>>
    BY <1>3 DEF WriteBegin, clientVars, pumpVars
  <2> QED
    BY <2>1, QuietStreams
<1>4. ASSUME NEW c \in Cids, TimeOut(c) PROVE StreamInv'
  <2>1. UNCHANGED <<pumped, pump, batch, targets, nextClient, serving, replies, got, joined, queue, lost>>
    BY <1>4 DEF TimeOut, hubVars, pumpVars
  <2>2. phase[c] # "off"
    BY <1>4, Attached DEF TimeOut
  <2>3. \A d \in Cids : phase'[d] = "off" <=> phase[d] = "off"
    BY <1>1, <1>4, <2>2 DEF TimeOut, AfterCall
  <2> QED
    BY <2>1, <2>3, QuietStreams
<1>5. ASSUME NEW c \in Cids, NEW op \in {"read", "write", "status", "bye"}, Rpc(c, op) PROVE StreamInv'
  <2>1. UNCHANGED <<pumped, pump, batch, targets, nextClient, serving, replies, got, joined, queue, lost>>
    BY <1>5 DEF Rpc, pumpVars
  <2>2. \A d \in Cids : phase'[d] = "off" <=> phase[d] = "off"
    BY <1>1, <1>5 DEF Rpc
  <2> QED
    BY <2>1, <2>2, QuietStreams
<1> QED
  BY <1>2, <1>3, <1>4, <1>5


-----------------------------------------------------------------------------
(* The pump *)

\* A round begins where the last one ended.
LEMMA PumpReadStreams ==
  ASSUME HubInv, IdInv, StreamInv, PumpRead
  PROVE  StreamInv'
<1>1. TypeOK /\ Round
  BY DEF HubInv, StreamInv
<1>2. /\ pumped \in Nat /\ emitted \in Nat /\ pumped <= emitted /\ pump = "read"
      /\ pumped' = emitted /\ pump' = "snapshot" /\ batch' = Interval(pumped, emitted)
      /\ UNCHANGED <<targets, nextClient, serving, replies, got, joined, queue, lost, phase>>
  BY <1>1, HubAssumption DEF PumpRead, Fresh, TypeOK, PumpTypes, hubVars, clientVars
<1>3. Len(batch') = emitted - pumped
  BY <1>2, IntervalIs
<1>4. pumped' - Len(batch') = pumped /\ Len(batch') <= pumped'
  BY <1>2, <1>3
<1>5. batch' = Interval(pumped' - Len(batch'), pumped')
  BY <1>2, <1>4, Zenon
<1>6. Round'
  BY <1>1, <1>2, <1>4, <1>5 DEF Round
<1>7. ASSUME NEW d \in Cids PROVE Client(d)'
  <2>1. Same(d) /\ Client(d)
    BY <1>2 DEF Same, StreamInv
  <2>2. GivenUpTo(d) = pumped
    BY <1>2 DEF GivenUpTo, Owes
  <2>3. GivenUpTo(d)' = pumped
    BY <1>2, <1>4 DEF GivenUpTo, Owes
  <2>4. GivenUpTo(d)' \in Nat /\ GivenUpTo(d) <= GivenUpTo(d)' /\ GivenUpTo(d)' = GivenUpTo(d)
    BY <1>2, <2>2, <2>3
  <2> QED
    BY <1>1, <2>1, <2>4, SameStream
<1> QED
  BY <1>6, <1>7 DEF StreamInv

\* The round is for those the registry names now; whoever leaves stays a target,
\* whoever comes does not become one.
LEMMA PumpSnapshotStreams ==
  ASSUME HubInv, IdInv, StreamInv, PumpSnapshot
  PROVE  StreamInv'
<1>1. TypeOK /\ Round
  BY DEF HubInv, StreamInv
<1>2. /\ pumped \in Nat /\ pump = "snapshot" /\ targets' = serving
      /\ pump' = IF serving = {} THEN "read" ELSE "fan_out"
      /\ UNCHANGED <<pumped, batch, nextClient, serving, replies, got, joined, queue, lost, phase>>
  BY <1>1, HubAssumption DEF PumpSnapshot, TypeOK, PumpTypes, hubVars, clientVars
<1>3. Len(batch) \in Nat /\ Len(batch) <= pumped /\ serving \subseteq Cids
  BY <1>1, <1>2, LenProperties DEF Round, TypeOK, PumpTypes, HubTypes
<1>4. \A c \in serving : phase[c] # "off"
  BY <1>3, Attached
<1>5. Round'
  BY <1>1, <1>2, <1>4 DEF Round
<1>6. ASSUME NEW d \in Cids PROVE Client(d)'
  <2>1. Same(d) /\ Client(d)
    BY <1>2 DEF Same, StreamInv
  <2>2. GivenUpTo(d) = pumped - Len(batch)
    BY <1>2 DEF GivenUpTo, Owes
  <2>3. GivenUpTo(d)' = IF d \in serving THEN pumped - Len(batch) ELSE pumped
    BY <1>2 DEF GivenUpTo, Owes
  <2>4. GivenUpTo(d)' \in Nat /\ GivenUpTo(d) <= GivenUpTo(d)'
        /\ (d \in serving => GivenUpTo(d)' = GivenUpTo(d))
    BY <1>2, <1>3, <2>2, <2>3
  <2> QED
    BY <1>1, <2>1, <2>4, SameStream
<1> QED
  BY <1>5, <1>6 DEF StreamInv

\* The smallest of a set of numbers is in it.
LEMMA MinIn ==
  ASSUME NEW S, S \subseteq Nat, S # {}
  PROVE  Min(S) \in S
<1>1. \E n \in S : \A m \in S : n <= m
  BY LeastNumber
<1> QED
  BY <1>1 DEF Min

\* The round reaches one client, whose queue is trimmed.
LEMMA FanOutStreams ==
  ASSUME HubInv, IdInv, StreamInv, FanOut
  PROVE  StreamInv'
<1>1. TypeOK /\ Round /\ pump = "fan_out"
  BY DEF HubInv, StreamInv, FanOut
<1>2. PICK c, full, kept :
        /\ c = Min(targets)
        /\ full = IF c \in serving THEN queue[c] \o batch ELSE <<>>
        /\ kept = Trimmed(full)
  OBVIOUS
<1>3. /\ queue' = [queue EXCEPT ![c] = kept]
      /\ lost' = [lost EXCEPT ![c] = lost[c] \/ kept # full]
      /\ targets' = targets \ {c}
      /\ pump' = IF targets = {c} THEN "read" ELSE "fan_out"
      /\ UNCHANGED <<pumped, batch, nextClient, serving, replies, got, joined, phase>>
  BY <1>2 DEF FanOut, hubVars, clientVars
<1>4. c \in targets /\ targets \subseteq Cids /\ c \in Cids
  <2>1. targets \subseteq Nat /\ targets # {} /\ targets \subseteq Cids
    BY <1>1, HubAssumption DEF TypeOK, PumpTypes, Cids, Round
  <2> QED
    BY <1>2, <2>1, MinIn
<1>5. /\ pumped \in Nat /\ Len(batch) \in Nat /\ Len(batch) <= pumped
      /\ batch = Interval(pumped - Len(batch), pumped) /\ batch \in Seq(Nat)
  <2>1. batch \in Seq(Reports)
    BY <1>1 DEF TypeOK, PumpTypes
  <2>2. pumped \in Nat
    BY <1>1, HubAssumption DEF TypeOK, PumpTypes
  <2>3. pump # "read"
    BY <1>1
  <2>4. Len(batch) <= pumped /\ batch = Interval(pumped - Len(batch), pumped)
    BY <1>1, <2>3, Zenon DEF Round
  <2> QED
    BY <2>1, <2>2, <2>4, LenProperties, ReportsAreNumbers
<1>6. Round'
  <2>1. pump' = "fan_out" => targets' # {}
    BY <1>3, <1>4
  <2>2. \A d \in targets' : phase'[d] # "off"
    BY <1>1, <1>3 DEF Round
  <2>3. Len(batch') <= pumped' /\ batch' = Interval(pumped' - Len(batch'), pumped')
    BY <1>3, <1>5, Zenon
  <2> QED
    BY <2>1, <2>2, <2>3 DEF Round
<1>7. queue \in [Cids -> Seq(Reports)] /\ lost \in [Cids -> BOOLEAN]
  BY <1>1 DEF TypeOK, QueueTypes
<1>8. ASSUME NEW d \in Cids, d # c PROVE Client(d)'
  <2>1. Same(d) /\ Client(d)
    BY <1>3, <1>7, <1>8 DEF Same, StreamInv
  <2>2. GivenUpTo(d)' = GivenUpTo(d)
    BY <1>1, <1>3, <1>8 DEF GivenUpTo, Owes
  <2>3. GivenUpTo(d)' \in Nat /\ GivenUpTo(d) <= GivenUpTo(d)'
    BY <1>1, <2>2, GivenIs
  <2> QED
    BY <1>1, <2>1, <2>2, <2>3, SameStream
<1>9. Client(c)'
  <2> DEFINE m == pumped - Len(batch)
  <2>1. m \in Nat /\ m <= pumped
    BY <1>5
  <2>2. GivenUpTo(c) = m
    BY <1>1, <1>4 DEF GivenUpTo, Owes
  <2>3. GivenUpTo(c)' = pumped
    BY <1>3, <1>4 DEF GivenUpTo, Owes
  <2>4. queue'[c] = kept /\ (lost'[c] <=> lost[c] \/ kept # full)
    BY <1>3, <1>4, <1>7
  <2>5. Client(c)
    BY <1>4 DEF StreamInv
  <2>6. PICK k \in Nat : FedTo(c, k)
    BY <2>5 DEF Client, Fed
  <2> HIDE DEF m
  <2>7. PICK x, j, w : x = got[c] \o Carried(replies[c]) /\ j = joined[c] /\ (w <=> ~lost[c])
    OBVIOUS
  <2>8. /\ x \in Seq(Nat) /\ queue[c] \in Seq(Nat) /\ j \in Nat
        /\ Stream(c) = x \o queue[c] /\ Stream(c)' = x \o kept
    <3>1. x \in Seq(Nat)
      BY <1>1, <1>4, <2>7, PartsTyped, ConcatProperties
    <3>2. Stream(c) = x \o queue[c]
      BY <2>7, StreamParts, Zenon
    <3>3. Stream(c)' = x \o kept
      BY <1>3, <2>4, <2>7, StreamParts, Zenon
    <3> QED
      BY <1>1, <1>4, <2>7, <3>1, <3>2, <3>3, PartsTyped
  <2>9. /\ j <= k /\ k <= m /\ (c \in serving => k = m)
        /\ Follows(x \o queue[c], j, k, w)
    <3>1. Follows(x \o queue[c], j, k, ~lost[c])
      BY <2>6, <2>7, <2>8, Zenon DEF FedTo
    <3>2. Follows(x \o queue[c], j, k, w)
      BY <2>7, <3>1, Zenon DEF Follows
    <3> QED
      BY <2>2, <2>6, <2>7, <3>2 DEF FedTo
  <2>10. CASE c \in serving
    <3>1. k = m /\ full = queue[c] \o batch /\ batch = Interval(m, pumped)
      BY <1>2, <1>5, <2>9, <2>10, Zenon DEF m
    <3>2. full \in Seq(Nat) /\ x \o queue[c] \in Seq(Nat)
      BY <1>5, <2>8, <3>1, ConcatProperties
    <3>3. Follows(x \o full, j, pumped, w)
      <4>1. PICK s, t : s = x \o queue[c] /\ Is(t, s, batch)
        BY Zenon DEF Is
      <4>2. Follows(s, j, m, w)
        BY <2>9, <3>1, <4>1, Zenon
      <4>3. Follows(t, j, pumped, w)
        BY <1>5, <2>1, <2>8, <2>9, <3>1, <4>1, <4>2, FollowsOn
      <4>4. t = x \o full
        <5>1. Regroups(x, queue[c], batch)
          BY <1>5, <2>8, Associative
        <5> QED
          BY <3>1, <4>1, <5>1, Zenon DEF Is, Regroups
      <4> QED
        BY <4>3, <4>4, Zenon
    <3>4. Follows(x \o kept, j, pumped, w /\ kept = full)
      BY <1>2, <1>5, <2>8, <3>2, <3>3, TrimmedOff, Zenon
    <3>5. w /\ kept = full <=> ~lost'[c]
      BY <2>4, <2>7, Zenon
    <3>6. PICK v : v <=> w /\ kept = full
      OBVIOUS
    <3>7. Follows(x \o kept, j, pumped, v) /\ (v <=> ~lost'[c])
      BY <3>4, <3>5, <3>6, Zenon DEF Follows
    <3>8. Fed(c)'
      <4>1. j = joined'[c] /\ x \o kept = Stream(c)'
        BY <1>3, <2>7, <2>8, Zenon
      <4>2. j <= pumped /\ pumped <= GivenUpTo(c)' /\ pumped = GivenUpTo(c)'
        BY <1>5, <2>1, <2>3, <2>8, <2>9, <3>1
      <4> QED
        BY <1>5, <3>7, <4>1, <4>2, FedAfter
    <3>9. Queued(c)'
      <4>1. PICK a \in Nat : a <= m /\ queue[c] = Interval(a, m)
        BY <2>2, <2>5, <2>10, Zenon DEF Client, Queued
      <4>2. full = Interval(a, pumped)
        <5>1. full = Interval(a, m) \o Interval(m, pumped)
          BY <3>1, <4>1, Zenon
        <5> QED
          BY <1>5, <2>1, <4>1, <5>1, IntervalsJoin, Zenon
      <4>3. a <= pumped
        BY <1>5, <2>1, <4>1
      <4>4. PICK b \in Nat : a <= b /\ b <= pumped /\ kept = Interval(b, pumped)
        BY <1>2, <1>5, <4>1, <4>2, <4>3, TrimmedRun
      <4>5. queue'[c] = Interval(b, GivenUpTo(c)') /\ b <= GivenUpTo(c)'
        BY <2>3, <2>4, <4>4, Zenon
      <4>6. c \in serving'
        BY <1>3, <2>10, Zenon
      <4> QED
        BY <4>4, <4>5, <4>6, Zenon DEF Queued
    <3>10. Registered(c)' /\ Runs(c)'
      <4>1. phase[c] # "off" /\ phase'[c] = phase[c] /\ nextClient' = nextClient
        BY <1>1, <1>3, <1>4 DEF Round
      <4> QED
        BY <1>3, <2>5, <4>1, Zenon DEF Client, Registered, Runs
    <3> QED
      BY <3>8, <3>9, <3>10 DEF Client
  <2>11. CASE c \notin serving
    <3>1. full = <<>> /\ kept = <<>> /\ queue[c] = <<>>
      <4>1. full = <<>>
        BY <1>2, <2>11
      <4>2. Len(<<>>) = 0 /\ ~(0 > QueueCap)
        BY HubAssumption
      <4>3. kept = <<>>
        BY <1>2, <4>1, <4>2 DEF Trimmed
      <4> QED
        BY <2>5, <2>11, <4>1, <4>3 DEF Client, Queued
    <3>2. queue'[c] = queue[c] /\ lost'[c] = lost[c]
      <4>1. lost'[c] = (lost[c] \/ kept # full) /\ lost[c] \in BOOLEAN
        BY <1>3, <1>4, <1>7, Zenon
      <4>2. queue'[c] = queue[c] /\ kept = full
        BY <2>4, <3>1, Zenon
      <4>3. (lost[c] \/ kept # full) = lost[c]
        BY <4>1, <4>2
      <4> QED
        BY <4>1, <4>2, <4>3, Zenon
    <3>3. Same(c)
      BY <1>3, <3>2 DEF Same
    <3>4. GivenUpTo(c)' \in Nat /\ GivenUpTo(c) <= GivenUpTo(c)'
          /\ (c \in serving => GivenUpTo(c)' = GivenUpTo(c))
      BY <1>5, <2>1, <2>2, <2>3, <2>11
    <3> QED
      BY <1>1, <1>4, <2>5, <3>3, <3>4, SameStream
  <2> QED
    BY <2>10, <2>11
<1> QED
  BY <1>6, <1>8, <1>9 DEF StreamInv


-----------------------------------------------------------------------------
(* The handlers *)

\* No reports are a run of reports.
LEMMA EmptyRun == Run(<<>>)
  BY EmptyInterval DEF Run

\* An answer puts one reply behind the others, and touches no other client's.
LEMMA AnswerAppends ==
  ASSUME TypeOK, NEW c \in Cids, calls[c] # <<>>, NEW reports \in Seq(Reports), NEW base \in Nat,
         Answer(c, reports, base)
  PROVE  /\ \E r \in Reply : r.reports = reports /\ replies'[c] = Append(replies[c], r)
         /\ \A d \in Cids \ {c} : replies'[d] = replies[d]
<1>1. calls[c] \in Seq(Call) /\ replies \in [Cids -> Seq(Reply)]
  BY DEF TypeOK, HubTypes
<1>2. Oldest(c) \in Call
  BY <1>1 DEF Oldest
<1>3. PICK r : r = [id |-> Oldest(c).id, op |-> Oldest(c).op, reports |-> reports, base |-> base]
  OBVIOUS
<1>4. r \in Reply /\ r.reports = reports
  BY <1>2, <1>3 DEF Reply, Call
<1>5. replies' = [replies EXCEPT ![c] = Append(replies[c], r)]
  BY <1>3, Zenon DEF Answer
<1>6. replies'[c] = Append(replies[c], r) /\ \A d \in Cids \ {c} : replies'[d] = replies[d]
  BY <1>1, <1>5, Zenon
<1> QED
  BY <1>4, <1>6

\* Then the client has those reports coming.
LEMMA ReplyCarries ==
  ASSUME TypeOK, NEW c \in Cids, Runs(c), NEW r \in Reply, replies'[c] = Append(replies[c], r),
         NEW reports, r.reports = reports, Run(reports)
  PROVE  Carried(replies'[c]) = Carried(replies[c]) \o reports /\ Runs(c)'
<1>1. PICK rs, rr : rs = replies[c] /\ rr = Append(rs, r)
  OBVIOUS
<1>2. rs \in Seq(Reply)
  BY <1>1, PartsTyped
<1>3. Carried(rr) = Carried(rs) \o r.reports
  BY <1>1, <1>2, CarriedAppend, Zenon
<1>4. /\ Len(rs) \in Nat /\ Len(rr) = Len(rs) + 1 /\ rr[Len(rs) + 1] = r
      /\ \A i \in 1 .. Len(rs) : rr[i] = rs[i]
  BY <1>1, <1>2, AppendProperties, LenProperties
<1>5. \A i \in 1 .. Len(rs) : Run(rs[i].reports)
  BY <1>1, Zenon DEF Runs
<1>6. ASSUME NEW i \in 1 .. Len(rr) PROVE Run(rr[i].reports)
  <2>1. i \in 1 .. Len(rs) \/ i = Len(rs) + 1
    BY <1>4
  <2>2. CASE i \in 1 .. Len(rs)
    BY <1>4, <1>5, <2>2, Zenon
  <2>3. CASE i = Len(rs) + 1
    BY <1>4, <2>3, Zenon
  <2> QED
    BY <2>1, <2>2, <2>3
<1> QED
  BY <1>1, <1>3, <1>6, Zenon DEF Runs

\* A handler that gives no reports, whoever else is there.
LEMMA AnswersNothing ==
  ASSUME HubInv, IdInv, StreamInv, NEW c \in Cids, calls[c] # <<>>, NEW base \in Nat,
         Answer(c, <<>>, base),
         UNCHANGED <<pumpVars, nextClient, serving, clientVars, queue, lost>>
  PROVE  StreamInv'
<1>1. TypeOK /\ Round /\ Client(c)
  BY DEF HubInv, StreamInv
<1>2. UNCHANGED <<pumped, pump, batch, targets, nextClient, serving, got, joined, queue, lost, phase>>
  BY DEF pumpVars, clientVars
<1>3. Round'
  BY <1>1, <1>2, RoundStays
<1>4. <<>> \in Seq(Reports)
  OBVIOUS
<1>5. PICK r \in Reply : r.reports = <<>> /\ replies'[c] = Append(replies[c], r)
  BY <1>1, <1>4, AnswerAppends
<1>6. \A d \in Cids \ {c} : replies'[d] = replies[d]
  BY <1>1, <1>4, AnswerAppends
<1>7. ASSUME NEW d \in Cids, d # c PROVE Client(d)'
  <2>1. Same(d) /\ Client(d)
    BY <1>2, <1>6, <1>7 DEF Same, StreamInv
  <2> QED
    BY <1>1, <2>1, SameClient
<1>8. Client(c)'
  <2>1. Runs(c) /\ Run(<<>>)
    BY <1>1, EmptyRun DEF Client
  <2>2. Carried(replies'[c]) = Carried(replies[c]) \o <<>> /\ Runs(c)'
    BY <1>1, <1>5, <2>1, ReplyCarries, Zenon
  <2>3. Carried(replies'[c]) = Carried(replies[c])
    BY <1>1, <2>2, PartsTyped, ConcatEmptySeq, Zenon
  <2>4. Stream(c)' = Stream(c)
    BY <1>2, <2>3, StreamParts, Zenon
  <2>5. GivenUpTo(c)' = GivenUpTo(c)
    BY GivenStays
  <2>6. Fed(c)'
    BY <1>1, <1>2, <2>4, <2>5, Zenon DEF Client, Fed, FedTo
  <2>7. Queued(c)' /\ Registered(c)'
    BY <1>1, <1>2, <2>5, Zenon DEF Client, Queued, Registered
  <2> QED
    BY <2>2, <2>6, <2>7 DEF Client
<1> QED
  BY <1>3, <1>7, <1>8 DEF StreamInv

\* A read moves the queue into its reply: nothing is in between.
LEMMA HandleReadStreams ==
  ASSUME HubInv, IdInv, StreamInv, NEW c \in Cids, HandleRead(c)
  PROVE  StreamInv'
<1>1. TypeOK /\ Round /\ Client(c)
  BY DEF HubInv, StreamInv
<1>2. /\ UNCHANGED <<pumped, pump, batch, targets, nextClient, serving, got, joined, lost, phase>>
      /\ queue' = [queue EXCEPT ![c] = <<>>] /\ c \in serving /\ calls[c] # <<>>
      /\ Answer(c, queue[c], 0) /\ UNCHANGED pumpVars
  BY DEF HandleRead, Ready, pumpVars, clientVars
<1>3. Round'
  BY <1>1, <1>2, RoundStays
<1>4. queue \in [Cids -> Seq(Reports)] /\ queue[c] \in Seq(Reports) /\ 0 \in Nat
  BY <1>1 DEF TypeOK, QueueTypes
<1>5. PICK q : q = queue[c]
  OBVIOUS
<1>6. PICK r \in Reply : r.reports = q /\ replies'[c] = Append(replies[c], r)
  BY <1>1, <1>2, <1>4, <1>5, AnswerAppends
<1>7. \A d \in Cids \ {c} : replies'[d] = replies[d]
  BY <1>1, <1>2, <1>4, AnswerAppends
<1>8. queue'[c] = <<>> /\ \A d \in Cids \ {c} : queue'[d] = queue[d]
  BY <1>2, <1>4
<1>9. ASSUME NEW d \in Cids, d # c PROVE Client(d)'
  <2>1. Same(d) /\ Client(d)
    BY <1>2, <1>7, <1>8, <1>9 DEF Same, StreamInv
  <2> QED
    BY <1>1, <1>2, <2>1, SameClient
<1>10. Client(c)'
  <2>1. GivenUpTo(c)' = GivenUpTo(c) /\ GivenUpTo(c) \in Nat
    BY <1>1, <1>2, GivenStays, GivenIs
  <2>2. PICK a \in Nat : a <= GivenUpTo(c) /\ q = Interval(a, GivenUpTo(c))
    BY <1>1, <1>2, <1>5, Zenon DEF Client, Queued
  <2>3. Runs(c) /\ Run(q)
    BY <1>1, <2>1, <2>2, Zenon DEF Client, Run
  <2>4. Carried(replies'[c]) = Carried(replies[c]) \o q /\ Runs(c)'
    BY <1>1, <1>6, <2>3, ReplyCarries, Zenon
  <2>5. Stream(c)' = Stream(c)
    <3>1. (got[c] \o (Carried(replies[c]) \o q)) \o <<>> = (got[c] \o Carried(replies[c])) \o q
      BY <1>1, <1>5, PartsTyped, Drained, Zenon
    <3>2. Stream(c)' = (got[c] \o (Carried(replies[c]) \o q)) \o <<>>
      <4>1. Stream(c)' = (got'[c] \o Carried(replies'[c])) \o queue'[c]
        BY StreamParts
      <4>2. got'[c] = got[c]
        BY <1>2
      <4> QED
        BY <1>8, <2>4, <4>1, <4>2, Zenon
    <3>3. Stream(c) = (got[c] \o Carried(replies[c])) \o q
      BY <1>5, StreamParts, Zenon
    <3> QED
      BY <3>1, <3>2, <3>3, Zenon
  <2>6. Fed(c)'
    BY <1>1, <1>2, <2>1, <2>5, Zenon DEF Client, Fed, FedTo
  <2>7. Queued(c)'
    <3>1. queue'[c] = Interval(GivenUpTo(c), GivenUpTo(c)) /\ GivenUpTo(c) <= GivenUpTo(c)
      BY <1>8, <2>1, EmptyInterval
    <3> QED
      BY <1>2, <2>1, <3>1, Zenon DEF Queued
  <2>8. Registered(c)'
    BY <1>1, <1>2, Zenon DEF Client, Registered
  <2> QED
    BY <2>4, <2>6, <2>7, <2>8 DEF Client
<1> QED
  BY <1>3, <1>9, <1>10 DEF StreamInv

\* A client whose thread ends loses its queue; what is on the socket stays.
LEMMA ThreadEnds ==
  ASSUME HubInv, IdInv, StreamInv, NEW c \in Cids,
         UNCHANGED pumpVars, UNCHANGED <<nextClient, got, joined, lost, phase>>,
         serving' = serving \ {c}, queue' = [queue EXCEPT ![c] = <<>>],
         Carried(replies'[c]) = Carried(replies[c]), Runs(c)',
         \A d \in Cids \ {c} : replies'[d] = replies[d]
  PROVE  StreamInv'
<1>1. TypeOK /\ Round /\ Client(c)
  BY DEF HubInv, StreamInv
<1>2. Round'
  BY <1>1, RoundStays
<1>3. queue'[c] = <<>> /\ \A d \in Cids \ {c} : queue'[d] = queue[d]
  BY <1>1 DEF TypeOK, QueueTypes
<1>4. ASSUME NEW d \in Cids, d # c PROVE Client(d)'
  <2>1. Same(d) /\ Client(d)
    BY <1>3, <1>4 DEF Same, StreamInv
  <2> QED
    BY <1>1, <2>1, SameClient
<1>5. c \notin serving'
  OBVIOUS
<1>6. Fed(c)'
  <2>1. PICK k \in Nat : FedTo(c, k)
    BY <1>1 DEF Client, Fed
  <2>2. PICK x, j, w, s : /\ x = got[c] \o Carried(replies[c]) /\ j = joined[c] /\ (w <=> ~lost[c])
                          /\ s = x \o queue[c]
    OBVIOUS
  <2>3. x \in Seq(Nat) /\ queue[c] \in Seq(Nat) /\ j \in Nat /\ Is(s, x, queue[c])
    <3>1. x \in Seq(Nat)
      BY <1>1, <2>2, PartsTyped, ConcatProperties
    <3>2. Is(s, x, queue[c])
      BY <2>2, Zenon DEF Is
    <3> QED
      BY <1>1, <2>2, <3>1, <3>2, PartsTyped
  <2>4. s = Stream(c)
    BY <2>2, StreamParts, Zenon
  <2>5. Follows(s, j, k, w) /\ j <= k
    BY <2>1, <2>2, <2>4, Zenon DEF FedTo, Follows
  <2>6. PICK l \in Nat : j <= l /\ l <= k /\ Follows(x, j, l, w)
    BY <2>1, <2>3, <2>5, FollowsUpTo
  <2>7. x = Stream(c)'
    <3>1. x \o <<>> = x
      BY <2>3, ConcatEmptySeq, Zenon
    <3> QED
      BY <1>3, <2>2, <3>1, StreamParts, Zenon
  <2>8. j = joined'[c] /\ (w <=> ~lost'[c])
    BY <2>2, Zenon
  <2>9. l <= GivenUpTo(c)'
    <3>1. GivenUpTo(c)' = GivenUpTo(c) /\ GivenUpTo(c) \in Nat /\ k <= GivenUpTo(c)
      BY <1>1, <2>1, GivenStays, GivenIs DEF FedTo
    <3> QED
      BY <2>1, <2>6, <3>1
  <2> QED
    BY <1>5, <2>6, <2>7, <2>8, <2>9, FedAfter
<1>7. Queued(c)' /\ Registered(c)'
  BY <1>1, <1>3, <1>5, Zenon DEF Client, Queued, Registered
<1>8. Client(c)'
  BY <1>6, <1>7 DEF Client
<1> QED
  BY <1>2, <1>4, <1>8 DEF StreamInv

\* bye answers, and ends the thread.
LEMMA HandleByeStreams ==
  ASSUME HubInv, IdInv, StreamInv, NEW c \in Cids, HandleBye(c)
  PROVE  StreamInv'
<1>1. TypeOK /\ Client(c)
  BY DEF HubInv, StreamInv
<1>2. /\ calls[c] # <<>> /\ Answer(c, <<>>, 0) /\ <<>> \in Seq(Reports) /\ 0 \in Nat
      /\ serving' = serving \ {c} /\ queue' = [queue EXCEPT ![c] = <<>>]
      /\ UNCHANGED pumpVars /\ UNCHANGED <<nextClient, got, joined, lost, phase>>
  BY DEF HandleBye, Ready, Unregister, clientVars
<1>3. PICK r \in Reply : r.reports = <<>> /\ replies'[c] = Append(replies[c], r)
  BY <1>1, <1>2, AnswerAppends
<1>4. \A d \in Cids \ {c} : replies'[d] = replies[d]
  BY <1>1, <1>2, AnswerAppends
<1>5. Runs(c) /\ Run(<<>>)
  BY <1>1, EmptyRun DEF Client
<1>6. Carried(replies'[c]) = Carried(replies[c]) \o <<>> /\ Runs(c)'
  BY <1>1, <1>3, <1>5, ReplyCarries, Zenon
<1>7. Carried(replies'[c]) = Carried(replies[c])
  BY <1>1, <1>6, PartsTyped, ConcatEmptySeq, Zenon
<1> QED
  BY <1>2, <1>4, <1>6, <1>7, ThreadEnds

\* The thread ends by itself.
LEMMA DropStreams ==
  ASSUME HubInv, IdInv, StreamInv, NEW c \in Cids, Drop(c)
  PROVE  StreamInv'
<1>1. /\ serving' = serving \ {c} /\ queue' = [queue EXCEPT ![c] = <<>>] /\ replies' = replies
      /\ UNCHANGED pumpVars /\ UNCHANGED <<nextClient, got, joined, lost, phase>>
  BY DEF Drop, Unregister, clientVars
<1>2. Carried(replies'[c]) = Carried(replies[c])
  BY <1>1, Zenon
<1>3. Runs(c)'
  BY <1>1, Zenon DEF StreamInv, Client, Runs
<1>4. \A d \in Cids \ {c} : replies'[d] = replies[d]
  BY <1>1, Zenon
<1> QED
  BY <1>1, <1>2, <1>3, <1>4, ThreadEnds

\* Everything a client thread does.
LEMMA HandleStreams ==
  ASSUME HubInv, IdInv, StreamInv, NEW c \in Cids, Handle(c)
  PROVE  StreamInv'
<1>1. 0 \in Nat /\ Slice(c) \in Nat
  BY HubAssumption DEF Slice, Cids
<1>2. CASE HandleHello(c)
  BY <1>1, <1>2, AnswersNothing DEF HandleHello, Ready
<1>3. CASE HandleStatus(c)
  BY <1>1, <1>3, AnswersNothing DEF HandleStatus, Ready
<1>4. CASE HandleRead(c)
  BY <1>4, HandleReadStreams
<1>5. CASE WriteBegin(c)
  BY <1>5, QuietSteps
<1>6. CASE WriteEnd(c)
  <2>1. calls[c] # <<>>
    BY <1>6, HubAssumption DEF WriteEnd, HubInv, Nobody, Cids
  <2> QED
    BY <1>1, <1>6, <2>1, AnswersNothing DEF WriteEnd
<1>7. CASE HandleBye(c)
  BY <1>7, HandleByeStreams
<1> QED
  BY <1>2, <1>3, <1>4, <1>5, <1>6, <1>7 DEF Handle


-----------------------------------------------------------------------------
(* The clients *)

\* What is left of the replies when one is taken off.
LEMMA RunsTail ==
  ASSUME TypeOK, NEW c \in Cids, Runs(c), replies[c] # <<>>, replies'[c] = Tail(replies[c])
  PROVE  Run(Head(replies[c]).reports) /\ Runs(c)'
<1>1. PICK rs, tt : rs = replies[c] /\ tt = Tail(rs)
  OBVIOUS
<1>2. rs \in Seq(Reply) /\ rs # <<>>
  BY <1>1, PartsTyped
<1>3. /\ Len(rs) \in Nat /\ Len(rs) # 0 /\ Head(rs) = rs[1] /\ Len(tt) = Len(rs) - 1
      /\ \A i \in 1 .. Len(tt) : tt[i] = rs[i + 1]
  BY <1>1, <1>2, HeadTailProperties, LenProperties, EmptySeq
<1>4. \A i \in 1 .. Len(rs) : Run(rs[i].reports)
  BY <1>1, Zenon DEF Runs
<1>5. 1 \in 1 .. Len(rs) /\ \A i \in 1 .. Len(tt) : i + 1 \in 1 .. Len(rs)
  BY <1>3
<1>6. Run(Head(rs).reports)
  BY <1>3, <1>4, <1>5, Zenon
<1>7. ASSUME NEW i \in 1 .. Len(tt) PROVE Run(tt[i].reports)
  BY <1>3, <1>4, <1>5, Zenon
<1> QED
  BY <1>1, <1>6, <1>7, Zenon DEF Runs

\* The answer moves the first reports of the socket into what the client has.
LEMMA TakeReplyStreams ==
  ASSUME HubInv, IdInv, StreamInv, NEW c \in Cids, TakeReply(c)
  PROVE  StreamInv'
<1>1. TypeOK /\ Round /\ Client(c)
  BY DEF HubInv, StreamInv
<1>2. PICK h : h = Head(replies[c]).reports
  OBVIOUS
<1>3. /\ UNCHANGED <<pumped, pump, batch, targets, nextClient, serving, joined, queue, lost>>
      /\ got' = [got EXCEPT ![c] = got[c] \o h] /\ replies' = [replies EXCEPT ![c] = Tail(replies[c])]
      /\ replies[c] # <<>> /\ call[c] # NoCall /\ UNCHANGED pumpVars
  BY <1>2 DEF TakeReply, pumpVars
<1>4. phase[c] # "off" /\ \A d \in Cids : phase'[d] = "off" <=> phase[d] = "off"
  <2>1. phase[c] # "off"
    BY <1>3, Attached
  <2>2. phase \in [Cids -> {"off", "greeting", "up", "closing", "gone"}]
    BY <1>1 DEF TypeOK, ClientTypes
  <2> QED
    BY <2>1, <2>2 DEF TakeReply, AfterCall
<1>5. Round'
  BY <1>1, <1>3, <1>4, RoundStays
<1>6. /\ got'[c] = got[c] \o h /\ replies'[c] = Tail(replies[c])
      /\ \A d \in Cids \ {c} : got'[d] = got[d] /\ replies'[d] = replies[d]
  <2>1. got \in [Cids -> Seq(Reports)] /\ replies \in [Cids -> Seq(Reply)]
    BY <1>1 DEF TypeOK, ClientTypes, HubTypes
  <2> QED
    BY <1>3, <2>1, Zenon
<1>7. ASSUME NEW d \in Cids, d # c PROVE Client(d)'
  <2>1. Same(d) /\ Client(d)
    BY <1>3, <1>4, <1>6, <1>7 DEF Same, StreamInv
  <2> QED
    BY <1>1, <1>3, <2>1, SameClient
<1>8. Client(c)'
  <2>1. Runs(c)'
    BY <1>1, <1>3, <1>6, RunsTail DEF Client
  <2>2. Stream(c)' = Stream(c)
    <3>1. /\ h \in Seq(Nat) /\ Carried(Tail(replies[c])) \in Seq(Nat)
          /\ Carried(replies[c]) = h \o Carried(Tail(replies[c]))
      BY <1>1, <1>2, <1>3, PartsTyped, CarriedTail, Zenon
    <3>2. PICK t : t = Carried(Tail(replies[c]))
      OBVIOUS
    <3>3. Regroups(got[c], h, t)
      BY <1>1, <3>1, <3>2, PartsTyped, Associative
    <3>4. Stream(c)' = ((got[c] \o h) \o t) \o queue[c]
      <4>1. Stream(c)' = (got'[c] \o Carried(replies'[c])) \o queue'[c]
        BY StreamParts
      <4>2. queue'[c] = queue[c] /\ Carried(replies'[c]) = t
        BY <1>3, <1>6, <3>2, Zenon
      <4> QED
        BY <1>6, <4>1, <4>2, Zenon
    <3>5. Stream(c) = (got[c] \o (h \o t)) \o queue[c]
      BY <3>1, <3>2, StreamParts, Zenon
    <3> QED
      BY <3>3, <3>4, <3>5, Zenon DEF Regroups
  <2>3. GivenUpTo(c)' = GivenUpTo(c)
    BY <1>3, GivenStays
  <2>4. Fed(c)'
    BY <1>1, <1>3, <2>2, <2>3, Zenon DEF Client, Fed, FedTo
  <2>5. Queued(c)'
    BY <1>1, <1>3, <2>3, Zenon DEF Client, Queued
  <2>6. Registered(c)'
    BY <1>1, <1>3, <1>4, Zenon DEF Client, Registered
  <2> QED
    BY <2>1, <2>4, <2>5, <2>6 DEF Client
<1> QED
  BY <1>5, <1>7, <1>8 DEF StreamInv

\* Reports y on the socket are discarded: the others still follow, with a gap.
LEMMA SocketLoses ==
  ASSUME HubInv, IdInv, StreamInv, NEW c \in Cids,
         NEW y \in Seq(Nat), NEW t \in Seq(Nat), Carried(replies[c]) = y \o t, Carried(replies'[c]) = t,
         Runs(c)', \A d \in Cids \ {c} : replies'[d] = replies[d],
         lost' = [lost EXCEPT ![c] = lost[c] \/ y # <<>>],
         UNCHANGED pumpVars, UNCHANGED <<nextClient, serving, got, joined, queue>>,
         phase[c] # "off", \A d \in Cids : phase'[d] = "off" <=> phase[d] = "off"
  PROVE  StreamInv'
<1>1. TypeOK /\ Round /\ Client(c)
  BY DEF HubInv, StreamInv
<1>2. Round'
  BY <1>1, RoundStays
<1>3. (lost'[c] <=> lost[c] \/ y # <<>>) /\ \A d \in Cids \ {c} : lost'[d] = lost[d]
  <2>1. lost \in [Cids -> BOOLEAN]
    BY <1>1 DEF TypeOK, QueueTypes
  <2> QED
    BY <2>1, Zenon
<1>4. ASSUME NEW d \in Cids, d # c PROVE Client(d)'
  <2>1. Same(d) /\ Client(d)
    BY <1>3, <1>4 DEF Same, StreamInv
  <2> QED
    BY <1>1, <2>1, SameClient
<1>5. PICK k \in Nat : FedTo(c, k)
  BY <1>1 DEF Client, Fed
<1>6. PICK g, q, j, w : g = got[c] /\ q = queue[c] /\ j = joined[c] /\ (w <=> ~lost[c])
  OBVIOUS
<1>7. g \in Seq(Nat) /\ q \in Seq(Nat) /\ j \in Nat /\ t \o q \in Seq(Nat)
  BY <1>1, <1>6, PartsTyped, ConcatProperties
<1>8. Follows((g \o y) \o (t \o q), j, k, w) /\ j <= k
  <2>1. Stream(c) = (g \o (y \o t)) \o q
    BY <1>6, StreamParts, Zenon
  <2>2. PICK x : x = g \o y
    OBVIOUS
  <2>3. Regroups(g, y, t) /\ Regroups(x, t, q)
    <3>1. x \in Seq(Nat)
      BY <1>7, <2>2, ConcatProperties
    <3> QED
      BY <1>7, <3>1, Associative
  <2>4. Stream(c) = (g \o y) \o (t \o q)
    BY <2>1, <2>2, <2>3, Zenon DEF Regroups
  <2> QED
    BY <1>5, <1>6, <2>4, Zenon DEF FedTo, Follows
<1>9. Follows(g \o (t \o q), j, k, w /\ y = <<>>)
  BY <1>5, <1>7, <1>8, MiddleLost, Zenon
<1>10. PICK s, v : s = g \o (t \o q) /\ (v <=> w /\ y = <<>>)
  OBVIOUS
<1>11. Follows(s, j, k, v) /\ j = joined'[c] /\ (v <=> ~lost'[c])
  BY <1>3, <1>6, <1>9, <1>10, Zenon DEF Follows
<1>12. s = Stream(c)'
  <2>1. Regroups(g, t, q)
    BY <1>7, Associative
  <2>2. Stream(c)' = (g \o t) \o q
    <3>1. Stream(c)' = (got'[c] \o Carried(replies'[c])) \o queue'[c]
      BY StreamParts
    <3>2. got'[c] = g /\ queue'[c] = q
      BY <1>6, Zenon
    <3> QED
      BY <3>1, <3>2, Zenon
  <2> QED
    BY <1>10, <2>1, <2>2, Zenon DEF Regroups
<1>13. k <= GivenUpTo(c)' /\ (c \in serving' => k = GivenUpTo(c)')
  BY <1>5, GivenStays, Zenon DEF FedTo
<1>14. Fed(c)'
  BY <1>5, <1>8, <1>11, <1>12, <1>13, FedAfter
<1>15. Queued(c)'
  BY <1>1, GivenStays, Zenon DEF Client, Queued
<1>16. Registered(c)'
  BY <1>1, Zenon DEF Client, Registered
<1>17. Client(c)'
  BY <1>14, <1>15, <1>16 DEF Client
<1> QED
  BY <1>2, <1>4, <1>17 DEF StreamInv

\* A late reply to a call that timed out goes with its reports.
LEMMA SkipLateReplyStreams ==
  ASSUME HubInv, IdInv, StreamInv, NEW c \in Cids, SkipLateReply(c)
  PROVE  StreamInv'
<1>1. TypeOK /\ Runs(c)
  BY DEF HubInv, StreamInv, Client
<1>2. PICK y, t : y = Head(replies[c]).reports /\ t = Carried(Tail(replies[c]))
  OBVIOUS
<1>3. /\ lost' = [lost EXCEPT ![c] = lost[c] \/ y # <<>>]
      /\ replies' = [replies EXCEPT ![c] = Tail(replies[c])]
      /\ replies[c] # <<>> /\ call[c] # NoCall /\ UNCHANGED pumpVars
      /\ UNCHANGED <<nextClient, serving, got, joined, queue, phase>>
  BY <1>2 DEF SkipLateReply, clientVars
<1>4. replies'[c] = Tail(replies[c]) /\ \A d \in Cids \ {c} : replies'[d] = replies[d]
  <2>1. replies \in [Cids -> Seq(Reply)]
    BY <1>1 DEF TypeOK, HubTypes
  <2> QED
    BY <1>3, <2>1, Zenon
<1>5. y \in Seq(Nat) /\ t \in Seq(Nat) /\ Carried(replies[c]) = y \o t /\ Carried(replies'[c]) = t
  BY <1>1, <1>2, <1>3, <1>4, PartsTyped, CarriedTail, Zenon
<1>6. Runs(c)'
  BY <1>1, <1>3, <1>4, RunsTail
<1>7. phase[c] # "off" /\ \A d \in Cids : phase'[d] = "off" <=> phase[d] = "off"
  BY <1>3, Attached
<1> QED
  BY <1>3, <1>4, <1>5, <1>6, <1>7, SocketLoses

\* A client that dies takes what is on its socket with it.
LEMMA CrashStreams ==
  ASSUME HubInv, IdInv, StreamInv, NEW c \in Cids, Crash(c)
  PROVE  StreamInv'
<1>1. TypeOK /\ Runs(c)
  BY DEF HubInv, StreamInv, Client
<1>2. PICK y : y = Carried(replies[c])
  OBVIOUS
<1>3. y = InFlight(c)
  BY <1>2, Zenon DEF InFlight, Carried, Loads
<1>4. /\ lost' = [lost EXCEPT ![c] = lost[c] \/ y # <<>>]
      /\ replies' = [replies EXCEPT ![c] = <<>>]
      /\ phase' = [phase EXCEPT ![c] = "gone"] /\ phase[c] # "off" /\ UNCHANGED pumpVars
      /\ UNCHANGED <<nextClient, serving, got, joined, queue>>
  BY <1>3 DEF Crash
<1>5. replies'[c] = <<>> /\ \A d \in Cids \ {c} : replies'[d] = replies[d]
  <2>1. replies \in [Cids -> Seq(Reply)]
    BY <1>1 DEF TypeOK, HubTypes
  <2> QED
    BY <1>4, <2>1, Zenon
<1>6. /\ y \in Seq(Nat) /\ <<>> \in Seq(Nat)
      /\ Carried(replies[c]) = y \o <<>> /\ Carried(replies'[c]) = <<>>
  <2>1. y \in Seq(Nat)
    BY <1>1, <1>2, PartsTyped
  <2>2. y \o <<>> = y
    BY <2>1, ConcatEmptySeq, Zenon
  <2>3. <<>> \in Seq(Nat)
    OBVIOUS
  <2> QED
    BY <1>2, <1>5, <2>1, <2>2, <2>3, CarriedEmpty, Zenon
<1>7. Runs(c)'
  <2>1. Len(<<>>) = 0
    OBVIOUS
  <2>2. Len(replies'[c]) = 0
    BY <1>5, <2>1, Zenon
  <2> QED
    BY <2>2 DEF Runs
<1>8. \A d \in Cids : phase'[d] = "off" <=> phase[d] = "off"
  <2>1. phase \in [Cids -> {"off", "greeting", "up", "closing", "gone"}]
    BY <1>1 DEF TypeOK, ClientTypes
  <2> QED
    BY <1>4, <2>1
<1> QED
  BY <1>4, <1>5, <1>6, <1>7, <1>8, SocketLoses

\* A client that registers is owed what the device reports from now on.
LEMMA AttachStreams ==
  ASSUME HubInv, IdInv, StreamInv, NEW c \in Cids, Attach(c)
  PROVE  StreamInv'
<1>1. TypeOK /\ Round /\ Client(c) /\ ClientIds(c)
  BY DEF HubInv, StreamInv, IdInv
<1>2. /\ c = nextClient /\ nextClient' = nextClient + 1 /\ serving' = serving \cup {c}
      /\ phase' = [phase EXCEPT ![c] = "greeting"] /\ joined' = [joined EXCEPT ![c] = HandedOut]
      /\ UNCHANGED pumpVars /\ UNCHANGED <<pump, pumped, batch, targets, replies, got, queue, lost>>
  BY DEF Attach, pumpVars
<1>3. nextClient \in Nat /\ \A d \in Cids : d \in Nat
  BY <1>1, HubAssumption DEF TypeOK, HubTypes, Cids
<1>4. /\ phase \in [Cids -> {"off", "greeting", "up", "closing", "gone"}]
      /\ joined \in [Cids -> 0 .. MaxReports] /\ targets \subseteq Cids
  BY <1>1 DEF TypeOK, ClientTypes, PumpTypes
<1>5. phase[c] = "off" /\ c \notin serving /\ c \notin targets
  <2>1. phase[c] = "off"
    BY <1>1, <1>2, <1>3 DEF Client, Registered
  <2> QED
    BY <1>1, <2>1 DEF Client, Registered, Round
<1>6. Round'
  BY <1>1, <1>2, <1>4, RoundStays
<1>7. ASSUME NEW d \in Cids, d # c PROVE Client(d)'
  <2>1. d >= nextClient' <=> d >= nextClient
    BY <1>2, <1>3, <1>7
  <2>2. Same(d) /\ Client(d)
    BY <1>2, <1>4, <1>7, <2>1 DEF Same, StreamInv
  <2> QED
    BY <1>1, <1>2, <2>2, SameClient
<1>8. HandedOut = GivenUpTo(c) /\ GivenUpTo(c)' = GivenUpTo(c) /\ GivenUpTo(c) \in Nat
  <2>1. HandedOut = GivenUpTo(c)
    BY <1>5 DEF HandedOut, GivenUpTo, Owes
  <2> QED
    BY <1>1, <1>2, <2>1, GivenStays, GivenIs
<1>9. PICK n \in Nat : n = GivenUpTo(c)
  BY <1>8
<1>10. joined'[c] = n /\ ~lost'[c]
  <2>1. joined'[c] = n
    BY <1>2, <1>4, <1>8, <1>9, Zenon
  <2>2. ~lost[c] /\ lost' = lost
    BY <1>1, <1>2, <1>5 DEF Client, Registered
  <2> QED
    BY <2>1, <2>2, Zenon
<1>11. Stream(c)' = <<>>
  <2>1. got'[c] = <<>> /\ replies'[c] = <<>> /\ queue'[c] = <<>>
    BY <1>1, <1>2, <1>5 DEF Client, Registered, Queued, ClientIds
  <2>2. <<>> \in Seq(Nat)
    OBVIOUS
  <2>3. <<>> \o <<>> = <<>>
    BY <2>2, ConcatEmptySeq, Zenon
  <2>4. Stream(c)' = (got'[c] \o Carried(replies'[c])) \o queue'[c]
    BY StreamParts
  <2> QED
    BY <2>1, <2>3, <2>4, CarriedEmpty, Zenon
<1>12. Follows(<<>>, n, n, TRUE)
  <2>1. Ascends(Interval(n, n), n, n) /\ Interval(n, n) = <<>>
    BY <1>9, IntervalIs, EmptyInterval
  <2> QED
    BY <2>1, Zenon DEF Follows
<1>13. Fed(c)'
  <2>1. PICK s, j, w : s = <<>> /\ j = n /\ (w <=> TRUE)
    OBVIOUS
  <2>2. Follows(s, j, n, w) /\ j = joined'[c] /\ s = Stream(c)' /\ (w <=> ~lost'[c])
    BY <1>10, <1>11, <1>12, <2>1, Zenon DEF Follows
  <2>3. j <= n /\ n <= GivenUpTo(c)' /\ n = GivenUpTo(c)'
    BY <1>8, <1>9, <2>1
  <2> QED
    BY <1>9, <2>2, <2>3, FedAfter
<1>14. Queued(c)'
  <2>1. queue'[c] = <<>>
    BY <1>1, <1>2, <1>5 DEF Client, Queued
  <2>2. queue'[c] = Interval(n, n) /\ n <= n
    BY <1>9, <2>1, EmptyInterval
  <2>3. n = GivenUpTo(c)' /\ c \in serving'
    BY <1>2, <1>8, <1>9, Zenon
  <2> QED
    BY <1>9, <2>2, <2>3, Zenon DEF Queued
<1>15. Registered(c)' /\ Runs(c)'
  <2>1. phase'[c] = "greeting" /\ ~(c >= nextClient')
    BY <1>2, <1>3, <1>4
  <2>2. Registered(c)'
    BY <2>1 DEF Registered
  <2>3. Runs(c)'
    BY <1>1, <1>2, Zenon DEF Client, Runs
  <2> QED
    BY <2>2, <2>3
<1>16. Client(c)'
  BY <1>13, <1>14, <1>15 DEF Client
<1> QED
  BY <1>6, <1>7, <1>16 DEF StreamInv


-----------------------------------------------------------------------------
(* The theorems *)

\* A daemon nobody has attached to.
LEMMA InitStreams == Init => StreamInv
<1> SUFFICES ASSUME Init PROVE StreamInv
  OBVIOUS
<1>1. Round
  BY DEF Init, Round
<1>2. ASSUME NEW c \in Cids PROVE Client(c)
  <2>1. /\ got[c] = <<>> /\ replies[c] = <<>> /\ queue[c] = <<>> /\ joined[c] = 0 /\ ~lost[c]
        /\ phase[c] = "off" /\ c \notin serving /\ c >= nextClient /\ GivenUpTo(c) = 0
    BY HubAssumption DEF Init, Cids, GivenUpTo, Owes
  <2>2. Registered(c) /\ Queued(c)
    BY <2>1, Zenon DEF Registered, Queued
  <2>3. Runs(c)
    <3>1. Len(<<>>) = 0
      OBVIOUS
    <3>2. Len(replies[c]) = 0
      BY <2>1, <3>1, Zenon
    <3> QED
      BY <3>2 DEF Runs
  <2>4. Stream(c) = <<>>
    <3>1. <<>> \in Seq(Nat)
      OBVIOUS
    <3>2. <<>> \o <<>> = <<>>
      BY <3>1, ConcatEmptySeq, Zenon
    <3>3. Stream(c) = (got[c] \o Carried(replies[c])) \o queue[c]
      BY StreamParts
    <3> QED
      BY <2>1, <3>2, <3>3, CarriedEmpty, Zenon
  <2>5. Fed(c)
    <3>1. Ascends(Interval(0, 0), 0, 0) /\ Interval(0, 0) = <<>>
      BY IntervalIs, EmptyInterval
    <3>2. Follows(Stream(c), joined[c], 0, ~lost[c])
      BY <2>1, <2>4, <3>1, Zenon DEF Follows
    <3>3. 0 \in Nat /\ joined[c] <= 0 /\ 0 <= GivenUpTo(c) /\ 0 = GivenUpTo(c)
      BY <2>1
    <3> QED
      BY <3>2, <3>3 DEF Fed, FedTo
  <2> QED
    BY <2>2, <2>3, <2>5 DEF Client
<1> QED
  BY <1>1, <1>2 DEF StreamInv

\* Every step keeps the streams.
LEMMA StepStreams == HubInv /\ IdInv /\ StreamInv /\ [Next]_vars => StreamInv'
<1> SUFFICES ASSUME HubInv, IdInv, StreamInv, [Next]_vars PROVE StreamInv'
  OBVIOUS
<1>1. CASE Emit \/ Close \/ UNCHANGED vars
  BY <1>1, QuietSteps
<1>2. CASE Pump
  BY <1>2, PumpReadStreams, PumpSnapshotStreams, FanOutStreams DEF Pump
<1>3. ASSUME NEW c \in Cids,
             \/ Attach(c) \/ Handle(c) \/ Drop(c)
             \/ \E op \in {"read", "write", "status", "bye"} : Rpc(c, op)
             \/ Receive(c) \/ TimeOut(c) \/ Crash(c)
      PROVE  StreamInv'
  <2>1. CASE Attach(c)
    BY <2>1, AttachStreams
  <2>2. CASE Handle(c)
    BY <2>2, HandleStreams
  <2>3. CASE Drop(c)
    BY <2>3, DropStreams
  <2>4. CASE TimeOut(c) \/ \E op \in {"read", "write", "status", "bye"} : Rpc(c, op)
    BY <2>4, QuietSteps
  <2>5. CASE Receive(c)
    BY <2>5, TakeReplyStreams, SkipLateReplyStreams DEF Receive
  <2>6. CASE Crash(c)
    BY <2>6, CrashStreams
  <2> QED
    BY <1>3, <2>1, <2>2, <2>3, <2>4, <2>5, <2>6
<1> QED
  BY <1>1, <1>2, <1>3 DEF Next

\* The invariants hold in every state of every behaviour.
LEMMA StreamsHold == Spec => [](HubInv /\ IdInv /\ StreamInv)
  BY InvInit, InvStep, InitStreams, StepStreams, PTL DEF Spec

\* Whatever the interleaving of the pump with the client threads, of registering
\* and leaving with the round it is in, with late answers, crashes and a stop:
\* what a client that keeps up has been given is every report since it
\* registered, each once and in order (daemon.py _pump, _serve_client, _handle).
THEOREM StreamsComplete == Spec => []StreamComplete
<1>1. HubInv /\ IdInv /\ StreamInv => StreamComplete
  <2> SUFFICES ASSUME HubInv, StreamInv, NEW c \in serving, ~lost[c]
               PROVE  Stream(c) = Interval(joined[c], GivenUpTo(c))
    BY DEF StreamComplete
  <2>1. c \in Cids
    BY DEF HubInv, TypeOK, HubTypes
  <2>2. PICK k \in Nat : FedTo(c, k)
    BY <2>1 DEF StreamInv, Client, Fed
  <2>3. k = GivenUpTo(c) /\ Stream(c) = Interval(joined[c], k)
    BY <2>2, Zenon DEF FedTo, Follows
  <2> QED
    BY <2>3, Zenon
<1> QED
  BY <1>1, StreamsHold, PTL

\* No client, however slow, is given a report twice or after a later one.
THEOREM StreamsOrdered == Spec => []StreamOrdered
<1>1. HubInv /\ IdInv /\ StreamInv => StreamOrdered
  <2> SUFFICES ASSUME StreamInv, NEW c \in Cids
               PROVE  \A i, j \in 1 .. Len(Stream(c)) : i < j => Stream(c)[i] < Stream(c)[j]
    BY Zenon DEF StreamOrdered
  <2>1. PICK k \in Nat : FedTo(c, k)
    BY DEF StreamInv, Client, Fed
  <2>2. Ascends(Stream(c), joined[c], k)
    BY <2>1, Zenon DEF FedTo, Follows
  <2> QED
    BY <2>2, Zenon DEF Ascends
<1> QED
  BY <1>1, StreamsHold, PTL

-----------------------------------------------------------------------------
(* The hub implements Broadcast *)

\* When each client joined, as Broadcast sees it.
JoinedAt == [c \in Cids |-> IF phase[c] = "off" THEN -1 ELSE joined[c]]

\* Broadcast's four steps, in the hub's terms.
Produces == emitted' = emitted + 1 /\ UNCHANGED <<JoinedAt, got, lost>>
Enrols(c) ==
  /\ JoinedAt[c] = -1 /\ (\E n \in 0 .. emitted : JoinedAt' = [JoinedAt EXCEPT ![c] = n])
  /\ UNCHANGED <<emitted, got, lost>>
Loses(c) ==
  /\ JoinedAt[c] # -1 /\ ~lost[c] /\ lost' = [lost EXCEPT ![c] = TRUE]
  /\ UNCHANGED <<emitted, JoinedAt, got>>
Tells(c) ==
  /\ JoinedAt[c] # -1
  /\ \E hi \in 1 .. emitted : \E lo \in LastOf(got[c], JoinedAt[c]) .. hi - 1 :
       /\ lost[c] \/ lo = LastOf(got[c], JoinedAt[c])
       /\ got' = [got EXCEPT ![c] = got[c] \o Interval(lo, hi)]
  /\ UNCHANGED <<emitted, JoinedAt, lost>>

\* These are what Broadcast allows, or nothing.
LEMMA BroadcastSteps ==
  ASSUME \/ Produces \/ UNCHANGED <<emitted, JoinedAt, got, lost>>
         \/ \E c \in Cids : Enrols(c) \/ Loses(c) \/ Tells(c)
  PROVE  [Shared!Next]_(Shared!bvars)
<1>1. CASE Produces
  BY <1>1, Zenon DEF Produces, JoinedAt, Shared!Next, Shared!Produce
<1>2. CASE UNCHANGED <<emitted, JoinedAt, got, lost>>
  BY <1>2, Zenon DEF JoinedAt, Shared!bvars
<1>3. ASSUME NEW c \in Cids, Enrols(c) PROVE Shared!Next
  BY <1>3, Zenon DEF Enrols, JoinedAt, Shared!Next, Shared!Join, Shared!Absent
<1>4. ASSUME NEW c \in Cids, Loses(c) PROVE Shared!Next
  BY <1>4, Zenon DEF Loses, JoinedAt, Shared!Next, Shared!Lose, Shared!Absent
<1>5. ASSUME NEW c \in Cids, Tells(c) PROVE Shared!Next
  <2>1. Shared!Last(c) = LastOf(got[c], JoinedAt[c])
    BY Zenon DEF JoinedAt, LastOf, Shared!Last
  <2>2. \A lo, hi : Interval(lo, hi) = Shared!Block(lo, hi)
    BY Zenon DEF Interval, Shared!Block
  <2>3. Shared!Tell(c)
    BY <1>5, <2>1, <2>2, Zenon DEF Tells, JoinedAt, Shared!Tell, Shared!Absent
  <2> QED
    BY <2>3, Zenon DEF Shared!Next
<1> QED
  BY <1>1, <1>2, <1>3, <1>4, <1>5, Zenon


\* Nobody joins unless a connection is accepted.
LEMMA StartStays ==
  ASSUME joined' = joined, \A d \in Cids : phase'[d] = "off" <=> phase[d] = "off"
  PROVE  JoinedAt' = JoinedAt
  BY DEF JoinedAt

\* Who has attached has joined.
LEMMA Started ==
  ASSUME TypeOK, NEW c \in Cids, phase[c] # "off"
  PROVE  JoinedAt[c] = joined[c] /\ joined[c] \in Nat /\ JoinedAt[c] # -1
<1>1. joined[c] \in Nat
  BY PartsTyped
<1>2. JoinedAt[c] = joined[c]
  BY DEF JoinedAt
<1> QED
  BY <1>1, <1>2

\* A step that may record a loss records one, or nothing it has not recorded.
LEMMA LostOnce ==
  ASSUME TypeOK, NEW c \in Cids, NEW p \in BOOLEAN, lost' = [lost EXCEPT ![c] = lost[c] \/ p],
         JoinedAt[c] # -1, UNCHANGED <<emitted, JoinedAt, got>>
  PROVE  Loses(c) \/ UNCHANGED <<emitted, JoinedAt, got, lost>>
<1>1. lost \in [Cids -> BOOLEAN] /\ lost[c] \in BOOLEAN
  BY DEF TypeOK, QueueTypes
<1>2. CASE ~lost[c] /\ p
  <2>1. (lost[c] \/ p) = TRUE
    BY <1>2
  <2>2. lost' = [lost EXCEPT ![c] = TRUE]
    BY <2>1, Zenon
  <2> QED
    BY <1>2, <2>2 DEF Loses
<1>3. CASE ~(~lost[c] /\ p)
  <2>1. (lost[c] \/ p) = lost[c]
    BY <1>1, <1>3
  <2>2. lost' = [lost EXCEPT ![c] = lost[c]]
    BY <2>1, Zenon
  <2>3. lost' = lost
    BY <1>1, <2>2
  <2> QED
    BY <2>3, Zenon
<1> QED
  BY <1>2, <1>3

\* The clients step as Broadcast's do: what a read takes in is a run of reports
\* right behind the last one, or behind what was lost.
LEMMA TakeReplyTells ==
  ASSUME HubInv, IdInv, StreamInv, NEW c \in Cids, TakeReply(c)
  PROVE  Tells(c) \/ UNCHANGED <<emitted, JoinedAt, got, lost>>
<1>1. TypeOK /\ Round /\ Client(c)
  BY DEF HubInv, StreamInv
<1>2. PICK h, t : h = Head(replies[c]).reports /\ t = Carried(Tail(replies[c]))
  OBVIOUS
<1>3. /\ UNCHANGED <<emitted, joined, lost>> /\ got' = [got EXCEPT ![c] = got[c] \o h]
      /\ replies[c] # <<>> /\ call[c] # NoCall /\ replies' = [replies EXCEPT ![c] = Tail(replies[c])]
  BY <1>2 DEF TakeReply, pumpVars
<1>4. phase[c] # "off" /\ \A d \in Cids : phase'[d] = "off" <=> phase[d] = "off"
  <2>1. phase[c] # "off"
    BY <1>3, Attached
  <2>2. phase \in [Cids -> {"off", "greeting", "up", "closing", "gone"}]
    BY <1>1 DEF TypeOK, ClientTypes
  <2> QED
    BY <2>1, <2>2 DEF TakeReply, AfterCall
<1>5. JoinedAt' = JoinedAt
  BY <1>3, <1>4, StartStays
<1>6. JoinedAt[c] = joined[c] /\ joined[c] \in Nat /\ JoinedAt[c] # -1
  BY <1>1, <1>4, Started
<1>7. /\ h \in Seq(Nat) /\ t \in Seq(Nat) /\ got[c] \in Seq(Nat) /\ queue[c] \in Seq(Nat)
      /\ Carried(replies[c]) = h \o t
  BY <1>1, <1>2, <1>3, PartsTyped, CarriedTail, Zenon
<1>8. Run(h)
  <2>1. replies \in [Cids -> Seq(Reply)]
    BY <1>1 DEF TypeOK, HubTypes
  <2>2. replies'[c] = Tail(replies[c])
    BY <1>3, <2>1, Zenon
  <2> QED
    BY <1>1, <1>2, <1>3, <2>2, RunsTail DEF Client
<1>9. PICK a, b : a \in Nat /\ b \in Nat /\ a <= b /\ h = Interval(a, b)
  BY <1>8 DEF Run
<1>10. CASE a = b
  <2>1. h = <<>>
    BY <1>9, <1>10, EmptyInterval
  <2>2. got[c] \o h = got[c]
    BY <1>7, <2>1, ConcatEmptySeq, Zenon
  <2>3. got' = [got EXCEPT ![c] = got[c]]
    BY <1>3, <2>2, Zenon
  <2>4. got' = got
    BY <1>1, <2>3 DEF TypeOK, ClientTypes
  <2> QED
    BY <1>3, <1>5, <2>4
<1>11. CASE a # b
  <2>1. PICK k \in Nat : FedTo(c, k)
    BY <1>1 DEF Client, Fed
  <2>2. PICK g, q, j, w, r, y, s :
          /\ g = got[c] /\ q = queue[c] /\ j = joined[c] /\ (w <=> ~lost[c])
          /\ r = t \o q /\ y = g \o h /\ s = y \o r
    OBVIOUS
  <2>3. /\ g \in Seq(Nat) /\ q \in Seq(Nat) /\ j \in Nat /\ r \in Seq(Nat) /\ y \in Seq(Nat)
        /\ Is(y, g, h) /\ Is(s, y, r)
    <3>1. r \in Seq(Nat) /\ y \in Seq(Nat)
      BY <1>7, <2>2, ConcatProperties
    <3>2. Is(y, g, h) /\ Is(s, y, r)
      BY <2>2, Zenon DEF Is
    <3> QED
      BY <1>6, <1>7, <2>2, <3>1, <3>2
  <2>4. s = Stream(c)
    <3>1. Regroups(g, h, t) /\ Regroups(y, t, q)
      BY <1>7, <2>3, Associative
    <3>2. Stream(c) = (g \o (h \o t)) \o q
      BY <1>7, <2>2, StreamParts, Zenon
    <3> QED
      BY <2>2, <3>1, <3>2, Zenon DEF Regroups
  <2>5. Follows(s, j, k, w) /\ j <= k
    BY <2>1, <2>2, <2>4, Zenon DEF FedTo, Follows
  <2>6. a < b
    BY <1>9, <1>11
  <2>7. PICK l : l = LastOf(g, j)
    OBVIOUS
  <2>8. l \in Nat /\ l <= a /\ b <= k /\ (w => l = a)
    BY <1>9, <2>1, <2>3, <2>5, <2>6, <2>7, FollowsNext
  <2>9. k <= emitted /\ emitted \in Nat
    <3>1. GivenUpTo(c) \in Nat /\ GivenUpTo(c) <= pumped /\ pumped \in Nat /\ emitted \in Nat
          /\ pumped <= emitted /\ k <= GivenUpTo(c)
      BY <1>1, <2>1, GivenIs DEF FedTo
    <3> QED
      BY <2>1, <3>1
  <2>10. b \in 1 .. emitted /\ a \in l .. b - 1
    BY <1>9, <2>1, <2>6, <2>8, <2>9
  <2>11. l = LastOf(got[c], JoinedAt[c])
    BY <1>6, <2>2, <2>7, Zenon
  <2>12. lost[c] \/ a = l
    BY <2>2, <2>8
  <2>13. got' = [got EXCEPT ![c] = got[c] \o Interval(a, b)]
    BY <1>3, <1>9, Zenon
  <2>14. Tells(c)
    BY <1>3, <1>5, <1>6, <2>10, <2>11, <2>12, <2>13, Zenon DEF Tells
  <2> QED
    BY <2>14
<1> QED
  BY <1>10, <1>11

\* Where the hub may discard reports, it records a loss or discards nothing.
LEMMA DiscardsLose ==
  ASSUME HubInv, IdInv, StreamInv, NEW c \in Cids, SkipLateReply(c) \/ Crash(c)
  PROVE  Loses(c) \/ UNCHANGED <<emitted, JoinedAt, got, lost>>
<1>1. TypeOK
  BY DEF HubInv
<1>2. PICK p \in BOOLEAN : lost' = [lost EXCEPT ![c] = lost[c] \/ p]
  <2>1. CASE SkipLateReply(c)
    BY <2>1 DEF SkipLateReply
  <2>2. CASE Crash(c)
    BY <2>2 DEF Crash
  <2> QED
    BY <2>1, <2>2
<1>3. phase[c] # "off" /\ UNCHANGED <<emitted, joined, got>>
  BY Attached DEF SkipLateReply, Crash, clientVars, pumpVars
<1>4. \A d \in Cids : phase'[d] = "off" <=> phase[d] = "off"
  BY <1>1, <1>3 DEF SkipLateReply, Crash, clientVars, TypeOK, ClientTypes
<1>5. JoinedAt' = JoinedAt /\ JoinedAt[c] # -1
  BY <1>1, <1>3, <1>4, StartStays, Started
<1> QED
  BY <1>1, <1>2, <1>3, <1>5, LostOnce

\* A round that trims a queue records the loss.
LEMMA FanOutLoses ==
  ASSUME HubInv, IdInv, StreamInv, FanOut
  PROVE  (\E c \in Cids : Loses(c)) \/ UNCHANGED <<emitted, JoinedAt, got, lost>>
<1>1. TypeOK /\ Round /\ pump = "fan_out"
  BY DEF HubInv, StreamInv, FanOut
<1>2. PICK c, full, p :
        /\ c = Min(targets)
        /\ full = IF c \in serving THEN queue[c] \o batch ELSE <<>>
        /\ p = (Trimmed(full) # full)
  OBVIOUS
<1>3. /\ lost' = [lost EXCEPT ![c] = lost[c] \/ p] /\ p \in BOOLEAN
      /\ UNCHANGED <<emitted, joined, got, phase>>
  BY <1>2 DEF FanOut, clientVars
<1>4. c \in targets /\ c \in Cids
  <2>1. targets \subseteq Nat /\ targets # {} /\ targets \subseteq Cids
    BY <1>1, HubAssumption DEF TypeOK, PumpTypes, Cids, Round
  <2> QED
    BY <1>2, <2>1, MinIn
<1>5. phase[c] # "off"
  BY <1>1, <1>4 DEF Round
<1>6. JoinedAt' = JoinedAt /\ JoinedAt[c] # -1
  BY <1>1, <1>3, <1>4, <1>5, StartStays, Started
<1>7. Loses(c) \/ UNCHANGED <<emitted, JoinedAt, got, lost>>
  BY <1>1, <1>3, <1>4, <1>6, LostOnce
<1> QED
  BY <1>4, <1>7

\* A client joins at what the round it missed, or the one before, ended with.
LEMMA AttachJoins ==
  ASSUME HubInv, IdInv, StreamInv, NEW c \in Cids, Attach(c)
  PROVE  Enrols(c)
<1>1. TypeOK /\ Round /\ Client(c)
  BY DEF HubInv, StreamInv
<1>2. /\ c = nextClient /\ UNCHANGED <<emitted, got, lost>>
      /\ phase' = [phase EXCEPT ![c] = "greeting"] /\ joined' = [joined EXCEPT ![c] = HandedOut]
  BY DEF Attach, pumpVars
<1>3. /\ phase \in [Cids -> {"off", "greeting", "up", "closing", "gone"}]
      /\ joined \in [Cids -> 0 .. MaxReports] /\ nextClient \in Nat
  <2>1. nextClient \in 0 .. MaxClients
    BY <1>1 DEF TypeOK, HubTypes
  <2>2. nextClient \in Nat
    BY <2>1, HubAssumption
  <2> QED
    BY <1>1, <2>2 DEF TypeOK, ClientTypes
<1>4. phase[c] = "off"
  BY <1>1, <1>2, <1>3 DEF Client, Registered
<1>5. HandedOut \in 0 .. emitted
  <2>1. HandedOut = GivenUpTo(c)
    BY <1>1, <1>4 DEF HandedOut, GivenUpTo, Owes, Round
  <2>2. GivenUpTo(c) \in Nat /\ GivenUpTo(c) <= pumped /\ pumped \in Nat /\ emitted \in Nat /\ pumped <= emitted
    BY <1>1, GivenIs
  <2> QED
    BY <2>1, <2>2
<1>6. PICK n \in 0 .. emitted : n = HandedOut
  BY <1>5
<1>7. JoinedAt[c] = -1
  BY <1>4 DEF JoinedAt
<1>8. JoinedAt' = [JoinedAt EXCEPT ![c] = n]
  BY <1>2, <1>3, <1>6 DEF JoinedAt
<1> QED
  BY <1>2, <1>6, <1>7, <1>8 DEF Enrols

\* Every step of the hub is a step of Broadcast, or leaves what it shows alone.
LEMMA StepBroadcast ==
  HubInv /\ IdInv /\ StreamInv /\ [Next]_vars => [Shared!Next]_(Shared!bvars)
<1> SUFFICES ASSUME HubInv, IdInv, StreamInv, [Next]_vars PROVE [Shared!Next]_(Shared!bvars)
  OBVIOUS
<1> DEFINE Still == UNCHANGED <<emitted, JoinedAt, got, lost>>
<1>a. phase \in [Cids -> {"off", "greeting", "up", "closing", "gone"}]
  BY DEF HubInv, TypeOK, ClientTypes
<1>1. CASE Emit
  <2>1. emitted' = emitted + 1 /\ UNCHANGED <<joined, phase, got, lost>>
    BY <1>1 DEF Emit, clientVars
  <2>2. JoinedAt' = JoinedAt
    BY <2>1, StartStays
  <2> QED
    BY <2>1, <2>2, BroadcastSteps DEF Produces
<1>2. CASE PumpRead \/ PumpSnapshot \/ Close \/ UNCHANGED vars
  <2>1. UNCHANGED <<emitted, joined, phase, got, lost>>
    BY <1>2 DEF PumpRead, PumpSnapshot, Close, vars, pumpVars, clientVars
  <2>2. JoinedAt' = JoinedAt
    BY <2>1, StartStays
  <2> QED
    BY <2>1, <2>2, BroadcastSteps
<1>3. CASE FanOut
  BY <1>3, FanOutLoses, BroadcastSteps
<1>4. ASSUME NEW c \in Cids, Attach(c) PROVE [Shared!Next]_(Shared!bvars)
  BY <1>4, AttachJoins, BroadcastSteps
<1>5. ASSUME NEW c \in Cids, Handle(c) \/ Drop(c) PROVE [Shared!Next]_(Shared!bvars)
  <2>1. UNCHANGED <<emitted, joined, phase, got, lost>>
    BY <1>5
    DEF Handle, HandleHello, HandleStatus, HandleRead, WriteBegin, WriteEnd, HandleBye, Drop,
                Unregister, pumpVars, clientVars
  <2>2. JoinedAt' = JoinedAt
    BY <2>1, StartStays
  <2> QED
    BY <2>1, <2>2, BroadcastSteps
<1>6. ASSUME NEW c \in Cids, NEW op \in {"read", "write", "status", "bye"}, Rpc(c, op)
      PROVE  [Shared!Next]_(Shared!bvars)
  <2>1. UNCHANGED <<emitted, joined, got, lost>>
    BY <1>6 DEF Rpc, pumpVars
  <2>2. \A d \in Cids : phase'[d] = "off" <=> phase[d] = "off"
    BY <1>a, <1>6 DEF Rpc
  <2>3. JoinedAt' = JoinedAt
    BY <2>1, <2>2, StartStays
  <2> QED
    BY <2>1, <2>3, BroadcastSteps
<1>7. ASSUME NEW c \in Cids, TimeOut(c) PROVE [Shared!Next]_(Shared!bvars)
  <2>1. UNCHANGED <<emitted, joined, got, lost>> /\ phase[c] # "off"
    BY <1>7, Attached DEF TimeOut, pumpVars
  <2>2. \A d \in Cids : phase'[d] = "off" <=> phase[d] = "off"
    BY <1>a, <1>7, <2>1 DEF TimeOut, AfterCall
  <2>3. JoinedAt' = JoinedAt
    BY <2>1, <2>2, StartStays
  <2> QED
    BY <2>1, <2>3, BroadcastSteps
<1>8. ASSUME NEW c \in Cids, TakeReply(c) PROVE [Shared!Next]_(Shared!bvars)
  BY <1>8, TakeReplyTells, BroadcastSteps
<1>9. ASSUME NEW c \in Cids, SkipLateReply(c) \/ Crash(c) PROVE [Shared!Next]_(Shared!bvars)
  BY <1>9, DiscardsLose, BroadcastSteps
<1> QED
  BY <1>1, <1>2, <1>3, <1>4, <1>5, <1>6, <1>7, <1>8, <1>9 DEF Next, Pump, Receive

\* Nobody has joined a daemon that starts.
LEMMA InitBroadcast == Init => Shared!Init
<1> SUFFICES ASSUME Init PROVE Shared!Init
  OBVIOUS
<1>1. emitted = 0 /\ got = [c \in Cids |-> <<>>] /\ lost = [c \in Cids |-> FALSE]
      /\ \A c \in Cids : phase[c] = "off"
  BY DEF Init
<1>2. [c \in Cids |-> IF phase[c] = "off" THEN -1 ELSE joined[c]] = [c \in Cids |-> -1]
  BY <1>1
<1> QED
  BY <1>1, <1>2, Zenon DEF Shared!Init, Shared!Absent

\* The daemon and its clients are a broadcast of the device's reports, for any
\* number of clients and reports: every step is one of Broadcast's, or none.
THEOREM HubIsBroadcast == Spec => SharesOneSession
  BY StreamsHold, StepBroadcast, InitBroadcast, PTL DEF Spec, SharesOneSession, Shared!Spec
-----------------------------------------------------------------------------
(* The record of the daemon that shares its session *)

\* Where a process is while its record may stand, and while its handle is open.
Recorded == {"settle", "serving", "release", "unlink", "close",
             "release again", "unlink again"}
Opened   == {"acquire", "write", "settle", "serving", "release", "unlink", "close"}

\* RecordBacked alone is not inductive: a process that starts, opens, is refused
\* or closes keeps it only because a record names nobody who has not written it.
RecordInv ==
  /\ LockTypeOK
  /\ \A p \in Procs : pc[p] \in Opened => p \in device
  /\ record # None => pc[record] \in Recorded \cup {"held", "gone"}

\* Before anybody starts there is no record and nobody is past the open.
LEMMA InitRecord == LockInit => RecordInv
<1> SUFFICES ASSUME LockInit PROVE RecordInv
  OBVIOUS
<1> USE LockAssumption DEF LockInit
<1>1. \A p \in Procs : pc[p] = IF p \in Servers THEN "idle" ELSE "not started"
  OBVIOUS
<1>2. \A p \in Daemons : pc[p] = "not started"
  BY <1>1 DEF Procs
<1>3. LockTypeOK
  BY <1>1, <1>2 DEF LockTypeOK, Running, Inside, Over
<1> QED
  BY <1>1, <1>3 DEF RecordInv, Opened

\* Every access to the file and to the device keeps the record and the open
\* handles in step with where each process stands.
LEMMA StepRecord == RecordInv /\ [LockNext]_lockVars => RecordInv'
<1> SUFFICES ASSUME RecordInv, [LockNext]_lockVars PROVE RecordInv'
  OBVIOUS
<1>a. /\ \A q \in Daemons : q \in Procs /\ q \notin Servers
      /\ None \notin Procs
  BY LockAssumption DEF Procs
<1> USE <1>a
    DEF RecordInv, LockTypeOK, Go, Alive, Running, Inside, Over, Recorded, Opened
<1>1. ASSUME NEW p \in Procs, Start(p) PROVE RecordInv'
  BY <1>1 DEF Start
<1>2. ASSUME NEW p \in Procs, Check(p) PROVE RecordInv'
  BY <1>2 DEF Check
<1>3. ASSUME NEW p \in Procs, Open(p) PROVE RecordInv'
  BY <1>3 DEF Open
<1>4. ASSUME NEW p \in Procs, OpenFails(p) PROVE RecordInv'
  BY <1>4 DEF OpenFails
<1>5. ASSUME NEW p \in Procs, Acquire(p) PROVE RecordInv'
  BY <1>5 DEF Acquire
<1>6. ASSUME NEW p \in Procs, Write(p) PROVE RecordInv'
  BY <1>6 DEF Write
<1>7. ASSUME NEW p \in Procs, Settle(p) PROVE RecordInv'
  BY <1>7 DEF Settle
<1>8. ASSUME NEW p \in Procs, Stop(p) PROVE RecordInv'
  BY <1>8 DEF Stop
<1>9. ASSUME NEW p \in Procs, Release(p) PROVE RecordInv'
  BY <1>9 DEF Release, AfterLastRelease
<1>10. ASSUME NEW p \in Procs, Unlink(p) PROVE RecordInv'
  BY <1>10 DEF Unlink, AfterLastRelease
<1>11. ASSUME NEW p \in Procs, CloseDevice(p) PROVE RecordInv'
  BY <1>11 DEF CloseDevice
<1>12. ASSUME NEW p \in Procs, Die(p) PROVE RecordInv'
  BY <1>12 DEF Die
<1>13. CASE UNCHANGED lockVars
  BY <1>13 DEF lockVars
<1> QED
  BY <1>1, <1>2, <1>3, <1>4, <1>5, <1>6, <1>7, <1>8, <1>9, <1>10, <1>11, <1>12, <1>13
     DEF LockNext, Step

\* Every record, handle and process state is one the code can produce, whatever
\* the processes and the order they run in.
THEOREM RecordTyped == LockSpec => []LockTypeOK
<1>1. RecordInv => LockTypeOK
  BY DEF RecordInv
<1> QED
  BY InitRecord, StepRecord, <1>1, PTL DEF LockSpec

\* A live process named by session.json has the device open, or is on its way
\* from closing it to releasing the record: for any number of daemons and
\* servers, in every mode, with or without --takeover, and with crashes.
THEOREM RecordIsBacked == LockSpec => []RecordBacked
<1>1. RecordInv => RecordBacked
  BY DEF RecordInv, LockTypeOK, RecordBacked, Recorded, Opened, Alive, Running, Inside
<1> QED
  BY InitRecord, StepRecord, <1>1, PTL DEF LockSpec
=============================================================================
