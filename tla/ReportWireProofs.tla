-------------------------- MODULE ReportWireProofs --------------------------
(* The wire, for any number of senders, messages, lengths and report sizes. *)
EXTENDS ReportWire, SequenceTheorems, TLAPS

\* A report carries something, and no more than fits.
Report == [first : BOOLEAN, last : BOOLEAN, part : {s \in Seq(Unit) : Len(s) \in 1 .. ChunkMax}]

Shaped ==
  /\ holder \in [Processes -> Threads \cup {Free}]
  /\ todo \in [Threads -> Seq(Report)]
  /\ sent \in [Threads -> Nat]
  /\ buf \in Seq(Unit) /\ heard \in Seq(Unit)
  /\ dropped \subseteq Threads \X Nat

\* Whoever has reports to write is inside the _send_lock of its process.
Locked == \A t \in Threads : todo[t] # <<>> => holder[ProcessOf[t]] = t

\* What t has still to write is the end of one of its messages, from the k-th
\* report on; unless one was refused, the other end has all that came before.
Before(m, k) == SubSeq(m, 1, (k - 1) * ChunkMax)
Rest(m, k)   == SubSeq(Cut(m), k, Len(Cut(m)))
Underway(t, m, k) ==
  /\ todo[t] = Rest(m, k)
  /\ k > 1 /\ <<t, sent[t]>> \notin dropped => buf = Before(m, k)
Current(t) == {Message(t, sent[t], len) : len \in Nat \ {0}}
Halfway ==
  \A t \in Threads :
    todo[t] # <<>> =>
      \E m \in Current(t) : \E k \in 1 .. Len(Cut(m)) : Underway(t, m, k)

IInv == Shaped /\ Locked /\ Halfway /\ OnlyWholeMessages

\* All senders share one QuadCortex.
OneSendLock == \A t, u \in Threads : ProcessOf[t] = ProcessOf[u]

-----------------------------------------------------------------------------
(* Cutting and joining *)

\* A message is not empty, and each unit of it says which message it is of.
LEMMA MessageUnits ==
  ASSUME NEW t \in Threads, NEW n \in Nat, NEW len \in Nat \ {0}
  PROVE  LET m == Message(t, n, len)
         IN  /\ m \in Seq(Unit) /\ Len(m) = len /\ m # <<>> /\ IsMessage(m)
             /\ \A i \in 1 .. len : m[i].from = t /\ m[i].nr = n /\ m[i].of = len
<1> DEFINE m == Message(t, n, len)
<1>1. m \in Seq(Unit) /\ Len(m) = len /\ m # <<>>
  BY DEF Message, Unit
<1>2. \A i \in 1 .. len : m[i].from = t /\ m[i].nr = n /\ m[i].of = len
  BY DEF Message
<1>3. 1 \in 1 .. len
  OBVIOUS
<1>4. m = Message(m[1].from, m[1].nr, m[1].of)
  BY <1>2, <1>3, Zenon
<1> QED
  BY <1>1, <1>2, <1>4 DEF IsMessage

\* ReportCount rounds up: every report but the last is full, and none is empty.
LEMMA Rounding ==
  ASSUME NEW len \in Nat \ {0}
  PROVE  /\ ReportCount(len) \in Nat \ {0}
         /\ len <= ReportCount(len) * ChunkMax
         /\ \A k \in 1 .. ReportCount(len) :
              /\ (k - 1) * ChunkMax \in Nat /\ (k - 1) * ChunkMax < len
              /\ (k - 1) * ChunkMax + ChunkMax = k * ChunkMax
         /\ \A k \in 1 .. ReportCount(len) - 1 : k * ChunkMax < len
<1> DEFINE n == ReportCount(len)
<1> USE WireAssumption
<1>1. PICK a \in Nat : a = len + ChunkMax - 1
  OBVIOUS
<1>2. n \in Nat /\ n * ChunkMax <= a /\ a < n * ChunkMax + ChunkMax
  BY <1>1 DEF ReportCount
<1> HIDE DEF n
<1>3. n # 0 /\ len <= n * ChunkMax /\ n * ChunkMax < len + ChunkMax
  BY <1>1, <1>2
<1>4. ASSUME NEW k \in 1 .. n
      PROVE  /\ (k - 1) * ChunkMax \in Nat
             /\ (k - 1) * ChunkMax + ChunkMax = k * ChunkMax
             /\ k * ChunkMax <= n * ChunkMax
  BY <1>2
<1>5. ASSUME NEW k \in 1 .. n
      PROVE  (k - 1) * ChunkMax < len
  <2>1. PICK x \in Int, y \in Int, z \in Int :
          x = (k - 1) * ChunkMax /\ y = k * ChunkMax /\ z = n * ChunkMax
    BY <1>2
  <2>2. x + ChunkMax = y /\ y <= z /\ z < len + ChunkMax
    BY <1>3, <1>4, <2>1, Zenon
  <2>3. x < len
    BY <2>2
  <2> QED
    BY <2>1, <2>3, Zenon
<1>6. ASSUME NEW k \in 1 .. n - 1
      PROVE  k * ChunkMax < len
  <2>1. k + 1 \in 1 .. n /\ (k + 1) - 1 = k
    BY <1>2
  <2> QED
    BY <2>1, <1>5
<1> QED
  BY <1>2, <1>3, <1>4, <1>5, <1>6 DEF n

\* A record of the three fields is a report.
LEMMA AReport ==
  ASSUME NEW P, NEW a \in BOOLEAN, NEW b \in BOOLEAN, NEW p \in P
  PROVE  [first |-> a, last |-> b, part |-> p] \in [first : BOOLEAN, last : BOOLEAN, part : P]
OBVIOUS

\* The k-th report of a message, by what it holds.
LEMMA CutInto ==
  ASSUME NEW m \in Seq(Unit), m # <<>>
  PROVE  /\ Len(Cut(m)) = ReportCount(Len(m))
         /\ Len(Cut(m)) \in Nat \ {0} /\ Cut(m) \in Seq(Report)
         /\ \A k \in 1 .. Len(Cut(m)) :
              /\ Cut(m)[k].first <=> k = 1
              /\ Cut(m)[k].last <=> k = Len(Cut(m))
              /\ k < Len(Cut(m)) =>
                   Cut(m)[k].part = SubSeq(m, (k - 1) * ChunkMax + 1, k * ChunkMax)
              /\ k = Len(Cut(m)) =>
                   Cut(m)[k].part = SubSeq(m, (k - 1) * ChunkMax + 1, Len(m))
<1> DEFINE n == ReportCount(Len(m))
           upto(k) == IF k * ChunkMax < Len(m) THEN k * ChunkMax ELSE Len(m)
           part(k) == SubSeq(m, (k - 1) * ChunkMax + 1, upto(k))
<1>1. Len(m) \in Nat \ {0}
  OBVIOUS
<1>2. n \in Nat \ {0}
  BY <1>1, Rounding
<1>3. ASSUME NEW k \in 1 .. n
      PROVE  /\ k < n => upto(k) = k * ChunkMax
             /\ k = n => upto(k) = Len(m)
             /\ upto(k) \in 1 .. Len(m)
             /\ (k - 1) * ChunkMax \in Nat
             /\ upto(k) - (k - 1) * ChunkMax \in 1 .. ChunkMax
  <2>1. PICK x \in Int, y \in Int :
          x = (k - 1) * ChunkMax /\ y = k * ChunkMax
    BY <1>2, WireAssumption
  <2>2. x \in Nat /\ x < Len(m) /\ x + ChunkMax = y
    BY <1>1, <2>1, Rounding, Zenon
  <2>3. (k < n => y < Len(m)) /\ (k = n => Len(m) <= y)
    <3>1. k < n => k \in 1 .. n - 1
      BY <1>2
    <3> QED
      BY <1>1, <2>1, <3>1, Rounding, Zenon
  <2>4. upto(k) = IF y < Len(m) THEN y ELSE Len(m)
    BY <2>1, Zenon
  <2> HIDE DEF upto, n
  <2>5. /\ k < n => upto(k) = y
        /\ k = n => upto(k) = Len(m)
        /\ upto(k) \in 1 .. Len(m) /\ x \in Nat
        /\ upto(k) - x \in 1 .. ChunkMax
    BY <1>1, <2>2, <2>3, <2>4, WireAssumption
  <2> QED
    BY <2>1, <2>5, Zenon
<1>4. ASSUME NEW k \in 1 .. n
      PROVE  part(k) \in {s \in Seq(Unit) : Len(s) \in 1 .. ChunkMax}
  <2> HIDE DEF n, upto
  <2> DEFINE i == (k - 1) * ChunkMax + 1
             j == upto(k)
  <2>1. i \in Nat \ {0} /\ j \in 1 .. Len(m) /\ j - i + 1 \in 1 .. ChunkMax /\ i <= j
    BY <1>3, WireAssumption
  <2> HIDE DEF i, j
  <2>2. SubSeq(m, i, j) \in Seq(Unit) /\ Len(SubSeq(m, i, j)) = j - i + 1
    BY <2>1
  <2> QED
    BY <2>1, <2>2 DEF i, j
<1>5. Cut(m) = [k \in 1 .. n |->
                  [first |-> (k = 1), last |-> (k = n), part |-> part(k)]]
  BY Zenon DEF Cut, HasFirst, HasLast
<1> HIDE DEF n, upto, part
<1>6. \A k \in 1 .. n : /\ (Cut(m)[k].first <=> k = 1) /\ (Cut(m)[k].last <=> k = n)
                        /\ Cut(m)[k].part = part(k)
  <2> SUFFICES ASSUME NEW k \in 1 .. n
               PROVE  /\ (Cut(m)[k].first <=> k = 1) /\ (Cut(m)[k].last <=> k = n)
                      /\ Cut(m)[k].part = part(k)
    OBVIOUS
  <2>1. Cut(m)[k] = [first |-> (k = 1), last |-> (k = n), part |-> part(k)]
    BY <1>5, Zenon
  <2>2. /\ Cut(m)[k].first = (k = 1) /\ Cut(m)[k].last = (k = n)
        /\ Cut(m)[k].part = part(k)
    BY <2>1
  <2> QED
    BY <2>2, Zenon
<1>7. \A k \in 1 .. n : Cut(m)[k] \in Report
  <2> SUFFICES ASSUME NEW k \in 1 .. n
               PROVE  Cut(m)[k] \in Report
    OBVIOUS
  <2>1. Cut(m)[k] = [first |-> (k = 1), last |-> (k = n), part |-> part(k)]
    BY <1>5, Zenon
  <2>2. (k = 1) \in BOOLEAN /\ (k = n) \in BOOLEAN
    BY Zenon
  <2> QED
    BY <1>4, <2>1, <2>2, AReport DEF Report
<1>8. DOMAIN Cut(m) = 1 .. n /\ Len(Cut(m)) = n /\ Cut(m) \in Seq(Report)
  BY <1>2, <1>5, <1>7
<1>9. ASSUME NEW k \in 1 .. n
      PROVE  /\ k < n => part(k) = SubSeq(m, (k - 1) * ChunkMax + 1, k * ChunkMax)
             /\ k = n => part(k) = SubSeq(m, (k - 1) * ChunkMax + 1, Len(m))
  BY <1>3, Zenon DEF part
<1> QED
  BY <1>2, <1>6, <1>8, <1>9, Zenon DEF n

\* Two neighbouring parts of a sequence make one.
LEMMA PartsJoin ==
  ASSUME NEW S, NEW s \in Seq(S), NEW a \in 0 .. Len(s), NEW b \in a .. Len(s)
  PROVE  SubSeq(s, 1, a) \o SubSeq(s, a + 1, b) = SubSeq(s, 1, b)
OBVIOUS

\* The last part of a sequence ends as it does.
LEMMA EndOfPart ==
  ASSUME NEW S, NEW s \in Seq(S), NEW a \in Nat, a < Len(s)
  PROVE  SubSeq(s, a + 1, Len(s))[Len(SubSeq(s, a + 1, Len(s)))] = s[Len(s)]
<1>1. Len(SubSeq(s, a + 1, Len(s))) = Len(s) - a
  OBVIOUS
<1>2. SubSeq(s, a + 1, Len(s))[Len(s) - a] = s[Len(s)]
  OBVIOUS
<1> QED
  BY <1>1, <1>2

\* Whatever is in the buffer, what comes out of it is a sequence of units; it
\* comes with the last report only, and ends with the last unit of that message.
LEMMA FedTyped ==
  ASSUME NEW b \in Seq(Unit), NEW r \in Report
  PROVE  /\ Fed(b, r).buf \in Seq(Unit) /\ Fed(b, r).out \in Seq(Unit)
         /\ ~r.last => Fed(b, r).out = <<>>
         /\ r.last => /\ Fed(b, r).buf = <<>> /\ Fed(b, r).out # <<>>
                      /\ Fed(b, r).out[Len(Fed(b, r).out)] = r.part[Len(r.part)]
<1> DEFINE base == IF r.first THEN <<>> ELSE b
           joined == base \o r.part
<1>1. r.part \in Seq(Unit) /\ Len(r.part) \in Nat \ {0}
  BY WireAssumption DEF Report
<1>2. base \in Seq(Unit)
  OBVIOUS
<1>3. Fed(b, r) = IF r.last THEN [buf |-> <<>>, out |-> joined] ELSE [buf |-> joined, out |-> <<>>]
  BY DEF Fed
<1> HIDE DEF base
<1>4. joined \in Seq(Unit) /\ joined # <<>> /\ joined[Len(joined)] = r.part[Len(r.part)]
  BY <1>1, <1>2
<1> HIDE DEF joined
<1>5. CASE r.last
  <2>1. Fed(b, r).buf = <<>> /\ Fed(b, r).out = joined
    BY <1>3, <1>5
  <2> QED
    BY <1>4, <1>5, <2>1
<1>6. CASE ~r.last
  <2>1. Fed(b, r).buf = joined /\ Fed(b, r).out = <<>>
    BY <1>3, <1>6
  <2> QED
    BY <1>4, <1>6, <2>1
<1> QED
  BY <1>5, <1>6

\* After the reports up to the k-th, the buffer is the message that far; after
\* the last one, the message is out.
LEMMA FedInOrder ==
  ASSUME NEW m \in Seq(Unit), m # <<>>, NEW b \in Seq(Unit),
         NEW k \in 1 .. Len(Cut(m)), k > 1 => b = Before(m, k)
  PROVE  /\ k < Len(Cut(m)) => Fed(b, Cut(m)[k]).buf = Before(m, k + 1)
         /\ k = Len(Cut(m)) => Fed(b, Cut(m)[k]).out = m
<1> DEFINE n == Len(Cut(m))
           r == Cut(m)[k]
           base == IF r.first THEN <<>> ELSE b
           joined == base \o r.part
<1>1. Len(m) \in Nat \ {0}
  OBVIOUS
<1>2. n = ReportCount(Len(m)) /\ n \in Nat \ {0}
  BY CutInto
<1>3. /\ (r.first <=> k = 1) /\ (r.last <=> k = n)
      /\ k < n => r.part = SubSeq(m, (k - 1) * ChunkMax + 1, k * ChunkMax)
      /\ k = n => r.part = SubSeq(m, (k - 1) * ChunkMax + 1, Len(m))
  BY CutInto, Zenon
<1>4. PICK a \in Nat : a = (k - 1) * ChunkMax
  BY <1>1, <1>2, Rounding
<1>5. PICK e \in Nat : /\ k < n => e = ((k + 1) - 1) * ChunkMax
                       /\ k = n => e = Len(m)
                       /\ r.part = SubSeq(m, a + 1, e) /\ a <= e /\ e <= Len(m)
  <2>1. CASE k < n
    <3>1. PICK y \in Int : y = k * ChunkMax
      BY <1>2, WireAssumption
    <3>2. a + ChunkMax = y /\ y < Len(m)
      <4>1. k \in 1 .. n - 1
        BY <1>2, <2>1
      <4> QED
        BY <1>1, <1>2, <1>4, <3>1, <4>1, Rounding, Zenon
    <3>3. y \in Nat /\ a <= y /\ y <= Len(m) /\ (k + 1) - 1 = k /\ k # n
      BY <1>1, <1>4, <2>1, <3>2, WireAssumption
    <3>4. r.part = SubSeq(m, a + 1, y)
      BY <1>3, <1>4, <2>1, <3>1, Zenon
    <3> QED
      BY <3>1, <3>3, <3>4, Zenon
  <2>2. CASE k = n
    <3>1. a < Len(m)
      BY <1>1, <1>2, <1>4, Rounding, Zenon
    <3>2. r.part = SubSeq(m, a + 1, Len(m))
      BY <1>3, <1>4, <2>2, Zenon
    <3>3. ~(k < n) /\ a <= Len(m) /\ Len(m) <= Len(m) /\ Len(m) \in Nat
      BY <1>1, <1>2, <1>4, <2>2, <3>1
    <3> QED
      BY <3>2, <3>3, Zenon
  <2> QED
    BY <1>2, <2>1, <2>2
<1>6. base = SubSeq(m, 1, a)
  <2>1. CASE k = 1
    <3>1. a = 0
      BY <1>4, <2>1, WireAssumption
    <3>2. SubSeq(m, 1, a) = <<>>
      BY <3>1
    <3> QED
      BY <1>3, <2>1, <3>2, Zenon
  <2>2. CASE k # 1
    <3>1. b = SubSeq(m, 1, a)
      BY <1>2, <1>4, <2>2 DEF Before
    <3> QED
      BY <1>3, <2>2, <3>1, Zenon
  <2> QED
    BY <2>1, <2>2
<1>7. joined = SubSeq(m, 1, e)
  <2>1. a \in 0 .. Len(m) /\ e \in a .. Len(m)
    BY <1>1, <1>5
  <2> QED
    BY <1>5, <1>6, <2>1, PartsJoin, Zenon
<1>8. Fed(b, r) = IF r.last THEN [buf |-> <<>>, out |-> joined] ELSE [buf |-> joined, out |-> <<>>]
  BY DEF Fed
<1> HIDE DEF joined, r, n
<1>9. CASE k < n
  <2>1. Fed(b, r).buf = joined
    <3>1. ~r.last
      BY <1>2, <1>3, <1>9
    <3>2. Fed(b, r) = [buf |-> joined, out |-> <<>>]
      BY <1>8, <3>1, Zenon
    <3> QED
      BY <3>2
  <2>2. ~(k = n)
    BY <1>9, <1>2
  <2> QED
    BY <1>5, <1>7, <1>9, <2>1, <2>2, Zenon DEF Before, n, r
<1>10. CASE k = n
  <2>1. Fed(b, r).out = joined
    <3>1. Fed(b, r) = [buf |-> <<>>, out |-> joined]
      BY <1>3, <1>8, <1>10, Zenon
    <3> QED
      BY <3>1
  <2>2. SubSeq(m, 1, Len(m)) = m /\ ~(k < n)
    BY <1>2, <1>10
  <2> QED
    BY <1>5, <1>7, <1>10, <2>1, <2>2, Zenon DEF n, r
<1> QED
  BY <1>2, <1>9, <1>10 DEF n

-----------------------------------------------------------------------------
(* Steps *)

\* A step keeps the shape, whoever the senders are.
LEMMA ShapeKept ==
  ASSUME Shaped, [Next]_vars
  PROVE  Shaped'
<1> USE DEF Shaped
<1>1. ASSUME NEW t \in Threads, NEW len \in MessageLens[t], Begin(t, len)
      PROVE  Shaped'
  <2>1. len \in Nat \ {0} /\ ProcessOf[t] \in Processes /\ sent[t] + 1 \in Nat
    BY WireAssumption DEF Processes
  <2>2. Cut(Message(t, sent[t] + 1, len)) \in Seq(Report)
    <3> DEFINE m == Message(t, sent[t] + 1, len)
    <3>1. m \in Seq(Unit) /\ m # <<>>
      BY <2>1, MessageUnits
    <3> HIDE DEF m
    <3>2. Cut(m) \in Seq(Report)
      BY <3>1, CutInto
    <3> QED
      BY <3>2 DEF m
  <2> QED
    BY <1>1, <2>1, <2>2 DEF Begin
<1>2. ASSUME NEW t \in Threads, Advance(t)
      PROVE  /\ holder' \in [Processes -> Threads \cup {Free}]
             /\ todo' \in [Threads -> Seq(Report)] /\ UNCHANGED sent
             /\ Head(todo[t]) \in Report
  <2>1. todo[t] \in Seq(Report) /\ todo[t] # <<>> /\ ProcessOf[t] \in Processes
    BY <1>2, Zenon DEF Advance, Processes
  <2>2. Tail(todo[t]) \in Seq(Report) /\ Head(todo[t]) \in Report
    BY <2>1
  <2>3. todo' \in [Threads -> Seq(Report)]
    BY <1>2, <2>2 DEF Advance
  <2>4. holder' \in [Processes -> Threads \cup {Free}]
    BY <1>2, <2>1 DEF Advance
  <2> QED
    BY <1>2, <2>2, <2>3, <2>4 DEF Advance
<1>3. ASSUME NEW t \in Threads, WriteReport(t)
      PROVE  Shaped'
  <2>1. Advance(t) /\ UNCHANGED dropped
    BY <1>3 DEF WriteReport
  <2>2. buf' = Fed(buf, Head(todo[t])).buf /\ heard' = Fed(buf, Head(todo[t])).out
    BY <1>3, Zenon DEF WriteReport
  <2>3. buf' \in Seq(Unit) /\ heard' \in Seq(Unit)
    BY <1>2, <2>1, <2>2, FedTyped, Zenon
  <2> QED
    BY <1>2, <2>1, <2>3, Zenon
<1>4. ASSUME NEW t \in Threads, WriteRefused(t)
      PROVE  Shaped'
  <2>1. Advance(t) /\ UNCHANGED <<buf, heard>>
    BY <1>4 DEF WriteRefused
  <2>2. dropped' \subseteq Threads \X Nat
    BY <1>4 DEF WriteRefused
  <2> QED
    BY <1>2, <2>1, <2>2
<1>5. ASSUME NEW t \in Threads, WriteFails(t)
      PROVE  Shaped'
  BY <1>5 DEF WriteFails, Processes
<1>6. CASE UNCHANGED vars
  BY <1>6, Zenon DEF vars
<1> QED
  BY <1>1, <1>3, <1>4, <1>5, <1>6 DEF Next

\* With one lock, nobody else is in a message while one is.
LEMMA OneAtATime ==
  ASSUME OneSendLock, Locked, NEW t \in Threads, NEW u \in Threads \ {t},
         todo[t] # <<>> \/ holder[ProcessOf[t]] = Free
  PROVE  todo[u] = <<>>
BY FreeAssumption DEF OneSendLock, Locked

\* After the only element there is nothing.
LEMMA LastLeft ==
  ASSUME NEW S, NEW s \in Seq(S), s # <<>>, Len(s) = 1
  PROVE  Tail(s) = <<>>
<1>1. Tail(s) \in Seq(S) /\ Len(Tail(s)) = 0
  BY HeadTailProperties
<1> QED
  BY <1>1, EmptySeq

\* A message is begun under the free lock only, and the lock is kept until its end.
LEMMA LockKept ==
  ASSUME OneSendLock, Shaped, Locked, [Next]_vars
  PROVE  Locked'
<1> SUFFICES ASSUME NEW u \in Threads, todo'[u] # <<>>
             PROVE  holder'[ProcessOf[u]] = u
  BY DEF Locked
<1> USE DEF Shaped, Processes
<1>1. ASSUME NEW t \in Threads, NEW len \in MessageLens[t], Begin(t, len)
      PROVE  holder'[ProcessOf[u]] = u
  BY <1>1, OneAtATime DEF Begin
<1>2. ASSUME NEW t \in Threads, Advance(t)
      PROVE  holder'[ProcessOf[u]] = u
  <2>1. todo[t] # <<>> /\ todo[t] \in Seq(Report)
    BY <1>2 DEF Advance
  <2>2. u = t
    BY <1>2, <2>1, OneAtATime DEF Advance
  <2>3. todo'[t] = Tail(todo[t])
    BY <1>2 DEF Advance
  <2>4. Len(todo[t]) # 1
    <3>1. todo'[t] # <<>>
      BY <2>2
    <3>2. PICK s \in Seq(Report) : s = todo[t]
      BY <2>1
    <3>3. Len(s) = 1 => Tail(s) = <<>>
      BY <2>1, <3>2, LastLeft, Zenon
    <3> QED
      BY <2>3, <3>1, <3>2, <3>3, Zenon
  <2> QED
    BY <1>2, <2>1, <2>2, <2>4 DEF Advance, Locked
<1>3. ASSUME NEW t \in Threads, WriteFails(t)
      PROVE  holder'[ProcessOf[u]] = u
  BY <1>3, OneAtATime DEF WriteFails
<1>4. CASE UNCHANGED vars
  BY <1>4 DEF vars, Locked
<1> QED
  BY <1>1, <1>2, <1>3, <1>4 DEF Next, WriteReport, WriteRefused

\* The report at the head of what is left is the k-th; writing it leaves the
\* rest from the next one on, or nothing.
LEMMA RestShrinks ==
  ASSUME NEW m \in Seq(Unit), m # <<>>, NEW k \in 1 .. Len(Cut(m))
  PROVE  /\ Rest(m, k) \in Seq(Report) /\ Rest(m, k) # <<>>
         /\ Rest(m, 1) = Cut(m)
         /\ Head(Rest(m, k)) = Cut(m)[k]
         /\ Len(Rest(m, k)) = 1 <=> k = Len(Cut(m))
         /\ k < Len(Cut(m)) => Tail(Rest(m, k)) = Rest(m, k + 1)
         /\ k = Len(Cut(m)) => Tail(Rest(m, k)) = <<>>
<1>1. Cut(m) \in Seq(Report) /\ Len(Cut(m)) \in Nat \ {0}
  BY CutInto
<1> DEFINE c == Cut(m)
<1> HIDE DEF c
<1>2. PICK n \in Nat \ {0} : n = Len(c)
  BY <1>1 DEF c
<1>3. k \in 1 .. n /\ c \in Seq(Report)
  BY <1>1, <1>2 DEF c
<1>4. SubSeq(c, k, n) \in Seq(Report) /\ Len(SubSeq(c, k, n)) = n - k + 1
  BY <1>2, <1>3
<1>5. Head(SubSeq(c, k, n)) = c[k] /\ Tail(SubSeq(c, k, n)) = SubSeq(c, k + 1, n)
  <2>1. k \in 1 .. Len(c) /\ n \in k .. Len(c)
    BY <1>2, <1>3
  <2> QED
    BY <1>3, <2>1, HeadTailOfSubSeq, Zenon
<1>6. SubSeq(c, 1, n) = c
  BY <1>2, <1>3
<1>7. k = n => SubSeq(c, k + 1, n) = <<>>
  BY <1>2, <1>3
<1>8. SubSeq(c, k, n) # <<>> /\ (Len(SubSeq(c, k, n)) = 1 <=> k = n)
  <2>1. (n - k + 1 = 1 <=> k = n) /\ n - k + 1 # 0
    BY <1>2, <1>3
  <2>2. Len(<<>>) = 0
    OBVIOUS
  <2> QED
    BY <1>4, <2>1, <2>2, Zenon
<1> QED
  BY <1>2, <1>4, <1>5, <1>6, <1>7, <1>8, Zenon DEF Rest, c

\* What a thread's message is.
LEMMA CurrentMessage ==
  ASSUME Shaped, NEW t \in Threads, NEW m \in Current(t)
  PROVE  /\ m \in Seq(Unit) /\ m # <<>> /\ IsMessage(m)
         /\ m[Len(m)].from = t /\ m[Len(m)].nr = sent[t]
         /\ Cut(m) \in Seq(Report) /\ Len(Cut(m)) \in Nat \ {0}
<1>1. PICK len \in Nat \ {0} : m = Message(t, sent[t], len)
  BY DEF Current
<1>2. sent[t] \in Nat
  BY DEF Shaped
<1>3. /\ m \in Seq(Unit) /\ Len(m) = len /\ m # <<>> /\ IsMessage(m)
      /\ \A i \in 1 .. len : m[i].from = t /\ m[i].nr = sent[t]
  BY <1>1, <1>2, MessageUnits
<1>4. Len(m) \in 1 .. len
  BY <1>3
<1> QED
  BY <1>3, <1>4, CutInto

\* A thread with reports to write: its message, how far it is, what comes next.
LEMMA NextReport ==
  ASSUME Shaped, Halfway, NEW t \in Threads, todo[t] # <<>>
  PROVE  \E m \in Current(t) : \E k \in 1 .. Len(Cut(m)) :
           /\ Underway(t, m, k)
           /\ Head(todo[t]) = Cut(m)[k] /\ Cut(m)[k] \in Report
           /\ Len(todo[t]) = 1 <=> k = Len(Cut(m))
           /\ k < Len(Cut(m)) => Tail(todo[t]) = Rest(m, k + 1)
           /\ k = Len(Cut(m)) => Tail(todo[t]) = <<>>
<1>1. PICK m \in Current(t) : \E k \in 1 .. Len(Cut(m)) : Underway(t, m, k)
  BY DEF Halfway
<1>2. PICK k \in 1 .. Len(Cut(m)) : Underway(t, m, k)
  BY <1>1
<1>3. m \in Seq(Unit) /\ m # <<>>
  BY <1>1, CurrentMessage
<1>4. Cut(m)[k] \in Report
  BY <1>3, CutInto
<1>5. todo[t] = Rest(m, k)
  BY <1>2, Zenon DEF Underway
<1>6. /\ Head(Rest(m, k)) = Cut(m)[k]
      /\ Len(Rest(m, k)) = 1 <=> k = Len(Cut(m))
      /\ k < Len(Cut(m)) => Tail(Rest(m, k)) = Rest(m, k + 1)
      /\ k = Len(Cut(m)) => Tail(Rest(m, k)) = <<>>
  BY <1>3, RestShrinks, Zenon
<1> QED
  BY <1>1, <1>2, <1>4, <1>5, <1>6, Zenon

\* A report that is not the last has a next one.
LEMMA NotLast ==
  ASSUME NEW n \in Nat \ {0}, NEW k \in 1 .. n, k # n
  PROVE  k < n /\ k + 1 \in 1 .. n
OBVIOUS

\* Writing a report: what is heard is nothing, or the message as it was sent,
\* or a message one of whose reports was refused; what is left is the rest.
LEMMA Writing ==
  ASSUME Shaped, Halfway, NEW t \in Threads, WriteReport(t)
  PROVE  /\ heard' # <<>> <=> Len(todo[t]) = 1
         /\ heard' # <<>> => Sender(heard') = <<t, sent[t]>>
         /\ heard' # <<>> => IsMessage(heard') \/ <<t, sent[t]>> \in dropped
         /\ todo'[t] # <<>> =>
              \E m \in Current(t) : \E k \in 1 .. Len(Cut(m)) :
                /\ todo'[t] = Rest(m, k)
                /\ <<t, sent[t]>> \notin dropped => buf' = Before(m, k)
<1>1. todo[t] # <<>> /\ todo'[t] = Tail(todo[t])
  BY DEF WriteReport, Advance, Shaped
<1>0. PICK m \in Current(t) : \E k \in 1 .. Len(Cut(m)) :
        /\ Underway(t, m, k)
        /\ Head(todo[t]) = Cut(m)[k] /\ Cut(m)[k] \in Report
        /\ Len(todo[t]) = 1 <=> k = Len(Cut(m))
        /\ k < Len(Cut(m)) => Tail(todo[t]) = Rest(m, k + 1)
        /\ k = Len(Cut(m)) => Tail(todo[t]) = <<>>
  BY <1>1, NextReport
<1>2. PICK k \in 1 .. Len(Cut(m)) :
        /\ Underway(t, m, k)
        /\ Head(todo[t]) = Cut(m)[k] /\ Cut(m)[k] \in Report
        /\ Len(todo[t]) = 1 <=> k = Len(Cut(m))
        /\ k < Len(Cut(m)) => Tail(todo[t]) = Rest(m, k + 1)
        /\ k = Len(Cut(m)) => Tail(todo[t]) = <<>>
  BY <1>0
<1> DEFINE r == Cut(m)[k]
           n == Len(Cut(m))
<1>3. /\ m \in Seq(Unit) /\ m # <<>> /\ IsMessage(m) /\ n \in Nat \ {0}
      /\ m[Len(m)].from = t /\ m[Len(m)].nr = sent[t]
  BY <1>0, CurrentMessage
<1>4. buf \in Seq(Unit)
  BY DEF Shaped
<1>5. buf' = Fed(buf, r).buf /\ heard' = Fed(buf, r).out
  BY <1>2, Zenon DEF WriteReport
<1>6. /\ r.last <=> k = n
      /\ k = n => r.part = SubSeq(m, (k - 1) * ChunkMax + 1, Len(m))
  BY <1>3, CutInto, Zenon
<1>7. <<t, sent[t]>> \notin dropped =>
        /\ k < n => buf' = Before(m, k + 1)
        /\ k = n => heard' = m
  BY <1>2, <1>3, <1>4, <1>5, FedInOrder, Zenon DEF Underway
<1>8. CASE k = n
  <2>1. heard' # <<>> /\ heard'[Len(heard')] = r.part[Len(r.part)]
    BY <1>2, <1>4, <1>5, <1>6, <1>8, FedTyped, Zenon
  <2>2. r.part[Len(r.part)] = m[Len(m)]
    <3>1. PICK a \in Nat : a = (k - 1) * ChunkMax
      BY <1>3, WireAssumption
    <3>2. a < Len(m)
      BY <1>3, <3>1, CutInto, Rounding
    <3>3. r.part = SubSeq(m, a + 1, Len(m))
      BY <1>6, <1>8, <3>1, Zenon
    <3> HIDE DEF r
    <3> QED
      BY <1>3, <3>1, <3>2, <3>3, EndOfPart, Zenon
  <2>3. Sender(heard') = <<t, sent[t]>>
    BY <1>3, <2>1, <2>2, Zenon DEF Sender
  <2> QED
    BY <1>1, <1>2, <1>3, <1>7, <1>8, <2>1, <2>3, Zenon
<1>9. CASE k # n
  <2>1. k < n /\ k + 1 \in 1 .. n
    BY <1>3, <1>9, NotLast, Zenon
  <2>2. heard' = <<>>
    BY <1>2, <1>4, <1>5, <1>6, <1>9, FedTyped, Zenon
  <2> QED
    BY <1>0, <1>1, <1>2, <1>7, <1>9, <2>1, <2>2, Zenon
<1> QED
  BY <1>8, <1>9

\* The same for a report that was refused: the message counts as dropped.
LEMMA Refusing ==
  ASSUME Shaped, Halfway, NEW t \in Threads, WriteRefused(t), todo'[t] # <<>>
  PROVE  \E m \in Current(t) : \E k \in 1 .. Len(Cut(m)) : todo'[t] = Rest(m, k)
<1>1. todo[t] # <<>> /\ todo'[t] = Tail(todo[t])
  BY DEF WriteRefused, Advance, Shaped
<1>0. PICK m \in Current(t) : \E k \in 1 .. Len(Cut(m)) :
        /\ k < Len(Cut(m)) => Tail(todo[t]) = Rest(m, k + 1)
        /\ k = Len(Cut(m)) => Tail(todo[t]) = <<>>
  BY <1>1, NextReport
<1>2. PICK k \in 1 .. Len(Cut(m)) :
        /\ k < Len(Cut(m)) => Tail(todo[t]) = Rest(m, k + 1)
        /\ k = Len(Cut(m)) => Tail(todo[t]) = <<>>
  BY <1>0
<1>3. Len(Cut(m)) \in Nat \ {0}
  BY <1>0, CurrentMessage
<1>4. k < Len(Cut(m)) /\ k + 1 \in 1 .. Len(Cut(m))
  <2>1. k # Len(Cut(m))
    BY <1>1, <1>2, Zenon
  <2> QED
    BY <1>3, <2>1, NotLast, Zenon
<1> QED
  BY <1>0, <1>1, <1>2, <1>4, Zenon

\* Whoever is in a message stays in it, and the buffer follows.
LEMMA HalfwayKept ==
  ASSUME OneSendLock, Shaped, Locked, Halfway, [Next]_vars
  PROVE  Halfway'
<1> SUFFICES ASSUME NEW u \in Threads, todo'[u] # <<>>
             PROVE  (\E m \in Current(u) : \E k \in 1 .. Len(Cut(m)) : Underway(u, m, k))'
  BY DEF Halfway
<1>1. ASSUME NEW t \in Threads, NEW len \in MessageLens[t], Begin(t, len)
      PROVE  (\E m \in Current(u) : \E k \in 1 .. Len(Cut(m)) : Underway(u, m, k))'
  <2>0. PICK m : m = Message(t, sent[t] + 1, len)
    OBVIOUS
  <2>1. u = t
    BY <1>1, OneAtATime DEF Begin, Shaped
  <2>2. sent'[t] = sent[t] + 1 /\ sent[t] + 1 \in Nat /\ len \in Nat \ {0}
    <3>1. sent'[t] = sent[t] + 1 /\ sent[t] + 1 \in Nat
      BY <1>1 DEF Begin, Shaped
    <3>2. len \in Nat \ {0}
      BY WireAssumption
    <3> QED
      BY <3>1, <3>2
  <2>3. m \in Seq(Unit) /\ m # <<>>
    BY <2>0, <2>2, MessageUnits
  <2>4. m \in Current(t)'
    BY <2>0, <2>2, Zenon DEF Current
  <2>5. todo'[t] = Cut(m)
    BY <1>1, <2>0 DEF Begin, Shaped
  <2>6. 1 \in 1 .. Len(Cut(m)) /\ ~(1 > 1)
    BY <2>3, CutInto
  <2>7. todo'[t] = Rest(m, 1)
    BY <2>3, <2>5, <2>6, RestShrinks, Zenon
  <2>8. Underway(t, m, 1)'
    BY <2>6, <2>7, Zenon DEF Underway
  <2> QED
    BY <2>1, <2>4, <2>6, <2>8, Zenon
<1>2. ASSUME NEW t \in Threads, WriteReport(t)
      PROVE  (\E m \in Current(u) : \E k \in 1 .. Len(Cut(m)) : Underway(u, m, k))'
  <2>1. u = t /\ UNCHANGED <<sent, dropped>>
    BY <1>2, OneAtATime DEF WriteReport, Advance, Shaped
  <2>0. PICK m \in Current(t) : \E k \in 1 .. Len(Cut(m)) :
          /\ todo'[t] = Rest(m, k)
          /\ <<t, sent[t]>> \notin dropped => buf' = Before(m, k)
    BY <1>2, <2>1, Writing
  <2>2. PICK k \in 1 .. Len(Cut(m)) :
          /\ todo'[t] = Rest(m, k)
          /\ <<t, sent[t]>> \notin dropped => buf' = Before(m, k)
    BY <2>0
  <2>3. m \in Current(t)'
    BY <2>0, <2>1, Zenon DEF Current
  <2>4. Underway(t, m, k)'
    BY <2>1, <2>2, Zenon DEF Underway
  <2> QED
    BY <2>1, <2>2, <2>3, <2>4, Zenon
<1>3. ASSUME NEW t \in Threads, WriteRefused(t)
      PROVE  (\E m \in Current(u) : \E k \in 1 .. Len(Cut(m)) : Underway(u, m, k))'
  <2>1. u = t /\ UNCHANGED sent /\ <<t, sent[t]>> \in dropped'
    BY <1>3, OneAtATime DEF WriteRefused, Advance, Shaped
  <2>0. PICK m \in Current(t) : \E k \in 1 .. Len(Cut(m)) : todo'[t] = Rest(m, k)
    BY <1>3, <2>1, Refusing
  <2>2. PICK k \in 1 .. Len(Cut(m)) : todo'[t] = Rest(m, k)
    BY <2>0
  <2>3. m \in Current(t)'
    BY <2>0, <2>1, Zenon DEF Current
  <2>4. Underway(t, m, k)'
    BY <2>1, <2>2, Zenon DEF Underway
  <2> QED
    BY <2>1, <2>2, <2>3, <2>4, Zenon
<1>4. ASSUME NEW t \in Threads, WriteFails(t)
      PROVE  FALSE
  BY <1>4, OneAtATime DEF WriteFails, Shaped
<1>5. CASE UNCHANGED vars
  <2>1. UNCHANGED <<todo, sent, buf, dropped>>
    BY <1>5 DEF vars
  <2>0. PICK m \in Current(u) : \E k \in 1 .. Len(Cut(m)) : Underway(u, m, k)
    BY <2>1, Zenon DEF Halfway
  <2>2. PICK k \in 1 .. Len(Cut(m)) : Underway(u, m, k)
    BY <2>0
  <2>3. m \in Current(u)' /\ Underway(u, m, k)'
    BY <2>0, <2>1, <2>2, Zenon DEF Current, Underway
  <2> QED
    BY <2>2, <2>3, Zenon
<1> QED
  BY <1>1, <1>2, <1>3, <1>4, <1>5 DEF Next

\* So only whole messages come out.
LEMMA WholeKept ==
  ASSUME Shaped, Halfway, OnlyWholeMessages, [Next]_vars
  PROVE  OnlyWholeMessages'
<1>1. ASSUME NEW t \in Threads, WriteReport(t)
      PROVE  OnlyWholeMessages'
  <2>1. UNCHANGED dropped
    BY <1>1 DEF WriteReport
  <2> QED
    BY <1>1, <2>1, Writing, Zenon DEF OnlyWholeMessages
<1>2. CASE heard' = heard /\ dropped \subseteq dropped'
  BY <1>2, Zenon DEF OnlyWholeMessages
<1>3. ASSUME NEW t \in Threads, NEW len \in MessageLens[t], Begin(t, len)
      PROVE  heard' = heard /\ dropped \subseteq dropped'
  BY <1>3 DEF Begin
<1>4. ASSUME NEW t \in Threads, WriteRefused(t)
      PROVE  heard' = heard /\ dropped \subseteq dropped'
  BY <1>4 DEF WriteRefused
<1>5. ASSUME NEW t \in Threads, WriteFails(t)
      PROVE  heard' = heard /\ dropped \subseteq dropped'
  BY <1>5 DEF WriteFails
<1>6. CASE UNCHANGED vars
  BY <1>2, <1>6 DEF vars
<1> QED
  BY <1>1, <1>2, <1>3, <1>4, <1>5, <1>6 DEF Next

-----------------------------------------------------------------------------
(* Theorems *)

\* At first nothing is under way.
LEMMA StartsShaped == Init => IInv
<1> SUFFICES ASSUME Init
             PROVE  IInv
  OBVIOUS
<1>1. Shaped
  BY DEF Init, Shaped
<1>2. Locked /\ Halfway /\ OnlyWholeMessages
  BY DEF Init, Locked, Halfway, OnlyWholeMessages
<1> QED
  BY <1>1, <1>2 DEF IInv

\* Whoever sends.
LEMMA ShapeHolds == Spec => []Shaped
<1>1. Init => Shaped
  BY StartsShaped DEF IInv
<1> QED
  BY <1>1, ShapeKept, PTL DEF Spec

\* With one lock for all.
LEMMA WireHolds ==
  ASSUME OneSendLock
  PROVE  Spec => []IInv
<1>1. IInv /\ [Next]_vars => IInv'
  BY ShapeKept, LockKept, HalfwayKept, WholeKept DEF IInv
<1> QED
  BY <1>1, StartsShaped, PTL DEF Spec

\* The types, in particular that no report is empty or over-full, whoever sends.
THEOREM WireTyped == Spec => []TypeOK
<1>1. ASSUME Shaped
      PROVE  TypeOK
  <2>1. ASSUME NEW t \in Threads, NEW k \in 1 .. Len(todo[t])
        PROVE  /\ todo[t][k] \in [first : BOOLEAN, last : BOOLEAN, part : Seq(Unit)]
               /\ Len(todo[t][k].part) \in 1 .. ChunkMax
    <3>1. todo[t][k] \in Report
      BY <1>1 DEF Shaped
    <3> QED
      BY <3>1, Zenon DEF Report
  <2> QED
    BY <1>1, <2>1, Zenon DEF Shaped, TypeOK
<1> QED
  BY <1>1, ShapeHolds, PTL

\* With every sender behind one _send_lock the receiver puts together whole
\* messages only, a message with a refused report excepted.
THEOREM WholeMessages ==
  ASSUME OneSendLock
  PROVE  Spec => []OnlyWholeMessages
<1>1. IInv => OnlyWholeMessages
  BY DEF IInv
<1> QED
  BY <1>1, WireHolds, PTL

\* And every message written to its end is heard, at any length and size.
THEOREM WrittenMessagesAreHeard ==
  ASSUME OneSendLock
  PROVE  Spec => WrittenIsHeard
<1>1. ASSUME IInv, [Next]_vars
      PROVE  [\A t \in Threads :
                /\ Len(todo[t]) = 1 /\ WriteReport(t)
                /\ <<t, sent[t]>> \notin dropped
                => IsMessage(heard') /\ Sender(heard') = <<t, sent[t]>>]_vars
  BY <1>1, Writing, Zenon DEF IInv
<1> QED
  BY <1>1, WireHolds, PTL DEF Spec, WrittenIsHeard
=============================================================================
