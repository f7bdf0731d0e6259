-------------------------- MODULE PresetToolsProofs -------------------------
(* The tools that edit a preset, for any grid, any calls and any threads.     *)
EXTENDS PresetTools, SequenceTheorems, WellFoundedInduction, TLAPS

-----------------------------------------------------------------------------
(* Induction over the natural numbers, as a fact about sets *)

\* Every set of natural numbers that is not empty has a least one.
LEMMA LeastNumber ==
  ASSUME NEW T \in SUBSET Nat, T # {}
  PROVE  \E n \in T : \A m \in T : n <= m
<1>1. IsWellFoundedOn(OpToRel(<, Nat), Nat)
  BY NatLessThanWellFounded
<1>2. PICK n \in T : \A m \in T : <<m, n>> \notin OpToRel(<, Nat)
  BY <1>1, WFMin
<1>3. \A m \in T : ~(m < n)
  BY <1>2 DEF OpToRel
<1> QED
  BY <1>3

\* Induction, for a set of numbers in place of a property.
LEMMA InductionOnSet ==
  ASSUME NEW T \in SUBSET Nat, 0 \in T, \A n \in T : n + 1 \in T
  PROVE  \A n \in Nat : n \in T
<1>1. SUFFICES ASSUME Nat \ T # {} PROVE FALSE
  OBVIOUS
<1>2. PICK n \in Nat \ T : \A m \in Nat \ T : n <= m
  BY <1>1, LeastNumber
<1>3. n # 0 /\ n - 1 \in Nat
  BY <1>2
<1>4. n - 1 \in T
  BY <1>2, <1>3
<1>5. (n - 1) + 1 \in T
  BY <1>4
<1> QED
  BY <1>2, <1>5

\* A function on the first numbers is a sequence of that length.
LEMMA FunctionIsSeq ==
  ASSUME NEW S, NEW n \in Nat, NEW f \in [1 .. n -> S]
  PROVE  f \in Seq(S) /\ Len(f) = n
<1>1. f \in Seq(S)
  BY SeqDef, Zenon
<1>2. DOMAIN f = 1 .. n
  OBVIOUS
<1>3. Len(f) \in Nat /\ DOMAIN f = 1 .. Len(f)
  BY <1>1, LenProperties
<1>4. Len(f) = n
  BY <1>2, <1>3
<1> QED
  BY <1>1, <1>4

-----------------------------------------------------------------------------
(* FlattenSeq *)

\* f[i] joins the first i sequences of ss.
Joins(ss, f, n) ==
  \A i \in 1 .. n : f[i] = IF i = 1 THEN ss[1] ELSE f[i - 1] \o ss[i]

\* There is such a function, up to any length.
Joinable(ss, n, S) == \E f \in [1 .. n -> Seq(S)] : Joins(ss, f, n)

\* A sequence of sequences can be joined up to any length.
LEMMA JoinExists ==
  ASSUME NEW S, NEW ss \in Seq(Seq(S)), NEW n \in Nat, n <= Len(ss)
  PROVE  Joinable(ss, n, S)
<1> DEFINE T == {k \in Nat : k <= Len(ss) => \E f \in [1 .. k -> Seq(S)] : Joins(ss, f, k)}
<1>1. 0 \in T
  <2>1. [i \in 1 .. 0 |-> <<>>] \in [1 .. 0 -> Seq(S)]
    OBVIOUS
  <2>2. Joins(ss, [i \in 1 .. 0 |-> <<>>], 0)
    BY DEF Joins
  <2> QED
    BY <2>1, <2>2
<1>2. ASSUME NEW k \in T PROVE k + 1 \in T
  <2> SUFFICES ASSUME k + 1 <= Len(ss)
               PROVE  \E g \in [1 .. k + 1 -> Seq(S)] : Joins(ss, g, k + 1)
    OBVIOUS
  <2>1. k \in Nat /\ k + 1 \in 1 .. Len(ss) /\ ss[k + 1] \in Seq(S) /\ 1 \in 1 .. Len(ss)
    BY ElementOfSeq
  <2>2. PICK f \in [1 .. k -> Seq(S)] : Joins(ss, f, k)
    BY <2>1
  <2> DEFINE g == [i \in 1 .. k + 1 |-> IF i <= k THEN f[i]
                                        ELSE IF k = 0 THEN ss[1] ELSE f[k] \o ss[k + 1]]
  <2>3. (IF k = 0 THEN ss[1] ELSE f[k] \o ss[k + 1]) \in Seq(S)
    BY <2>1, <2>2, ConcatProperties
  <2>4. g \in [1 .. k + 1 -> Seq(S)]
    BY <2>1, <2>2, <2>3
  <2>5. Joins(ss, g, k + 1)
    <3> SUFFICES ASSUME NEW i \in 1 .. k + 1
                 PROVE  g[i] = IF i = 1 THEN ss[1] ELSE g[i - 1] \o ss[i]
      BY DEF Joins
    <3>1. CASE i <= k
      <4>1. g[i] = f[i] /\ (i # 1 => g[i - 1] = f[i - 1])
        BY <3>1, <2>1
      <4>2. i \in 1 .. k
        BY <3>1, <2>1
      <4>3. f[i] = IF i = 1 THEN ss[1] ELSE f[i - 1] \o ss[i]
        BY <4>2, <2>2 DEF Joins
      <4> QED
        BY <4>1, <4>3
    <3>2. CASE i = k + 1
      <4>1. i # 1 => k # 0 /\ g[i - 1] = f[k]
        BY <3>2, <2>1
      <4>2. g[i] = IF k = 0 THEN ss[1] ELSE f[k] \o ss[k + 1]
        BY <3>2, <2>1
      <4> QED
        BY <3>2, <4>1, <4>2, <2>1
    <3> QED
      BY <3>1, <3>2, <2>1
  <2> QED
    BY <2>4, <2>5
<1> HIDE DEF T
<1>3. \A k \in Nat : k \in T
  BY <1>1, <1>2, InductionOnSet DEF T
<1> QED
  BY <1>3 DEF T, Joinable

\* Two functions have the same values up to n.
Agree(f, g, n) == \A i \in 1 .. n : f[i] = g[i]

\* It is determined by the sequences it joins.
LEMMA JoinsAgree ==
  ASSUME NEW ss, NEW tt, NEW f, NEW g, NEW n \in Nat,
         Joins(ss, f, n), Joins(tt, g, n), Agree(ss, tt, n)
  PROVE  Agree(f, g, n)
<1> DEFINE T == {k \in Nat : k \in 1 .. n => f[k] = g[k]}
<1>1. 0 \in T
  OBVIOUS
<1>2. ASSUME NEW k \in T PROVE k + 1 \in T
  <2> SUFFICES ASSUME k + 1 \in 1 .. n PROVE f[k + 1] = g[k + 1]
    OBVIOUS
  <2>1. CASE k = 0
    BY <2>1 DEF Joins, Agree
  <2>2. CASE k # 0
    <3>1. f[k] = g[k] /\ (k + 1) - 1 = k /\ k + 1 # 1
      BY <2>2
    <3> QED
      BY <3>1 DEF Joins, Agree
  <2> QED
    BY <2>1, <2>2
<1> HIDE DEF T
<1>3. \A k \in Nat : k \in T
  BY <1>1, <1>2, InductionOnSet DEF T
<1> QED
  BY <1>3 DEF T, Agree

\* FlattenSeq is what such a function comes to.
LEMMA FlattenIs ==
  ASSUME NEW S, NEW ss \in Seq(Seq(S)), ss # <<>>
  PROVE  \E f \in [1 .. Len(ss) -> Seq(S)] :
           Joins(ss, f, Len(ss)) /\ FlattenSeq(ss) = f[Len(ss)]
<1> DEFINE Body(f) == [i \in 1 .. Len(ss) |-> IF i = 1 THEN ss[i] ELSE f[i - 1] \o ss[i]]
           F == CHOOSE f : f = Body(f)
<1>1. Len(ss) \in Nat /\ Len(ss) # 0
  BY EmptySeq
<1>2. FlattenSeq(ss) = F[Len(ss)]
  BY <1>1 DEF FlattenSeq
<1>3. PICK f \in [1 .. Len(ss) -> Seq(S)] : Joins(ss, f, Len(ss))
  <2>1. Joinable(ss, Len(ss), S)
    BY <1>1, JoinExists
  <2> QED
    BY <2>1, Zenon DEF Joinable
<1>4. f = Body(f)
  BY <1>3 DEF Joins
<1>5. F = Body(F)
  BY <1>4, Zenon
<1>6. PICK G : G = F /\ G = Body(G)
  BY <1>5, Zenon
<1> HIDE DEF F
<1>7. Joins(ss, G, Len(ss))
  <2>1. \A i \in 1 .. Len(ss) : G[i] = IF i = 1 THEN ss[i] ELSE G[i - 1] \o ss[i]
    BY <1>6, Zenon
  <2>2. \A i \in 1 .. Len(ss) : G[i] = IF i = 1 THEN ss[1] ELSE G[i - 1] \o ss[i]
    BY <2>1, Zenon
  <2> QED
    BY <2>2, Zenon DEF Joins
<1>8. G[Len(ss)] = f[Len(ss)]
  <2>1. Agree(ss, ss, Len(ss))
    BY DEF Agree
  <2>2. Agree(G, f, Len(ss))
    BY <1>1, <1>3, <1>7, <2>1, JoinsAgree
  <2>3. Len(ss) \in 1 .. Len(ss)
    BY <1>1
  <2> QED
    BY <2>2, <2>3 DEF Agree
<1> QED
  BY <1>2, <1>3, <1>6, <1>8

\* Nothing joined is nothing.
LEMMA FlattenEmpty == FlattenSeq(<<>>) = <<>>
  BY EmptySeq DEF FlattenSeq

\* What is joined from sequences over a set is a sequence over it.
LEMMA FlattenTyped ==
  ASSUME NEW S, NEW ss \in Seq(Seq(S))
  PROVE  FlattenSeq(ss) \in Seq(S)
<1>1. CASE ss = <<>>
  BY <1>1, FlattenEmpty, EmptySeq
<1>2. CASE ss # <<>>
  <2>1. Len(ss) \in 1 .. Len(ss)
    BY <1>2, EmptySeq
  <2>2. PICK f \in [1 .. Len(ss) -> Seq(S)] : FlattenSeq(ss) = f[Len(ss)]
    BY <1>2, FlattenIs
  <2> QED
    BY <2>1, <2>2
<1> QED
  BY <1>1, <1>2

-----------------------------------------------------------------------------
(* What a call is made of *)

\* Reads after which a call goes on as it would have, and the reads by which a
\* tool decides what to do.
Passive == {"go on", "show"}
Decides(tool) ==
  CASE tool \in {"build_preset", "clear_grid"} -> {<<"preset", "clear">>}
    [] tool = "set_block_bypass"     -> {<<"preset", "bypass">>}
    [] tool = "assign_stomp"         -> {<<"preset", "stomp">>}
    [] tool = "load_device_preset"   -> {<<"preset", "model">>, <<"presets", "match">>}
    [] tool = "save_device_preset"   -> {<<"preset", "save">>}
    [] tool = "delete_device_preset" -> {<<"presets", "delete">>}
    [] tool = "switch_mode"          -> {<<"mode", "mode">>}
    [] tool = "load_settings_preset" ->
         {<<"presets", "match">>, <<"io", "confirm">>, <<"io", "previous">>, <<"eq", "previous">>}
    [] OTHER                         -> {}

Thens == Passive \cup {"clear", "bypass", "stomp", "model", "save", "delete", "match", "mode",
                       "confirm", "previous"}
Sends == [do : {"send"}, cmd : Commands]
Reads(tool) ==
  {r \in [do : {"read"}, cmd : Commands \cup {None}, of : Topics, then : Thens] :
     r.then \in Passive \/ <<r.of, r.then>> \in Decides(tool)}
Awaits == [do : {"await"}, cmd : {None}, of : {"scene"}, scene : Scenes, left : 1 .. Rounds]
Asks(tool) == Reads(tool) \cup Awaits
Steps(tool) == Sends \cup Asks(tool)
Pauses(tool) == {p \in [do : {"wait"}, of : Topics, for : Asks(tool)] : p.of = p.for.of}

\* Only the first step may be one that has been asked for already.
Course(tool, s) ==
  \/ s \in Seq(Steps(tool))
  \/ \E p \in Pauses(tool), rest \in Seq(Steps(tool)) : s = <<p>> \o rest

Answers == {a \in [of : Topics, is : UNION {TellsOf(t) : t \in Topics}, to : Workers \cup {None}] :
              a.is \in TellsOf(a.of)}

\* A question of w's own that is on its way.
Asked(w) == {i \in 1 .. Len(queue) : queue[i].by = w /\ queue[i].read # None}

Typed ==
  /\ unit \in Units /\ Tidy(unit)
  /\ queue \in Seq(Messages) /\ pending \in Seq(Answers)
  /\ call \in [Workers -> Calls \cup {NoCall}]
  /\ made \in [Workers -> Nat] /\ clean \in [Workers -> BOOLEAN]
  /\ todo = [w \in Workers |-> todo[w]]
  /\ \A w \in Workers : Course(call[w].tool, todo[w])
  /\ \A w \in Workers : todo[w] # <<>> \/ clean[w] => call[w] \in Calls

\* What is asked or answered for w is the one thing w waits for.
Waited(w) ==
  /\ \A i \in Asked(w) : Doing(w, "wait") /\ queue[i].read = Head(todo[w]).of
  /\ \A i \in Mine(w) : Doing(w, "wait") /\ pending[i].of = Head(todo[w]).of
  /\ \A i, j \in Asked(w) : i = j
  /\ \A i, j \in Mine(w) : i = j
  /\ Asked(w) = {} \/ Mine(w) = {}

-----------------------------------------------------------------------------
(* The way a unit goes *)

\* The unit with its switch of scenes done.
Done(u) == [u EXCEPT !.scene = u.next]

\* What a message, or a step of a call, makes of u if nobody else has a hand in
\* it: messages come when no switch is under way, and an await sees it through.
Taken(u, cmd, v) == IF cmd = None THEN v = u ELSE Settled(u) /\ v = Apply(u, cmd)
Seen(u, scene, v) == u.next = scene /\ v = Done(u)
Effect(u, m, v) ==
  \/ m \in Messages /\ Taken(u, m.cmd, v)
  \/ m \in Sends /\ Taken(u, m.cmd, v)
  \/ m \in Reads("") /\ Taken(u, m.cmd, v)
  \/ m \in Awaits /\ Seen(u, m.scene, v)
  \/ m \in Pauses("") /\ m.for \in Reads("") /\ v = u
  \/ m \in Pauses("") /\ m.for \in Awaits /\ Seen(u, m.for.scene, v)

Way(u, s, v) ==
  \E g \in [0 .. Len(s) -> Units] :
    g[0] = u /\ g[Len(s)] = v /\ \A i \in 1 .. Len(s) : Effect(g[i - 1], s[i], g[i])

\* The tools that promise something begin with a read, but for one.
Opening(c) ==
  CASE c.tool \in {"build_preset", "clear_grid"} -> Read("preset", "clear")
    [] c.tool = "set_block_bypass"   -> Read("preset", "bypass")
    [] c.tool = "assign_stomp"       -> Read("preset", "stomp")
    [] c.tool = "save_device_preset" -> Read("preset", "save")
    [] c.tool = "switch_mode"        -> Read("mode", "mode")
Waiting(step) == [do |-> "wait", of |-> step.of, for |-> step]

\* Before the read is answered: nothing has been written.
Deciding(w) ==
  LET step == Opening(call[w]) IN
  /\ call[w].tool # "set_parameter_scenes" /\ unit = before[w]
  /\ \E rest \in Seq(Steps(call[w].tool)) :
       /\ Script(call[w]) = <<step>> \o rest
       /\ todo[w] = <<step>> \o rest \/ todo[w] = <<Waiting(step)>> \o rest
  /\ \A i \in 1 .. Len(queue) : queue[i].cmd = None
  /\ \A i \in Mine(w) : pending[i].is = Told(before[w], step.of)

\* Afterwards: what is under way and what is left of the call come to the promise.
OnTheWay(w) ==
  \E x \in Units : Way(unit, queue, x) /\ Way(x, todo[w], Promised(call[w], before[w]))

\* While nobody disturbs w, its question is the last message and its answer
\* finds the unit at rest.
Alone(w) ==
  /\ \A i \in Asked(w) : i = Len(queue)
  /\ Mine(w) # {} => queue = <<>>
  /\ \A i \in Mine(w) : pending[i].of = "scene" /\ pending[i].is = unit.next => Settled(unit)
  /\ before[w] \in Units /\ Tidy(before[w]) /\ Settled(before[w])

\* Typed, and each worker waits for its own question.
Sound == Typed /\ \A w \in Workers : Waited(w)

\* What is promised to a worker will be kept.
Held(w) ==
  /\ clean[w] => Alone(w)
  /\ clean[w] /\ Promises(call[w], before[w]) => Deciding(w) \/ OnTheWay(w)

IInv == Sound /\ before = [w \in Workers |-> before[w]] /\ \A w \in Workers : Held(w)

-----------------------------------------------------------------------------
(* Sequences that are joined from parts, and sequences that grow thinner *)

\* FlattenSeq, part by part from nothing.
LEMMA FlattenFrom ==
  ASSUME NEW S, NEW ss \in Seq(Seq(S))
  PROVE  \E f \in [0 .. Len(ss) -> Seq(S)] :
           /\ f[0] = <<>> /\ f[Len(ss)] = FlattenSeq(ss)
           /\ \A k \in 1 .. Len(ss) : f[k] = f[k - 1] \o ss[k]
<1>1. PICK n \in Nat : n = Len(ss)
  BY LenProperties
<1>2. <<>> \in Seq(S)
  BY EmptySeq
<1>3. CASE ss = <<>>
  <2>1. n = 0 /\ FlattenSeq(ss) = <<>>
    BY <1>1, <1>3, FlattenEmpty, EmptySeq
  <2>2. PICK f : f = [k \in 0 .. n |-> <<>>]
    OBVIOUS
  <2>3. f \in [0 .. n -> Seq(S)] /\ f[0] = <<>>
    BY <1>2, <2>1, <2>2
  <2> QED
    BY <1>1, <2>1, <2>3
<1>4. CASE ss # <<>>
  <2>1. PICK e \in [1 .. n -> Seq(S)] : Joins(ss, e, n) /\ FlattenSeq(ss) = e[n]
    BY <1>1, <1>4, FlattenIs
  <2>2. PICK f : f = [k \in 0 .. n |-> IF k = 0 THEN <<>> ELSE e[k]]
    OBVIOUS
  <2>3. n # 0
    BY <1>1, <1>4, EmptySeq
  <2>4. f \in [0 .. n -> Seq(S)] /\ f[0] = <<>> /\ f[n] = FlattenSeq(ss)
    BY <1>2, <2>1, <2>2, <2>3
  <2>5. ASSUME NEW k \in 1 .. n PROVE f[k] = f[k - 1] \o ss[k]
    <3>1. f[k] = e[k] /\ ss[k] \in Seq(S)
      BY <1>1, <2>2, ElementOfSeq
    <3>2. CASE k = 1
      <4>1. e[k] = ss[k]
        BY <2>1, <2>5, <3>2 DEF Joins
      <4>2. f[k - 1] = <<>>
        BY <2>4, <3>2
      <4>3. <<>> \o ss[k] = ss[k]
        BY <3>1, ConcatEmptySeq
      <4> QED
        BY <3>1, <4>1, <4>2, <4>3
    <3>3. CASE k # 1
      <4>1. e[k] = e[k - 1] \o ss[k]
        BY <2>1, <2>5, <3>3 DEF Joins
      <4>2. f[k - 1] = e[k - 1]
        BY <2>2, <3>3
      <4> QED
        BY <3>1, <4>1, <4>2
    <3> QED
      BY <3>2, <3>3
  <2> QED
    BY <1>1, <2>4, <2>5
<1> QED
  BY <1>3, <1>4

\* A sequence of one.
LEMMA OneIsSeq ==
  ASSUME NEW S, NEW x \in S
  PROVE  <<x>> \in Seq(S) /\ Len(<<x>>) = 1 /\ <<x>>[1] = x
  OBVIOUS

\* q is p without some of its messages, some of them nobody's any more.
Same(b, a) == b.of = a.of /\ b.is = a.is /\ b.to \in {a.to, None}
Picks(h, q, p) ==
  /\ h \in [1 .. Len(q) -> 1 .. Len(p)]
  /\ \A i, j \in 1 .. Len(q) : h[i] = h[j] => i = j
  /\ \A i \in 1 .. Len(q) : Same(q[i], p[h[i]])
Thinned(q, p) == q \in Seq(Answers) /\ \E h : Picks(h, q, p)

\* Thinner than a thinner one is thinner.
LEMMA ThinnedTwice ==
  ASSUME NEW p \in Seq(Answers), NEW q \in Seq(Answers), NEW r, Thinned(q, p), Thinned(r, q)
  PROVE  Thinned(r, p)
<1>1. PICK l \in Nat, m \in Nat, n \in Nat : l = Len(r) /\ m = Len(q) /\ n = Len(p)
  BY LenProperties DEF Thinned
<1>2. PICK h : Picks(h, q, p)
  BY DEF Thinned
<1>3. PICK g : Picks(g, r, q)
  BY DEF Thinned
<1>4. PICK f : f = [i \in 1 .. l |-> h[g[i]]]
  OBVIOUS
<1>5. \A i \in 1 .. l : g[i] \in 1 .. m /\ f[i] = h[g[i]] /\ f[i] \in 1 .. n
  BY <1>1, <1>2, <1>3, <1>4 DEF Picks
<1>6. f \in [1 .. l -> 1 .. n]
  BY <1>4, <1>5
<1>7. \A i, j \in 1 .. l : f[i] = f[j] => i = j
  BY <1>1, <1>2, <1>3, <1>5 DEF Picks
<1>8. ASSUME NEW i \in 1 .. l PROVE Same(r[i], p[f[i]])
  <2>1. Same(r[i], q[g[i]])
    BY <1>1, <1>3 DEF Picks
  <2>2. Same(q[g[i]], p[f[i]])
    BY <1>1, <1>2, <1>5 DEF Picks
  <2> QED
    BY <2>1, <2>2 DEF Same
<1>9. Picks(f, r, p)
  BY <1>1, <1>6, <1>7, <1>8 DEF Picks
<1> QED
  BY <1>9 DEF Thinned

\* Giving up a message keeps it an answer.
LEMMA GivenUp ==
  ASSUME NEW a \in Answers
  PROVE  /\ [a EXCEPT !.to = None] \in Answers /\ Same([a EXCEPT !.to = None], a)
         /\ [a EXCEPT !.to = None].to = None /\ Same(a, a)
  BY DEF Answers, Same

\* A sequence with the same messages, some given up, is thinner.
LEMMA SameThins ==
  ASSUME NEW p \in Seq(Answers), NEW q \in Seq(Answers), Len(q) = Len(p),
         \A i \in 1 .. Len(p) : Same(q[i], p[i])
  PROVE  Thinned(q, p)
<1>1. PICK n \in Nat : n = Len(p)
  BY LenProperties
<1>2. PICK h : h = [i \in 1 .. n |-> i]
  OBVIOUS
<1>3. Picks(h, q, p)
  BY <1>1, <1>2 DEF Picks
<1> QED
  BY <1>3 DEF Thinned

\* What is nobody's from now on.
LEMMA NotForThins ==
  ASSUME NEW w, NEW p \in Seq(Answers), w # None
  PROVE  /\ Thinned(NotFor(w, p), p) /\ NotFor(w, p) \in Seq(Answers)
         /\ \A i \in 1 .. Len(NotFor(w, p)) : NotFor(w, p)[i].to # w
<1>1. PICK n \in Nat : n = Len(p)
  BY LenProperties
<1>2. PICK q : q = NotFor(w, p)
  OBVIOUS
<1>3. \A i \in 1 .. n : p[i] \in Answers
  BY <1>1, ElementOfSeq
<1>4. q = [i \in 1 .. n |-> IF p[i].to = w THEN [p[i] EXCEPT !.to = None] ELSE p[i]]
  BY <1>1, <1>2 DEF NotFor
<1>5. \A i \in 1 .. n : q[i] \in Answers /\ Same(q[i], p[i]) /\ q[i].to # w
  BY <1>3, <1>4, GivenUp
<1>6. q \in [1 .. n -> Answers]
  BY <1>4, <1>5
<1>7. q \in Seq(Answers) /\ Len(q) = n
  BY <1>6, FunctionIsSeq
<1> QED
  BY <1>1, <1>2, <1>5, <1>7, SameThins

\* One message given up.
LEMMA GiveUpThins ==
  ASSUME NEW p \in Seq(Answers), NEW i \in 1 .. Len(p)
  PROVE  /\ Thinned([p EXCEPT ![i].to = None], p) /\ [p EXCEPT ![i].to = None] \in Seq(Answers)
         /\ Len([p EXCEPT ![i].to = None]) = Len(p)
         /\ [p EXCEPT ![i].to = None][i].to = None
         /\ \A j \in 1 .. Len(p) : j # i => [p EXCEPT ![i].to = None][j] = p[j]
<1>1. PICK a : a = [p[i] EXCEPT !.to = None]
  OBVIOUS
<1>2. p[i] \in Answers
  BY ElementOfSeq
<1>3. a \in Answers /\ Same(a, p[i]) /\ a.to = None
  BY <1>1, <1>2, GivenUp
<1>4. PICK q : q = [p EXCEPT ![i] = a]
  OBVIOUS
<1>5. q \in Seq(Answers) /\ Len(q) = Len(p) /\ \A j \in 1 .. Len(p) : q[j] = IF j = i THEN a ELSE p[j]
  BY <1>3, <1>4, ExceptSeq
<1>6. \A j \in 1 .. Len(p) : Same(q[j], p[j])
  BY <1>3, <1>5, ElementOfSeq, GivenUp
<1>7. Thinned(q, p)
  BY <1>5, <1>6, SameThins
<1>8. q = [p EXCEPT ![i].to = None]
  BY <1>1, <1>4
<1> QED
  BY <1>3, <1>5, <1>7, <1>8

\* One message taken away.
LEMMA RemoveThins ==
  ASSUME NEW p \in Seq(Answers), NEW i \in 1 .. Len(p)
  PROVE  /\ Thinned(RemoveAt(p, i), p) /\ RemoveAt(p, i) \in Seq(Answers)
         /\ \A j \in 1 .. Len(RemoveAt(p, i)) :
              \E k \in 1 .. Len(p) : k # i /\ RemoveAt(p, i)[j] = p[k]
<1>1. PICK n \in Nat, a \in Nat, b \in Nat : n = Len(p) /\ a = i - 1 /\ b = i + 1
  BY LenProperties
<1>2. PICK s, t, q : s = SubSeq(p, 1, a) /\ t = SubSeq(p, b, n) /\ q = RemoveAt(p, i)
  OBVIOUS
<1>3. \A j \in 1 .. n : p[j] \in Answers
  BY <1>1, ElementOfSeq
<1>4. s \in Seq(Answers) /\ Len(s) = a /\ \A j \in 1 .. a : s[j] = p[j]
  <2>1. \A j \in 1 .. a : p[j] \in Answers
    BY <1>1, <1>3
  <2> QED
    BY <1>1, <1>2, <2>1, SubSeqProperties
<1>5. t \in Seq(Answers) /\ Len(t) = n - i /\ \A j \in 1 .. n - i : t[j] = p[i + j]
  <2>1. \A j \in b .. n : p[j] \in Answers
    BY <1>1, <1>3
  <2>2. /\ t \in Seq(Answers) /\ Len(t) = IF b <= n THEN n - b + 1 ELSE 0
        /\ \A j \in 1 .. n - b + 1 : t[j] = p[b + j - 1]
    BY <1>1, <1>2, <2>1, SubSeqProperties
  <2> QED
    BY <1>1, <2>2
<1>6. q = s \o t
  BY <1>1, <1>2 DEF RemoveAt
<1>7. /\ q \in Seq(Answers) /\ Len(q) = n - 1
      /\ \A j \in 1 .. n - 1 : q[j] = IF j <= a THEN s[j] ELSE t[j - a]
  <2>1. /\ q \in Seq(Answers) /\ Len(q) = Len(s) + Len(t)
        /\ \A j \in 1 .. Len(s) + Len(t) : q[j] = IF j <= Len(s) THEN s[j] ELSE t[j - Len(s)]
    BY <1>4, <1>5, <1>6, ConcatProperties
  <2>2. Len(s) = a /\ Len(t) = n - i /\ a + (n - i) = n - 1
    BY <1>1, <1>4, <1>5
  <2> QED
    BY <2>1, <2>2
<1>8. PICK h : h = [j \in 1 .. n - 1 |-> IF j < i THEN j ELSE j + 1]
  OBVIOUS
<1>9. \A j \in 1 .. n - 1 : h[j] \in 1 .. n /\ h[j] # i /\ q[j] = p[h[j]]
  <2> TAKE j \in 1 .. n - 1
  <2>1. CASE j < i
    BY <1>1, <1>4, <1>7, <1>8, <2>1
  <2>2. CASE ~(j < i)
    <3>1. PICK k \in Nat : k = j - a
      BY <1>1, <2>2
    <3>2. k \in 1 .. n - i /\ q[j] = t[k] /\ i + k = j + 1
      BY <1>1, <1>7, <2>2, <3>1
    <3>3. t[k] = p[j + 1]
      BY <1>5, <3>2
    <3> QED
      BY <1>1, <1>8, <2>2, <3>2, <3>3
  <2> QED
    BY <2>1, <2>2
<1>10. Picks(h, q, p)
  <2>1. h \in [1 .. n - 1 -> 1 .. n]
    BY <1>8, <1>9
  <2>2. \A j, k \in 1 .. n - 1 : h[j] = h[k] => j = k
    BY <1>1, <1>8
  <2>3. \A j \in 1 .. n - 1 : Same(q[j], p[h[j]])
    BY <1>3, <1>9, GivenUp
  <2> QED
    BY <1>1, <1>7, <2>1, <2>2, <2>3 DEF Picks
<1> QED
  BY <1>1, <1>2, <1>7, <1>9, <1>10 DEF Thinned

\* s is made of some of the first k messages of p.
Places(h, s, p, k) ==
  /\ h \in [1 .. Len(s) -> 1 .. k]
  /\ \A i, j \in 1 .. Len(s) : h[i] = h[j] => i = j
  /\ \A i \in 1 .. Len(s) : s[i] = p[h[i]]

\* The next of them is one more.
LEMMA PlacesMore ==
  ASSUME NEW p \in Seq(Answers), NEW s \in Seq(Answers), NEW k \in Nat, Len(p) \in Nat, k < Len(p),
         NEW h, Places(h, s, p, k)
  PROVE  \E g : Places(g, s \o <<p[k + 1]>>, p, k + 1)
<1>1. PICK l \in Nat : l = Len(s)
  BY LenProperties
<1>2. PICK m \in Nat : m = k + 1
  OBVIOUS
<1>3. p[m] \in Answers
  <2>1. m \in 1 .. Len(p)
    BY <1>2
  <2> QED
    BY <2>1, ElementOfSeq
<1>4. PICK c : c = <<p[m]>>
  OBVIOUS
<1>5. c \in Seq(Answers) /\ Len(c) = 1 /\ c[1] = p[m]
  BY <1>3, <1>4, OneIsSeq
<1>6. PICK b : b = s \o c
  OBVIOUS
<1>7. /\ Len(b) = l + 1
      /\ \A i \in 1 .. l + 1 : b[i] = IF i <= l THEN s[i] ELSE c[i - l]
  <2>1. /\ Len(s \o c) = Len(s) + Len(c)
        /\ \A i \in 1 .. Len(s) + Len(c) : (s \o c)[i] = IF i <= Len(s) THEN s[i] ELSE c[i - Len(s)]
    BY <1>5, ConcatProperties
  <2> QED
    BY <1>1, <1>5, <1>6, <2>1
<1>8. PICK g : g = [i \in 1 .. l + 1 |-> IF i <= l THEN h[i] ELSE m]
  OBVIOUS
<1>9. \A i \in 1 .. l + 1 : i \in 1 .. l \/ i = l + 1
  OBVIOUS
<1>10. b[l + 1] = p[m] /\ g[l + 1] = m
  BY <1>5, <1>7, <1>8
<1>11. \A i \in 1 .. l : b[i] = s[i] /\ g[i] = h[i] /\ g[i] \in 1 .. k /\ s[i] = p[h[i]]
  BY <1>1, <1>7, <1>8 DEF Places
<1>12. \A i \in 1 .. l + 1 : g[i] \in 1 .. m
  BY <1>2, <1>9, <1>10, <1>11
<1>13. \A i, j \in 1 .. l + 1 : g[i] = g[j] => i = j
  <2> TAKE i, j \in 1 .. l + 1
  <2>1. CASE i \in 1 .. l /\ j \in 1 .. l
    BY <1>1, <1>11, <2>1 DEF Places
  <2>2. CASE i = l + 1 \/ j = l + 1
    BY <1>2, <1>9, <1>10, <1>11, <2>2
  <2> QED
    BY <1>9, <2>1, <2>2
<1>14. \A i \in 1 .. l + 1 : b[i] = p[g[i]]
  BY <1>9, <1>10, <1>11
<1>15. g \in [1 .. l + 1 -> 1 .. m]
  BY <1>8, <1>12
<1>16. Places(g, b, p, m)
  BY <1>7, <1>13, <1>14, <1>15 DEF Places
<1> QED
  BY <1>2, <1>4, <1>6, <1>16

\* Everything of one kind taken away.
LEMMA WithoutThins ==
  ASSUME NEW p \in Seq(Answers), NEW of
  PROVE  Thinned(Without(p, of), p) /\ Without(p, of) \in Seq(Answers)
<1>1. PICK n \in Nat : n = Len(p)
  BY LenProperties
<1>2. PICK ss : ss = [i \in 1 .. n |-> IF p[i].of = of THEN <<>> ELSE <<p[i]>>]
  OBVIOUS
<1>3. \A i \in 1 .. n : p[i] \in Answers
  BY <1>1, ElementOfSeq
<1>4. <<>> \in Seq(Answers) /\ Len(<<>>) = 0
  BY EmptySeq
<1>5. \A i \in 1 .. n : <<p[i]>> \in Seq(Answers) /\ Len(<<p[i]>>) = 1 /\ <<p[i]>>[1] = p[i]
  BY <1>3, OneIsSeq
<1>6. ss \in [1 .. n -> Seq(Answers)]
  BY <1>2, <1>4, <1>5
<1>7. ss \in Seq(Seq(Answers)) /\ Len(ss) = n
  BY <1>6, FunctionIsSeq
<1>8. PICK q : q = Without(p, of) /\ q = FlattenSeq(ss)
  BY <1>1, <1>2 DEF Without
<1>9. PICK f \in [0 .. n -> Seq(Answers)] :
        f[0] = <<>> /\ f[n] = q /\ \A k \in 1 .. n : f[k] = f[k - 1] \o ss[k]
  <2>1. \E f \in [0 .. Len(ss) -> Seq(Answers)] :
          /\ f[0] = <<>> /\ f[Len(ss)] = FlattenSeq(ss)
          /\ \A k \in 1 .. Len(ss) : f[k] = f[k - 1] \o ss[k]
    BY <1>7, FlattenFrom
  <2> QED
    BY <1>7, <1>8, <2>1, Zenon
<1> DEFINE T == {k \in Nat : k \in 0 .. n => \E h : Places(h, f[k], p, k)}
<1>10. 0 \in T
  <2>1. PICK h : h = [i \in 1 .. 0 |-> 0]
    OBVIOUS
  <2>2. Places(h, f[0], p, 0)
    BY <1>4, <1>9, <2>1 DEF Places
  <2> QED
    BY <2>2
<1>11. ASSUME NEW k \in T PROVE k + 1 \in T
  <2>1. PICK m \in Nat : m = k + 1
    OBVIOUS
  <2>2. SUFFICES ASSUME m \in 0 .. n PROVE \E h : Places(h, f[m], p, m)
    BY <2>1
  <2>3. m \in 1 .. n /\ k \in 0 .. n /\ k \in Nat /\ m - 1 = k
    BY <2>1, <2>2
  <2>4. PICK h : Places(h, f[k], p, k)
    BY <2>3
  <2>5. PICK a, b : a = f[k] /\ b = f[m] /\ a \in Seq(Answers) /\ b = a \o ss[m]
    BY <1>9, <2>3
  <2>6. CASE p[m].of = of
    <3>1. ss[m] = <<>>
      BY <1>2, <2>3, <2>6
    <3>2. b = a
      BY <2>5, <3>1, ConcatEmptySeq
    <3>3. Places(h, a, p, m)
      BY <2>1, <2>3, <2>4, <2>5 DEF Places
    <3> QED
      BY <2>5, <3>2, <3>3
  <2>7. CASE p[m].of # of
    <3>1. ss[m] = <<p[m]>>
      BY <1>2, <2>3, <2>7
    <3>2. Len(p) \in Nat /\ k < Len(p) /\ p[k + 1] = p[m]
      BY <1>1, <2>1, <2>3
    <3>3. Places(h, a, p, k)
      BY <2>4, <2>5
    <3>4. \E g : Places(g, a \o <<p[k + 1]>>, p, k + 1)
      BY <2>3, <2>5, <3>2, <3>3, PlacesMore
    <3> QED
      BY <2>1, <2>5, <3>1, <3>4
  <2> QED
    BY <2>6, <2>7
<1>12. n \in T
  <2>1. T \in SUBSET Nat /\ \A k \in T : k + 1 \in T
    BY <1>11
  <2> HIDE DEF T
  <2> QED
    BY <1>10, <2>1, InductionOnSet
<1>13. PICK h : Places(h, q, p, n)
  <2>1. n \in 0 .. n
    OBVIOUS
  <2> QED
    BY <1>9, <1>12, <2>1
<1>14. q \in Seq(Answers)
  BY <1>9
<1>15. Picks(h, q, p)
  <2>1. \A i \in 1 .. Len(q) : Same(q[i], p[h[i]])
    <3> TAKE i \in 1 .. Len(q)
    <3>1. q[i] = p[h[i]] /\ h[i] \in 1 .. n
      BY <1>13 DEF Places
    <3>2. p[h[i]] \in Answers
      BY <1>3, <3>1
    <3> QED
      BY <3>1, <3>2, GivenUp
  <2> QED
    BY <1>1, <1>13, <2>1 DEF Places, Picks
<1> QED
  BY <1>8, <1>14, <1>15 DEF Thinned

\* The messages of p for w.
For(p, w) == {i \in 1 .. Len(p) : p[i].to = w}

\* What w finds in a thinner sequence it would have found before.
LEMMA ThinnedFor ==
  ASSUME NEW p \in Seq(Answers), NEW q, Thinned(q, p), NEW w, w # None
  PROVE  /\ \A i \in For(q, w) : \E j \in For(p, w) : q[i].of = p[j].of /\ q[i].is = p[j].is
         /\ (\A i, j \in For(p, w) : i = j) => (\A i, j \in For(q, w) : i = j)
<1>1. PICK h : Picks(h, q, p)
  BY DEF Thinned
<1>2. \A i \in For(q, w) : h[i] \in For(p, w) /\ q[i].of = p[h[i]].of /\ q[i].is = p[h[i]].is
  BY <1>1 DEF For, Picks, Same
<1>3. \A i, j \in For(q, w) : h[i] = h[j] => i = j
  BY <1>1 DEF For, Picks
<1> QED
  BY <1>2, <1>3

\* An answer is one of the kinds there are.
LEMMA AnswerTyped ==
  ASSUME NEW of \in Topics, NEW x \in TellsOf(of), NEW to \in Workers \cup {None}
  PROVE  [of |-> of, is |-> x, to |-> to] \in Answers
<1>1. x \in UNION {TellsOf(t) : t \in Topics}
  OBVIOUS
<1> QED
  BY <1>1 DEF Answers


-----------------------------------------------------------------------------
(* What messages make of a unit *)

\* A unit with the blocks, the values and the assignments of a tidy one is tidy.
LEMMA TidyAlike ==
  ASSUME NEW u, Tidy(u), NEW v, v.blocks = u.blocks, v.value = u.value,
         v.scened = u.scened, v.expr = u.expr
  PROVE  Tidy(v)
  BY DEF Tidy

\* A fresh block has a value in every scene.
LEMMA FreshTyped == Fresh \in [Params -> [Scenes -> Values]]
  BY UnitAssumption DEF Fresh, UnitAssumption

\* A new block, or none, is typed and tidy.
LEMMA ClearedTyped ==
  ASSUME NEW u \in Units, Tidy(u), NEW cell \in Cells, NEW device \in Devices \cup {None}
  PROVE  Cleared(u, cell, device) \in Units /\ Tidy(Cleared(u, cell, device))
<1>1. PICK b, l, s, e :
        /\ b = [u.blocks EXCEPT ![cell] = device] /\ l = [u.value EXCEPT ![cell] = Fresh]
        /\ s = {x \in u.scened : x[1] # cell} /\ e = {x \in u.expr : x[1] # cell}
  OBVIOUS
<1>2. PICK v : v = Cleared(u, cell, device)
  OBVIOUS
<1>3. v = [u EXCEPT !.blocks = b, !.value = l, !.scened = s, !.expr = e]
  BY <1>1, <1>2 DEF Cleared, Units
<1>4. b \in Blocks /\ l \in [Cells -> [Params -> [Scenes -> Values]]]
  BY <1>1, FreshTyped DEF Units, Blocks
<1>5. v \in Units
  <2>1. s \in SUBSET (Cells \X Params) /\ e \in SUBSET (Cells \X Params)
    BY <1>1 DEF Units
  <2>2. PICK y : y = [u EXCEPT !.blocks = b, !.value = l]
    OBVIOUS
  <2>3. y \in Units
    BY <1>4, <2>2, ZenonT(60) DEF Units
  <2>4. v = [y EXCEPT !.scened = s, !.expr = e]
    BY <1>3, <2>2
  <2> QED
    BY <2>1, <2>3, <2>4, ZenonT(60) DEF Units
<1>6. v.blocks = b /\ v.value = l /\ v.scened = s /\ v.expr = e
  BY <1>3 DEF Units
<1>7. ASSUME NEW c \in Cells, b[c] = None
      PROVE  l[c] = Fresh /\ \A x \in s \cup e : x[1] # c
  <2>1. CASE c = cell
    BY <1>1, <2>1 DEF Units
  <2>2. CASE c # cell
    BY <1>1, <1>7, <2>2 DEF Tidy, Units, Blocks
  <2> QED
    BY <2>1, <2>2
<1> QED
  BY <1>2, <1>5, <1>6, <1>7 DEF Tidy

\* What a plain write leaves behind.
LEMMA WrittenTyped ==
  ASSUME NEW u \in Units, Tidy(u), NEW cell \in Cells, u.blocks[cell] # None,
         NEW p \in Params, NEW x \in Values
  PROVE  Written(u, cell, p, x) \in Units /\ Tidy(Written(u, cell, p, x))
<1>1. PICK m : m = [s \in Scenes |-> IF <<cell, p>> \in u.scened /\ s # u.scene
                                     THEN u.value[cell][p][s] ELSE x]
  OBVIOUS
<1>2. PICK l : l = [u.value EXCEPT ![cell] = [u.value[cell] EXCEPT ![p] = m]]
  OBVIOUS
<1>3. PICK v : v = Written(u, cell, p, x)
  OBVIOUS
<1>4. v = [u EXCEPT !.value = l]
  BY <1>1, <1>2, <1>3 DEF Written, Units
<1>5. m \in [Scenes -> Values]
  BY <1>1 DEF Units
<1>6. l \in [Cells -> [Params -> [Scenes -> Values]]]
  BY <1>2, <1>5 DEF Units
<1>7. v \in Units /\ v.value = l /\ v.blocks = u.blocks /\ v.scened = u.scened /\ v.expr = u.expr
  BY <1>4, <1>6, ZenonT(60) DEF Units
<1>8. \A c \in Cells : c # cell => l[c] = u.value[c]
  BY <1>2 DEF Units
<1> QED
  BY <1>3, <1>7, <1>8 DEF Tidy

\* Settings loaded into a block.
LEMMA LoadedTyped ==
  ASSUME NEW u \in Units, Tidy(u), NEW cell \in Cells, u.blocks[cell] # None,
         NEW f \in [Params -> [Scenes -> Values]]
  PROVE  [u EXCEPT !.value[cell] = f] \in Units /\ Tidy([u EXCEPT !.value[cell] = f])
<1>1. PICK l : l = [u.value EXCEPT ![cell] = f]
  OBVIOUS
<1>2. PICK v : v = [u EXCEPT !.value[cell] = f]
  OBVIOUS
<1>3. v = [u EXCEPT !.value = l]
  BY <1>1, <1>2 DEF Units
<1>4. l \in [Cells -> [Params -> [Scenes -> Values]]]
  BY <1>1 DEF Units
<1>5. v \in Units /\ v.value = l /\ v.blocks = u.blocks /\ v.scened = u.scened /\ v.expr = u.expr
  BY <1>3, <1>4, ZenonT(60) DEF Units
<1>6. \A c \in Cells : c # cell => l[c] = u.value[c]
  BY <1>1 DEF Units
<1> QED
  BY <1>2, <1>5, <1>6 DEF Tidy

\* A parameter assigned to scenes or to a pedal, or no more.
LEMMA AssignedTyped ==
  ASSUME NEW u \in Units, Tidy(u), NEW cell \in Cells, u.blocks[cell] # None, NEW p \in Params
  PROVE  /\ [u EXCEPT !.scened = @ \cup {<<cell, p>>}] \in Units
         /\ Tidy([u EXCEPT !.scened = @ \cup {<<cell, p>>}])
         /\ [u EXCEPT !.expr = @ \cup {<<cell, p>>}] \in Units
         /\ Tidy([u EXCEPT !.expr = @ \cup {<<cell, p>>}])
         /\ [u EXCEPT !.expr = @ \ {<<cell, p>>}] \in Units
         /\ Tidy([u EXCEPT !.expr = @ \ {<<cell, p>>}])
<1>1. PICK s, e, d : s = u.scened \cup {<<cell, p>>} /\ e = u.expr \cup {<<cell, p>>}
                     /\ d = u.expr \ {<<cell, p>>}
  OBVIOUS
<1>2. PICK x : x = <<cell, p>> /\ x[1] = cell /\ x \in Cells \X Params
  <2>1. <<cell, p>>[1] = cell /\ <<cell, p>> \in Cells \X Params
    OBVIOUS
  <2> QED
    BY <2>1
<1>3. s \in SUBSET (Cells \X Params) /\ e \in SUBSET (Cells \X Params)
      /\ d \in SUBSET (Cells \X Params)
  BY <1>1, <1>2 DEF Units
<1>4. PICK a, b, c : a = [u EXCEPT !.scened = s] /\ b = [u EXCEPT !.expr = e]
                     /\ c = [u EXCEPT !.expr = d]
  OBVIOUS
<1>5. a \in Units /\ b \in Units /\ c \in Units
  BY <1>3, <1>4, ZenonT(60) DEF Units
<1>6. /\ a.blocks = u.blocks /\ a.value = u.value /\ a.scened = s /\ a.expr = u.expr
      /\ b.blocks = u.blocks /\ b.value = u.value /\ b.scened = u.scened /\ b.expr = e
      /\ c.blocks = u.blocks /\ c.value = u.value /\ c.scened = u.scened /\ c.expr = d
  BY <1>4 DEF Units
<1>7. \A y \in s \cup e : y \in u.scened \cup u.expr \/ y[1] = cell
  BY <1>1, <1>2
<1>8. \A y \in d : y \in u.expr
  BY <1>1
<1>9. Tidy(a) /\ Tidy(b) /\ Tidy(c)
  BY <1>6, <1>7, <1>8 DEF Tidy
<1> QED
  BY <1>1, <1>4, <1>5, <1>9

\* What a message makes of a unit is a unit.
LEMMA ApplyTyped ==
  ASSUME NEW u \in Units, Tidy(u), NEW c \in Commands
  PROVE  Apply(u, c) \in Units /\ Tidy(Apply(u, c))
<1>0. PICK v : v = Apply(u, c)
  OBVIOUS
<1> SUFFICES v \in Units /\ Tidy(v)
  BY <1>0
<1>1. CASE c \in [op : {"block"}, cell : Cells, device : Devices]
  <2>1. v = Cleared(u, c.cell, c.device)
    BY <1>0, <1>1 DEF Apply
  <2> QED
    BY <1>1, <2>1, ClearedTyped
<1>2. CASE c \in [op : {"delete"}, cell : Cells]
  <2>1. v = Cleared(u, c.cell, None)
    BY <1>0, <1>2 DEF Apply
  <2> QED
    BY <1>2, <2>1, ClearedTyped
<1>3. CASE c \in [op : {"route"}, row : Rows, in : Nat \cup {None}, out : Nat \cup {None}]
  <2>1. PICK x : x = [in  |-> IF c.in = None THEN u.route[c.row].in ELSE c.in,
                      out |-> IF c.out = None THEN u.route[c.row].out ELSE c.out]
    OBVIOUS
  <2>2. v = [u EXCEPT !.route = [u.route EXCEPT ![c.row] = x]]
    BY <1>0, <1>3, <2>1 DEF Apply
  <2>3. x \in Ports
    BY <1>3, <2>1 DEF Units, Ports
  <2>4. PICK r : r = [u.route EXCEPT ![c.row] = x]
    OBVIOUS
  <2>5. r \in [Rows -> Ports]
    BY <2>3, <2>4 DEF Units
  <2>6. v \in Units
    BY <2>2, <2>4, <2>5, ZenonT(60) DEF Units
  <2> QED
    BY <2>2, <2>6, TidyAlike DEF Units
<1>4. CASE c \in [op : {"split"}, row : Rows, points : Points \cup {None}]
  <2>1. v = [u EXCEPT !.split = [u.split EXCEPT ![c.row] = c.points]]
    BY <1>0, <1>4 DEF Apply
  <2>2. [u.split EXCEPT ![c.row] = c.points] \in [Rows -> Points \cup {None}]
    BY <1>4 DEF Units
  <2>3. v \in Units
    BY <2>1, <2>2, ZenonT(60) DEF Units
  <2> QED
    BY <2>1, <2>3, TidyAlike DEF Units
<1>5. CASE c \in [op : {"param"}, cell : Cells, param : Params, value : Values]
  <2>1. v = OnBlock(u, c, Written(u, c.cell, c.param, c.value))
    BY <1>0, <1>5 DEF Apply
  <2> QED
    BY <1>5, <2>1, WrittenTyped DEF OnBlock
<1>6. CASE c \in [op : {"assign"}, cell : Cells, param : Params]
  <2>1. v = OnBlock(u, c, [u EXCEPT !.scened = @ \cup {<<c.cell, c.param>>}])
    BY <1>0, <1>6 DEF Apply
  <2> QED
    BY <1>6, <2>1, AssignedTyped DEF OnBlock
<1>7. CASE c \in [op : {"bypass"}, cell : Cells, value : Values]
  <2>1. v = IF u.blocks[c.cell] = None THEN u
            ELSE Written(u, c.cell, ParamCount[u.blocks[c.cell]], c.value)
    BY <1>0, <1>7 DEF Apply
  <2>2. u.blocks[c.cell] # None => ParamCount[u.blocks[c.cell]] \in Params
    BY <1>7, UnitAssumption DEF Units, Blocks, Params, UnitAssumption
  <2> QED
    BY <1>7, <2>1, <2>2, WrittenTyped
<1>8. CASE c \in [op : {"expr"}, cell : Cells, param : Params, pedal : Nat]
  <2>1. v = OnBlock(u, c, [u EXCEPT !.expr = IF c.pedal = 0 THEN @ \ {<<c.cell, c.param>>}
                                             ELSE @ \cup {<<c.cell, c.param>>}])
    BY <1>0, <1>8 DEF Apply
  <2>2. \/ v = u
        \/ u.blocks[c.cell] # None /\ v = [u EXCEPT !.expr = @ \ {<<c.cell, c.param>>}]
        \/ u.blocks[c.cell] # None /\ v = [u EXCEPT !.expr = @ \cup {<<c.cell, c.param>>}]
    BY <2>1 DEF OnBlock
  <2>3. c.cell \in Cells /\ c.param \in Params
    BY <1>8
  <2>4. CASE v = u
    BY <2>4
  <2>5. CASE u.blocks[c.cell] # None /\ v = [u EXCEPT !.expr = @ \ {<<c.cell, c.param>>}]
    BY <2>3, <2>5, AssignedTyped
  <2>6. CASE u.blocks[c.cell] # None /\ v = [u EXCEPT !.expr = @ \cup {<<c.cell, c.param>>}]
    BY <2>3, <2>6, AssignedTyped
  <2> QED
    BY <2>2, <2>4, <2>5, <2>6
<1>9. CASE c \in [op : {"model"}, cell : Cells, device : Devices, value : Values]
  <2>1. PICK f : f = [p \in Params |-> IF p < ParamCount[c.device]
                                       THEN [s \in Scenes |-> c.value] ELSE u.value[c.cell][p]]
    OBVIOUS
  <2>2. v = IF u.blocks[c.cell] # c.device THEN u ELSE [u EXCEPT !.value[c.cell] = f]
    BY <1>0, <1>9, <2>1 DEF Apply, Units
  <2>3. f \in [Params -> [Scenes -> Values]]
    BY <1>9, <2>1 DEF Units
  <2>4. u.blocks[c.cell] = c.device => u.blocks[c.cell] # None
    BY <1>9, UnitAssumption DEF UnitAssumption
  <2> QED
    BY <1>9, <2>2, <2>3, <2>4, LoadedTyped
<1>10. CASE c \in [op : {"lane"}, row : Rows, field : Fields, value : Values]
  <2>1. PICK l : l = [u.lane EXCEPT ![c.field] = [u.lane[c.field] EXCEPT ![c.row] = c.value]]
    OBVIOUS
  <2>2. v = [u EXCEPT !.lane = l]
    BY <1>0, <1>10, <2>1 DEF Apply, Units
  <2>3. l \in [Fields -> [Rows -> Values]]
    BY <1>10, <2>1 DEF Units
  <2>4. v \in Units
    BY <2>2, <2>3, ZenonT(60) DEF Units
  <2> QED
    BY <2>2, <2>4, TidyAlike DEF Units
<1>11. CASE c \in [op : {"scene"}, scene : Scenes]
  <2>1. v = [u EXCEPT !.next = c.scene]
    BY <1>0, <1>11 DEF Apply
  <2>2. v \in Units
    BY <1>11, <2>1, ZenonT(60) DEF Units
  <2> QED
    BY <2>1, <2>2, TidyAlike DEF Units
<1>12. CASE c \in [op : {"label"}, scene : Scenes, label : Names]
  <2>1. v = [u EXCEPT !.label = [u.label EXCEPT ![c.scene] = c.label]]
    BY <1>0, <1>12 DEF Apply
  <2>2. [u.label EXCEPT ![c.scene] = c.label] \in [Scenes -> Names \cup {None}]
    BY <1>12 DEF Units
  <2>3. v \in Units
    BY <2>1, <2>2, ZenonT(60) DEF Units
  <2> QED
    BY <2>1, <2>3, TidyAlike DEF Units
<1>13. CASE c \in [op : {"stomp"}, cell : Cells, switch : Switches, kind : Kinds]
  <2>1. PICK f : f = [w \in Switches |-> IF w = c.switch THEN <<c.cell, c.kind>>
                                         ELSE IF u.stomp[w] = <<c.cell, c.kind>> THEN None
                                         ELSE u.stomp[w]]
    OBVIOUS
  <2>2. v = [u EXCEPT !.stomp = f, !.momentary = u.momentary \ {c.switch}]
    BY <1>0, <1>13, <2>1 DEF Apply, Bound, Units
  <2>3. f \in [Switches -> (Cells \X Kinds) \cup {None}]
    BY <1>13, <2>1 DEF Units
  <2>4. v \in Units
    BY <2>2, <2>3, ZenonT(60) DEF Units
  <2> QED
    BY <2>2, <2>4, TidyAlike DEF Units
<1>14. CASE c \in [op : {"momentary"}, switch : Switches, on : BOOLEAN]
  <2>1. PICK m : m = IF c.on THEN u.momentary \cup {c.switch} ELSE u.momentary \ {c.switch}
    OBVIOUS
  <2>2. m \in SUBSET Switches
    BY <1>14, <2>1 DEF Units
  <2>3. v = [u EXCEPT !.momentary = m]
    BY <1>0, <1>14, <2>1 DEF Apply
  <2>4. v \in Units
    BY <2>2, <2>3, ZenonT(60) DEF Units
  <2> QED
    BY <2>3, <2>4, TidyAlike DEF Units
<1>15. CASE c \in [op : {"unstomp"}, cell : Cells, switch : Switches]
  <2>1. \/ v = u
        \/ v = [u EXCEPT !.stomp = [u.stomp EXCEPT ![c.switch] = None],
                         !.momentary = u.momentary \ {c.switch}]
    BY <1>0, <1>15 DEF Apply, Unbound
  <2>2. [u.stomp EXCEPT ![c.switch] = None] \in [Switches -> (Cells \X Kinds) \cup {None}]
    BY <1>15 DEF Units
  <2>3. u.momentary \ {c.switch} \in SUBSET Switches
    BY DEF Units
  <2>4. CASE v = u
    BY <2>4
  <2>5. CASE v # u
    <3>1. v = [u EXCEPT !.stomp = [u.stomp EXCEPT ![c.switch] = None],
                        !.momentary = u.momentary \ {c.switch}]
      BY <2>1, <2>5
    <3>2. v \in Units
      BY <2>2, <2>3, <3>1, ZenonT(60) DEF Units
    <3> QED
      BY <3>1, <3>2, TidyAlike DEF Units
  <2> QED
    BY <2>4, <2>5
<1>16. CASE c \in [op : {"mode"}, mode : Modes]
  <2>1. v = [u EXCEPT !.mode = c.mode]
    BY <1>0, <1>16 DEF Apply
  <2>2. v \in Units
    BY <1>16, <2>1, ZenonT(60) DEF Units
  <2> QED
    BY <2>1, <2>2, TidyAlike DEF Units
<1>17. CASE c \in [op : {"cycle"}, modes : SUBSET Modes]
  <2>1. v = [u EXCEPT !.cycle = c.modes, !.mode = IF u.mode \in c.modes THEN u.mode ELSE 0]
    BY <1>0, <1>17 DEF Apply
  <2>2. v \in Units
    <3>1. PICK m : m = IF u.mode \in c.modes THEN u.mode ELSE 0
      OBVIOUS
    <3>2. m \in Modes /\ c.modes \in SUBSET Modes
      BY <1>17, <3>1, UnitAssumption DEF Units, UnitAssumption
    <3>3. v = [u EXCEPT !.cycle = c.modes, !.mode = m]
      BY <2>1, <3>1
    <3> QED
      BY <3>2, <3>3, ZenonT(60) DEF Units
  <2> QED
    BY <2>1, <2>2, TidyAlike DEF Units
<1>18. CASE c \in [op : {"select"}, cell : Cells]
  <2>1. v = [u EXCEPT !.slot = c.cell]
    BY <1>0, <1>18 DEF Apply
  <2>2. v \in Units
    BY <1>18, <2>1, ZenonT(60) DEF Units
  <2> QED
    BY <2>1, <2>2, TidyAlike DEF Units
<1>19. CASE c \in [op : {"create"}, name : Names]
  <2>1. v = Created(u, c)
    BY <1>0, <1>19 DEF Apply
  <2>2. PICK x : x = [name |-> c.name, settings |-> <<u.blocks[u.slot], u.value[u.slot]>>]
    OBVIOUS
  <2>3. CASE v = u
    BY <2>3
  <2>4. u.slot # None /\ u.blocks[u.slot] # None => x \in [name : Names, settings : Settings]
    BY <1>19, <2>2 DEF Settings, Units, Blocks
  <2>5. CASE v # u
    <3>1. u.slot # None /\ u.blocks[u.slot] # None
      BY <2>1, <2>5 DEF Created
    <3>2. v = [u EXCEPT !.own = u.own \cup {x}]
      BY <2>1, <2>2, <2>5 DEF Created
    <3>3. u.own \cup {x} \in SUBSET [name : Names, settings : Settings]
      BY <2>4, <3>1 DEF Units
    <3>4. v \in Units
      BY <3>2, <3>3, ZenonT(60) DEF Units
    <3> QED
      BY <3>2, <3>4, TidyAlike DEF Units
  <2> QED
    BY <2>3, <2>5
<1>20. CASE c \in [op : {"forget"}, name : Names]
  <2>1. v = [u EXCEPT !.own = {x \in u.own : x.name # c.name}]
    BY <1>0, <1>20 DEF Apply
  <2>2. v \in Units
    BY <2>1, ZenonT(60) DEF Units
  <2> QED
    BY <2>1, <2>2, TidyAlike DEF Units
<1>21. CASE c \in [op : {"eq"}, value : Values]
  <2>1. v = [u EXCEPT !.eq = c.value]
    BY <1>0, <1>21 DEF Apply
  <2>2. v \in Units
    BY <1>21, <2>1, ZenonT(60) DEF Units
  <2> QED
    BY <2>1, <2>2, TidyAlike DEF Units
<1>22. CASE c \in [op : {"io"}, value : Values]
  <2>1. v = [u EXCEPT !.io = c.value]
    BY <1>0, <1>22 DEF Apply
  <2>2. v \in Units
    BY <1>22, <2>1, ZenonT(60) DEF Units
  <2> QED
    BY <2>1, <2>2, TidyAlike DEF Units
<1> QED
  BY <1>1, <1>2, <1>3, <1>4, <1>5, <1>6, <1>7, <1>8, <1>9, <1>10, <1>11, <1>12, <1>13, <1>14,
     <1>15, <1>16, <1>17, <1>18, <1>19, <1>20, <1>21, <1>22 DEF Commands

-----------------------------------------------------------------------------
(* What the tools are made of *)

\* Two courses, one after the other.
LEMMA Joined ==
  ASSUME NEW S, NEW a \in Seq(S), NEW b \in Seq(S)
  PROVE  a \o b \in Seq(S)
  BY ConcatProperties

\* Courses for the numbers up to n, one after the other.
LEMMA AllJoined ==
  ASSUME NEW S, NEW n \in Nat, NEW f \in [1 .. n -> Seq(S)]
  PROVE  FlattenSeq(f) \in Seq(S)
<1>1. f \in Seq(Seq(S))
  BY FunctionIsSeq
<1> QED
  BY <1>1, FlattenTyped

\* A sequence of two, and one of three.
LEMMA FewAreSeq ==
  ASSUME NEW S, NEW a \in S, NEW b \in S, NEW c \in S
  PROVE  <<a, b>> \in Seq(S) /\ <<a, b, c>> \in Seq(S)
  OBVIOUS

\* The first parameters.
LEMMA FirstParams == 0 \in Params /\ 1 \in Params
  BY UnitAssumption DEF UnitAssumption, Params

\* The steps a tool may take.
LEMMA StepsThere ==
  ASSUME NEW tool
  PROVE  /\ \A c \in Commands : Sent(c) \in Steps(tool)
         /\ \A of \in Topics, then \in Thens :
              then \in Passive \/ <<of, then>> \in Decides(tool) => Read(of, then) \in Steps(tool)
         /\ \A c \in Commands, of \in Topics : Request(c, of) \in Steps(tool)
         /\ \A s \in Scenes : AwaitScene(s) \in Steps(tool)
<1>1. \A c \in Commands : Sent(c) \in Steps(tool)
  BY DEF Sent, Steps, Sends
<1>2. ASSUME NEW of \in Topics, NEW then \in Thens,
             then \in Passive \/ <<of, then>> \in Decides(tool)
      PROVE  Read(of, then) \in Steps(tool)
  BY <1>2 DEF Read, Steps, Asks, Reads
<1>3. ASSUME NEW c \in Commands, NEW of \in Topics PROVE Request(c, of) \in Steps(tool)
  BY DEF Request, Steps, Asks, Reads, Passive, Thens
<1>4. ASSUME NEW s \in Scenes PROVE AwaitScene(s) \in Steps(tool)
  <2>1. Rounds \in 1 .. Rounds
    BY PresetToolsAssumption
  <2> QED
    BY <2>1 DEF AwaitScene, Steps, Asks, Awaits
<1> QED
  BY <1>1, <1>2, <1>3, <1>4

\* The messages for a block and for the grid are commands.
LEMMA EditTyped ==
  ASSUME NEW S, \A c \in Commands : Sent(c) \in S
  PROVE  /\ \A cell \in Cells, d \in Devices : QcAddBlock(cell, d) \in Seq(S)
         /\ \A cell \in Cells : QcDeleteBlock(cell) \in Seq(S)
         /\ \A row \in Rows, in, out \in Nat \cup {None} : QcSetRouting(row, in, out) \in Seq(S)
         /\ \A row \in Rows, p \in Points \cup {None} : QcSetSplit(row, p) \in Seq(S)
         /\ \A cell \in Cells, p \in Params, v \in Values : QcSetParam(cell, p, v) \in Seq(S)
         /\ \A cell \in Cells, p \in Params : QcAssignToScenes(cell, p) \in Seq(S)
         /\ \A cell \in Cells, v \in Values : QcWriteBypass(cell, v) \in Seq(S)
         /\ \A cell \in Cells, p \in Params, n \in Nat : QcExpression(cell, p, n) \in Seq(S)
         /\ \A row \in Rows, f \in Fields, v \in Values : QcLaneParam(row, f, v) \in Seq(S)
<1>1. \A c \in Commands : <<Sent(c)>> \in Seq(S)
  BY OneIsSeq
<1>2. \A cell \in Cells, d \in Devices : QcAddBlock(cell, d) \in Seq(S)
  BY <1>1 DEF QcAddBlock, Commands
<1>3. \A cell \in Cells : QcDeleteBlock(cell) \in Seq(S)
  BY <1>1 DEF QcDeleteBlock, Commands
<1>4. \A row \in Rows, in, out \in Nat \cup {None} : QcSetRouting(row, in, out) \in Seq(S)
  BY <1>1 DEF QcSetRouting, Commands
<1>5. \A row \in Rows, p \in Points \cup {None} : QcSetSplit(row, p) \in Seq(S)
  BY <1>1 DEF QcSetSplit, Commands
<1>6. \A cell \in Cells, p \in Params, v \in Values : QcSetParam(cell, p, v) \in Seq(S)
  BY <1>1 DEF QcSetParam, Commands
<1>7. \A cell \in Cells, p \in Params : QcAssignToScenes(cell, p) \in Seq(S)
  BY <1>1 DEF QcAssignToScenes, Commands
<1>8. \A cell \in Cells, v \in Values : QcWriteBypass(cell, v) \in Seq(S)
  BY <1>1 DEF QcWriteBypass, Commands
<1>9. \A cell \in Cells, p \in Params, n \in Nat : QcExpression(cell, p, n) \in Seq(S)
  BY <1>1 DEF QcExpression, Commands
<1>10. \A row \in Rows, f \in Fields, v \in Values : QcLaneParam(row, f, v) \in Seq(S)
  BY <1>1 DEF QcLaneParam, Commands
<1> QED
  BY <1>2, <1>3, <1>4, <1>5, <1>6, <1>7, <1>8, <1>9, <1>10

\* So are those for scenes, switches, modes and settings.
LEMMA SettingTyped ==
  ASSUME NEW S, \A c \in Commands : Sent(c) \in S
  PROVE  /\ \A s \in Scenes : QcSetScene(s) \in Seq(S)
         /\ \A s \in Scenes, l \in Names : QcSceneLabel(s, l) \in Seq(S)
         /\ \A cell \in Cells, d \in Devices, v \in Values : QcLoadModel(cell, d, v) \in Seq(S)
         /\ \A cell \in Cells, w \in Switches : QcUnassignStomp(cell, w) \in Seq(S)
         /\ \A cell \in Cells, w \in Switches, k \in Kinds, m \in BOOLEAN :
              QcAssignStomp(cell, w, k, m) \in Seq(S)
         /\ \A n \in Names : QcDeleteModel(n) \in Seq(S)
         /\ \A m \in Modes : QcSetMode(m) \in Seq(S)
         /\ \A ms \in SUBSET Modes : QcSetModeCycle(ms) \in Seq(S)
         /\ \A v \in Values : QcGlobalEq(v) \in Seq(S) /\ QcIoPort(v) \in Seq(S)
         /\ \A t \in {"io", "eq"}, v \in Values : QcLoadSettings(t, v) \in Seq(S)
<1>1. \A c \in Commands : <<Sent(c)>> \in Seq(S)
  BY OneIsSeq
<1>2. \A s \in Scenes : QcSetScene(s) \in Seq(S)
  BY <1>1 DEF QcSetScene, Commands
<1>3. \A s \in Scenes, l \in Names : QcSceneLabel(s, l) \in Seq(S)
  BY <1>1 DEF QcSceneLabel, Commands
<1>4. \A cell \in Cells, d \in Devices, v \in Values : QcLoadModel(cell, d, v) \in Seq(S)
  BY <1>1 DEF QcLoadModel, Commands
<1>5. \A cell \in Cells, w \in Switches : QcUnassignStomp(cell, w) \in Seq(S)
  BY <1>1 DEF QcUnassignStomp, Commands
<1>6. ASSUME NEW cell \in Cells, NEW w \in Switches, NEW k \in Kinds, NEW m \in BOOLEAN
      PROVE  QcAssignStomp(cell, w, k, m) \in Seq(S)
  <2>1. PICK a, b : a = Sent([op |-> "stomp", cell |-> cell, switch |-> w, kind |-> k])
                    /\ b = Sent([op |-> "momentary", switch |-> w, on |-> m])
    OBVIOUS
  <2>2. a \in S
    BY <2>1 DEF Commands
  <2>3. b \in S
    BY <2>1 DEF Commands
  <2>4. <<a, b>> \in Seq(S)
    BY <2>2, <2>3
  <2> QED
    BY <2>1, <2>4 DEF QcAssignStomp
<1>7. \A n \in Names : QcDeleteModel(n) \in Seq(S)
  BY <1>1 DEF QcDeleteModel, Commands
<1>8. \A m \in Modes : QcSetMode(m) \in Seq(S)
  BY <1>1 DEF QcSetMode, Commands
<1>9. \A ms \in SUBSET Modes : QcSetModeCycle(ms) \in Seq(S)
  BY <1>1 DEF QcSetModeCycle, Commands
<1>10. \A v \in Values : QcGlobalEq(v) \in Seq(S) /\ QcIoPort(v) \in Seq(S)
  BY <1>1 DEF QcGlobalEq, QcIoPort, Commands
<1>11. ASSUME NEW t, NEW v \in Values PROVE QcLoadSettings(t, v) \in Seq(S)
  BY <1>1 DEF QcLoadSettings, Commands
<1> QED
  BY <1>2, <1>3, <1>4, <1>5, <1>6, <1>7, <1>8, <1>9, <1>10, <1>11

\* A walk is made of what it writes, and of scenes.
LEMMA WalkTyped ==
  ASSUME NEW S, \A c \in Commands : Sent(c) \in S, \A s \in Scenes : AwaitScene(s) \in S,
         NEW values \in PerScene(Values), NEW write \in [Values -> Seq(S)]
  PROVE  Walk(values, write) \in Seq(S)
<1>1. PICK n \in Nat : n = Len(values)
  BY LenProperties DEF PerScene
<1>2. \A s \in Scenes : QcSetScene(s) \in Seq(S) /\ <<AwaitScene(s)>> \in Seq(S)
  BY SettingTyped, OneIsSeq
<1>3. PICK f : f = [i \in 1 .. n |->
                      QcSetScene(i - 1) \o <<AwaitScene(i - 1)>> \o write[values[i]]]
  OBVIOUS
<1>4. ASSUME NEW i \in 1 .. n
      PROVE  QcSetScene(i - 1) \o <<AwaitScene(i - 1)>> \o write[values[i]] \in Seq(S)
  <2>1. i - 1 \in Scenes /\ values[i] \in Values
    BY <1>1, ElementOfSeq DEF PerScene
  <2>2. write[values[i]] \in Seq(S)
    BY <2>1
  <2> QED
    BY <1>2, <2>1, <2>2, Joined
<1>5. f \in [1 .. n -> Seq(S)]
  BY <1>3, <1>4
<1>6. FlattenSeq(f) \in Seq(S)
  BY <1>5, AllJoined
<1>7. 0 \in Scenes
  BY UnitAssumption DEF UnitAssumption
<1>8. FlattenSeq(f) \o QcSetScene(0) \o <<AwaitScene(0)>> \in Seq(S)
  BY <1>2, <1>6, <1>7, Joined
<1> QED
  BY <1>1, <1>3, <1>8 DEF Walk

\* The rows and columns, counted from one.
LEMMA GridCounted ==
  /\ Height \in Nat /\ Width \in Nat /\ 0 \in Rows
  /\ \A i \in 1 .. Height : i - 1 \in Rows
  /\ \A i \in 1 .. Height - 1 : i \in Rows
  /\ \A i \in 1 .. Width : i - 1 \in Cols
  /\ \A r \in Rows, c \in Cols : <<r, c>> \in Cells
  BY UnitAssumption DEF UnitAssumption, Rows, Cols, Cells

\* A row is cleared by messages.
LEMMA ClearRowTyped ==
  ASSUME NEW S, \A c \in Commands : Sent(c) \in S, NEW blocks, NEW r \in Rows
  PROVE  QcClearRow(r, blocks) \in Seq(S)
<1>1. PICK f : f = [j \in 1 .. Width |-> IF blocks[<<r, j - 1>>] = None THEN <<>>
                                         ELSE QcDeleteBlock(<<r, j - 1>>)]
  OBVIOUS
<1>2. \A j \in 1 .. Width : QcDeleteBlock(<<r, j - 1>>) \in Seq(S)
  BY GridCounted, EditTyped
<1>3. <<>> \in Seq(S)
  BY EmptySeq
<1>4. f \in [1 .. Width -> Seq(S)]
  BY <1>1, <1>2, <1>3
<1>5. FlattenSeq(f) \in Seq(S)
  BY <1>4, GridCounted, AllJoined
<1>6. QcSetSplit(r, None) \in Seq(S)
  BY EditTyped
<1> QED
  BY <1>1, <1>5, <1>6, Joined DEF QcClearRow

\* So is the grid.
LEMMA ClearGridTyped ==
  ASSUME NEW S, \A c \in Commands : Sent(c) \in S, NEW blocks
  PROVE  QcClearGrid(blocks) \in Seq(S)
<1>1. PICK f, g : f = [i \in 1 .. Height |-> QcClearRow(i - 1, blocks)]
                  /\ g = [i \in 1 .. Height - 1 |-> QcSetRouting(i, 0, 0)]
  OBVIOUS
<1>2. \A i \in 1 .. Height : QcClearRow(i - 1, blocks) \in Seq(S)
  BY GridCounted, ClearRowTyped
<1>3. f \in [1 .. Height -> Seq(S)]
  BY <1>1, <1>2
<1>4. \A i \in 1 .. Height - 1 : QcSetRouting(i, 0, 0) \in Seq(S)
  BY GridCounted, EditTyped
<1>5. g \in [1 .. Height - 1 -> Seq(S)]
  BY <1>1, <1>4
<1>6. Height - 1 \in Nat
  BY UnitAssumption DEF UnitAssumption
<1>7. FlattenSeq(f) \in Seq(S) /\ FlattenSeq(g) \in Seq(S)
  BY <1>3, <1>5, <1>6, GridCounted, AllJoined
<1>8. QcSetRouting(0, 1, 19) \in Seq(S)
  BY GridCounted, EditTyped
<1> QED
  BY <1>1, <1>7, <1>8, Joined DEF QcClearGrid

\* The parameters of a block.
LEMMA ParamsTyped ==
  ASSUME NEW S, \A c \in Commands : Sent(c) \in S, NEW cell \in Cells,
         NEW params \in Seq(Params \X Values)
  PROVE  QcSetParams(cell, params) \in Seq(S)
<1>1. PICK n \in Nat : n = Len(params)
  BY LenProperties
<1>2. PICK f : f = [i \in 1 .. n |-> QcSetParam(cell, params[i][1], params[i][2])]
  OBVIOUS
<1>3. \A i \in 1 .. n : params[i][1] \in Params /\ params[i][2] \in Values
  <2> TAKE i \in 1 .. n
  <2>1. params[i] \in Params \X Values
    BY <1>1, ElementOfSeq
  <2> QED
    BY <2>1
<1>4. \A i \in 1 .. n : QcSetParam(cell, params[i][1], params[i][2]) \in Seq(S)
  BY <1>3, EditTyped
<1>5. f \in [1 .. n -> Seq(S)]
  BY <1>2, <1>4
<1> QED
  BY <1>1, <1>2, <1>5, AllJoined DEF QcSetParams

\* A chain of a spec.
LEMMA ChainTyped ==
  ASSUME NEW S, \A c \in Commands : Sent(c) \in S, NEW ch \in Chain
  PROVE  BuildChain(ch) \in Seq(S)
<1>1. PICK n \in Nat : n = Len(ch.blocks)
  BY LenProperties DEF Chain
<1>2. PICK f : f = [i \in 1 .. n |->
                      QcAddBlock(<<ch.row, ch.blocks[i].col>>, ch.blocks[i].device)
                      \o QcSetParams(<<ch.row, ch.blocks[i].col>>, ch.blocks[i].params)]
  OBVIOUS
<1>3. ASSUME NEW i \in 1 .. n
      PROVE  QcAddBlock(<<ch.row, ch.blocks[i].col>>, ch.blocks[i].device)
             \o QcSetParams(<<ch.row, ch.blocks[i].col>>, ch.blocks[i].params) \in Seq(S)
  <2>1. ch.blocks[i] \in BlockSpec
    BY <1>1, ElementOfSeq DEF Chain
  <2>2. PICK cell : cell = <<ch.row, ch.blocks[i].col>>
    OBVIOUS
  <2>3. cell \in Cells /\ ch.blocks[i].device \in Devices
        /\ ch.blocks[i].params \in Seq(Params \X Values)
    BY <2>1, <2>2, GridCounted DEF Chain, BlockSpec
  <2>4. QcAddBlock(cell, ch.blocks[i].device) \in Seq(S)
    BY <2>3, EditTyped
  <2>5. QcSetParams(cell, ch.blocks[i].params) \in Seq(S)
    BY <2>3, ParamsTyped
  <2> QED
    BY <2>2, <2>4, <2>5, Joined
<1>4. f \in [1 .. n -> Seq(S)]
  BY <1>2, <1>3
<1>5. FlattenSeq(f) \in Seq(S) /\ <<>> \in Seq(S)
  BY <1>4, AllJoined, EmptySeq
<1>6. QcSetRouting(ch.row, ch.in, ch.out) \in Seq(S)
  BY EditTyped DEF Chain
<1>7. ch.split # None => QcSetSplit(ch.row, ch.split) \in Seq(S)
  BY EditTyped DEF Chain
<1>8. PICK a, b : a = (IF ch.in = None /\ ch.out = None THEN <<>>
                       ELSE QcSetRouting(ch.row, ch.in, ch.out))
                  /\ b = (IF ch.split = None THEN <<>> ELSE QcSetSplit(ch.row, ch.split))
  OBVIOUS
<1>9. a \in Seq(S) /\ b \in Seq(S)
  BY <1>5, <1>6, <1>7, <1>8
<1>10. a \o b \o FlattenSeq(f) \in Seq(S)
  BY <1>5, <1>9, Joined
<1> QED
  BY <1>1, <1>2, <1>8, <1>10 DEF BuildChain

\* The chains of a spec, one after the other.
LEMMA ChainsTyped ==
  ASSUME NEW S, \A c \in Commands : Sent(c) \in S, NEW spec \in Seq(Chain)
  PROVE  FlattenSeq([i \in 1 .. Len(spec) |-> BuildChain(spec[i])]) \in Seq(S)
<1>1. PICK n \in Nat : n = Len(spec)
  BY LenProperties
<1>2. \A i \in 1 .. n : BuildChain(spec[i]) \in Seq(S)
  BY <1>1, ElementOfSeq, ChainTyped
<1>3. [i \in 1 .. n |-> BuildChain(spec[i])] \in [1 .. n -> Seq(S)]
  BY <1>2
<1> QED
  BY <1>1, <1>3, AllJoined

\* The labels a preset is given.
LEMMA LabelsTyped ==
  ASSUME NEW S, \A c \in Commands : Sent(c) \in S, NEW labels \in PerScene(Names \cup {None})
  PROVE  QcPresetMeta(labels) \in Seq(S)
<1>1. PICK n \in Nat : n = Len(labels)
  BY LenProperties DEF PerScene
<1>2. PICK f : f = [i \in 1 .. n |-> IF labels[i] = None THEN <<>>
                                     ELSE QcSceneLabel(i - 1, labels[i])]
  OBVIOUS
<1>3. \A i \in 1 .. n : i - 1 \in Scenes /\ labels[i] \in Names \cup {None}
  BY <1>1, ElementOfSeq DEF PerScene
<1>4. \A i \in 1 .. n : labels[i] # None => QcSceneLabel(i - 1, labels[i]) \in Seq(S)
  BY <1>3, SettingTyped
<1>5. <<>> \in Seq(S)
  BY EmptySeq
<1>6. f \in [1 .. n -> Seq(S)]
  BY <1>2, <1>4, <1>5
<1> QED
  BY <1>1, <1>2, <1>6, AllJoined DEF QcPresetMeta

-----------------------------------------------------------------------------
(* What a call does, and what it goes on to do *)

\* What a read decides is one of the things there are to read.
LEMMA ReadsThere ==
  ASSUME NEW S, NEW tool, S = Steps(tool)
  PROVE  /\ \A of \in Topics : Read(of, "go on") \in S /\ Read(of, "show") \in S
         /\ \A of \in Topics : <<Read(of, "go on")>> \in Seq(S) /\ <<Read(of, "show")>> \in Seq(S)
<1>1. \A of \in Topics : Read(of, "go on") \in S /\ Read(of, "show") \in S
  BY StepsThere DEF Thens, Passive
<1> QED
  BY <1>1, OneIsSeq

\* The steps of a call are those of its tool.
LEMMA ScriptTyped ==
  ASSUME NEW c \in Calls
  PROVE  Script(c) \in Seq(Steps(c.tool))
<1>1. PICK S, s, t : S = Steps(c.tool) /\ s = Script(c) /\ t = c.tool
  OBVIOUS
<1> SUFFICES s \in Seq(S)
  BY <1>1
<1>2. /\ \A x \in Commands : Sent(x) \in S /\ <<Sent(x)>> \in Seq(S)
      /\ \A x \in Scenes : AwaitScene(x) \in S
  BY <1>1, StepsThere, OneIsSeq
<1>3. \A of \in Topics : /\ Read(of, "show") \in S /\ <<Read(of, "show")>> \in Seq(S)
                         /\ Read(of, "go on") \in S /\ <<Read(of, "go on")>> \in Seq(S)
  BY <1>1, ReadsThere
<1>4. /\ t \in {"build_preset", "clear_grid"} => <<Read("preset", "clear")>> \in Seq(S)
      /\ t = "set_block_bypass" => <<Read("preset", "bypass")>> \in Seq(S)
      /\ t = "assign_stomp" => <<Read("preset", "stomp")>> \in Seq(S)
      /\ t = "load_device_preset" => <<Read("preset", "model")>> \in Seq(S)
      /\ t = "save_device_preset" => <<Read("preset", "save")>> \in Seq(S)
      /\ t = "delete_device_preset" => Read("presets", "delete") \in S
      /\ t = "switch_mode" => <<Read("mode", "mode")>> \in Seq(S)
      /\ t = "load_settings_preset" =>
           /\ Read("io", "confirm") \in S /\ Read("io", "previous") \in S /\ Read("eq", "previous") \in S
           /\ Read("presets", "match") \in S
  <2>0. ASSUME NEW of \in Topics, NEW then \in Thens, <<of, then>> \in Decides(t)
        PROVE  Read(of, then) \in S /\ <<Read(of, then)>> \in Seq(S)
    BY <1>1, <2>0, StepsThere, OneIsSeq
  <2>1. ASSUME t \in {"build_preset", "clear_grid"} PROVE Read("preset", "clear") \in S /\ <<Read("preset", "clear")>> \in Seq(S)
    <3>1. <<"preset", "clear">> \in Decides(t)
      BY <2>1 DEF Decides
    <3> QED
      BY <2>0, <3>1 DEF Topics, Thens
  <2>2. ASSUME t = "set_block_bypass" PROVE Read("preset", "bypass") \in S /\ <<Read("preset", "bypass")>> \in Seq(S)
    <3>1. <<"preset", "bypass">> \in Decides(t)
      BY <2>2 DEF Decides
    <3> QED
      BY <2>0, <3>1 DEF Topics, Thens
  <2>3. ASSUME t = "assign_stomp" PROVE Read("preset", "stomp") \in S /\ <<Read("preset", "stomp")>> \in Seq(S)
    <3>1. <<"preset", "stomp">> \in Decides(t)
      BY <2>3 DEF Decides
    <3> QED
      BY <2>0, <3>1 DEF Topics, Thens
  <2>4. ASSUME t = "load_device_preset" PROVE Read("preset", "model") \in S /\ <<Read("preset", "model")>> \in Seq(S)
    <3>1. <<"preset", "model">> \in Decides(t)
      BY <2>4 DEF Decides
    <3> QED
      BY <2>0, <3>1 DEF Topics, Thens
  <2>5. ASSUME t = "save_device_preset" PROVE Read("preset", "save") \in S /\ <<Read("preset", "save")>> \in Seq(S)
    <3>1. <<"preset", "save">> \in Decides(t)
      BY <2>5 DEF Decides
    <3> QED
      BY <2>0, <3>1 DEF Topics, Thens
  <2>6. ASSUME t = "delete_device_preset" PROVE Read("presets", "delete") \in S /\ <<Read("presets", "delete")>> \in Seq(S)
    <3>1. <<"presets", "delete">> \in Decides(t)
      BY <2>6 DEF Decides
    <3> QED
      BY <2>0, <3>1 DEF Topics, Thens
  <2>7. ASSUME t = "switch_mode" PROVE Read("mode", "mode") \in S /\ <<Read("mode", "mode")>> \in Seq(S)
    <3>1. <<"mode", "mode">> \in Decides(t)
      BY <2>7 DEF Decides
    <3> QED
      BY <2>0, <3>1 DEF Topics, Thens
  <2>8. ASSUME t = "load_settings_preset" PROVE Read("io", "confirm") \in S /\ <<Read("io", "confirm")>> \in Seq(S)
    <3>1. <<"io", "confirm">> \in Decides(t)
      BY <2>8 DEF Decides
    <3> QED
      BY <2>0, <3>1 DEF Topics, Thens
  <2>9. ASSUME t = "load_settings_preset" PROVE Read("io", "previous") \in S /\ <<Read("io", "previous")>> \in Seq(S)
    <3>1. <<"io", "previous">> \in Decides(t)
      BY <2>9 DEF Decides
    <3> QED
      BY <2>0, <3>1 DEF Topics, Thens
  <2>10. ASSUME t = "load_settings_preset" PROVE Read("eq", "previous") \in S /\ <<Read("eq", "previous")>> \in Seq(S)
    <3>1. <<"eq", "previous">> \in Decides(t)
      BY <2>10 DEF Decides
    <3> QED
      BY <2>0, <3>1 DEF Topics, Thens
  <2>11. ASSUME t = "load_settings_preset" PROVE Read("presets", "match") \in S /\ <<Read("presets", "match")>> \in Seq(S)
    <3>1. <<"presets", "match">> \in Decides(t)
      BY <2>11 DEF Decides
    <3> QED
      BY <2>0, <3>1 DEF Topics, Thens
  <2> QED
    BY <2>1, <2>2, <2>3, <2>4, <2>5, <2>6, <2>7, <2>8, <2>9, <2>10, <2>11
<1>5. CASE t = "build_preset"
  <2>1. s = BuildPreset(c)
    BY <1>1, <1>5 DEF Script
  <2>2. c.spec \in Seq(Chain)
    BY <1>1, <1>5 DEF Calls
  <2>3. PICK a, b : a = (IF c.clear THEN <<Read("preset", "clear")>> ELSE <<>>)
                    /\ b = FlattenSeq([i \in 1 .. Len(c.spec) |-> BuildChain(c.spec[i])])
    OBVIOUS
  <2>4. a \in Seq(S) /\ b \in Seq(S) /\ <<Read("preset", "show")>> \in Seq(S)
    BY <1>2, <1>3, <1>4, <1>5, <2>2, <2>3, ChainsTyped, EmptySeq DEF Topics
  <2> QED
    BY <2>1, <2>3, <2>4, Joined DEF BuildPreset
<1>6. CASE t = "clear_grid"
  <2>1. s = ClearGrid(c)
    BY <1>1, <1>6 DEF Script
  <2> QED
    BY <1>6, <2>1, <1>4 DEF ClearGrid
<1>7. CASE t = "add_block"
  <2>1. s = AddBlock(c)
    BY <1>1, <1>7 DEF Script
  <2>2. c.cell \in Cells /\ c.device \in Devices /\ c.params \in Seq(Params \X Values)
    BY <1>1, <1>7 DEF Calls
  <2>3. QcAddBlock(c.cell, c.device) \in Seq(S)
    BY <1>2, <2>2, EditTyped
  <2>4. QcSetParams(c.cell, c.params) \in Seq(S)
    BY <1>2, <2>2, ParamsTyped
  <2> QED
    BY <2>1, <2>3, <2>4, Joined DEF AddBlock
<1>8. CASE t = "add_capture"
  <2>1. s = AddCapture(c)
    BY <1>1, <1>8 DEF Script
  <2>2. c.cell \in Cells /\ c.key \in Values
    BY <1>1, <1>8 DEF Calls
  <2>3. QcAddBlock(c.cell, "cap") \in Seq(S)
    BY <1>2, <2>2, EditTyped, PresetToolsAssumption
  <2>4. QcSetParam(c.cell, 1, c.key) \in Seq(S)
    BY <1>2, <2>2, EditTyped, FirstParams
  <2> QED
    BY <2>1, <2>3, <2>4, Joined DEF AddCapture, QcSetCapture
<1>9. CASE t = "add_ir"
  <2>1. s = AddIr(c)
    BY <1>1, <1>9 DEF Script
  <2>2. c.cell \in Cells /\ c.key \in Values
    BY <1>1, <1>9 DEF Calls
  <2>3. QcAddBlock(c.cell, "ir") \in Seq(S)
    BY <1>2, <2>2, EditTyped, PresetToolsAssumption
  <2>4. QcSetParam(c.cell, 1, c.key) \in Seq(S) /\ QcSetParam(c.cell, 0, c.key) \in Seq(S)
    BY <1>2, <2>2, EditTyped, FirstParams
  <2> QED
    BY <2>1, <2>3, <2>4, Joined DEF AddIr, QcSetIr
<1>10. CASE t = "remove_block"
  <2>1. s = RemoveBlock(c)
    BY <1>1, <1>10 DEF Script
  <2>2. c.cell \in Cells
    BY <1>1, <1>10 DEF Calls
  <2> QED
    BY <1>10, <2>1, <2>2, <1>2, EditTyped DEF RemoveBlock
<1>11. CASE t = "set_parameter"
  <2>1. s = SetParameter(c)
    BY <1>1, <1>11 DEF Script
  <2>2. c.cell \in Cells /\ c.param \in Params /\ c.value \in Values
    BY <1>1, <1>11 DEF Calls
  <2> QED
    BY <1>11, <2>1, <2>2, <1>2, EditTyped DEF SetParameter
<1>12. CASE t = "set_parameter_scenes"
  <2>1. s = SetParameterScenes(c)
    BY <1>1, <1>12 DEF Script
  <2>2. c.cell \in Cells /\ c.param \in Params /\ c.values \in PerScene(Values)
    BY <1>1, <1>12 DEF Calls
  <2>3. QcAssignToScenes(c.cell, c.param) \in Seq(S)
    BY <1>2, <2>2, EditTyped
  <2>4. PICK f : f = [v \in Values |-> QcSetParam(c.cell, c.param, v)]
    OBVIOUS
  <2>5. f \in [Values -> Seq(S)]
    BY <1>2, <2>2, <2>4, EditTyped
  <2>6. Walk(c.values, f) \in Seq(S)
    BY <1>2, <2>2, <2>5, WalkTyped
  <2> QED
    BY <2>1, <2>3, <2>4, <2>6, Joined DEF SetParameterScenes, QcSetParamScenes
<1>13. CASE t = "assign_expression"
  <2>1. s = AssignExpression(c)
    BY <1>1, <1>13 DEF Script
  <2>2. c.cell \in Cells /\ c.param \in Params /\ c.pedal \in Nat
    BY <1>1, <1>13 DEF Calls
  <2> QED
    BY <1>13, <2>1, <2>2, <1>2, EditTyped DEF AssignExpression
<1>14. CASE t = "add_split"
  <2>1. s = AddSplit(c)
    BY <1>1, <1>14 DEF Script
  <2>2. c.row \in Rows /\ c.points \in Points
    BY <1>1, <1>14 DEF Calls
  <2> QED
    BY <1>14, <2>1, <2>2, <1>2, EditTyped DEF AddSplit
<1>15. CASE t = "set_lane_routing"
  <2>1. s = SetLaneRouting(c)
    BY <1>1, <1>15 DEF Script
  <2>2. c.row \in Rows /\ c.in \in Nat \cup {None} /\ c.out \in Nat \cup {None}
    BY <1>1, <1>15 DEF Calls
  <2> QED
    BY <1>15, <2>1, <2>2, <1>2, EditTyped DEF SetLaneRouting
<1>16. CASE t = "set_lane_output"
  <2>1. s = SetLaneOutput(c)
    BY <1>1, <1>16 DEF Script
  <2>2. c.row \in Rows /\ c.value \in Values
    BY <1>1, <1>16 DEF Calls
  <2> QED
    BY <1>16, <2>1, <2>2, <1>2, EditTyped DEF SetLaneOutput, Fields
<1>17. CASE t = "set_mixer"
  <2>1. s = SetMixer(c)
    BY <1>1, <1>17 DEF Script
  <2>2. c.row \in Rows /\ c.value \in Values
    BY <1>1, <1>17 DEF Calls
  <2> QED
    BY <1>17, <2>1, <2>2, <1>2, EditTyped DEF SetMixer, Fields
<1>18. CASE t = "switch_scene"
  <2>1. s = SwitchScene(c)
    BY <1>1, <1>18 DEF Script
  <2>2. c.scene \in Scenes
    BY <1>1, <1>18 DEF Calls
  <2> QED
    BY <1>18, <2>1, <2>2, <1>2, SettingTyped DEF SwitchScene
<1>19. CASE t = "set_preset_meta"
  <2>1. s = SetPresetMeta(c)
    BY <1>1, <1>19 DEF Script
  <2>2. c.labels \in PerScene(Names \cup {None})
    BY <1>1, <1>19 DEF Calls
  <2> QED
    BY <1>19, <2>1, <2>2, <1>2, LabelsTyped DEF SetPresetMeta
<1>20. CASE t = "set_block_bypass"
  <2>1. s = SetBlockBypass(c)
    BY <1>1, <1>20 DEF Script
  <2>2. c.cell \in Cells /\ c.value \in Values
    BY <1>1, <1>20 DEF Calls
  <2> QED
    BY <1>20, <2>1, <2>2, <1>2, <1>4, EditTyped DEF SetBlockBypass
<1>21. CASE t = "assign_stomp"
  <2>1. s = AssignStomp(c)
    BY <1>1, <1>21 DEF Script
  <2> QED
    BY <1>21, <2>1, <1>4 DEF AssignStomp
<1>22. CASE t = "unassign_stomp"
  <2>1. s = UnassignStomp(c)
    BY <1>1, <1>22 DEF Script
  <2>2. c.cell \in Cells /\ c.switch \in Switches
    BY <1>1, <1>22 DEF Calls
  <2>3. QcUnassignStomp(c.cell, c.switch) \in Seq(S) /\ <<Read("preset", "show")>> \in Seq(S)
    BY <1>2, <1>3, <2>2, SettingTyped DEF Topics
  <2> QED
    BY <2>1, <2>3, Joined DEF UnassignStomp
<1>23. CASE t = "load_device_preset"
  <2>1. s = LoadDevicePreset(c)
    BY <1>1, <1>23 DEF Script
  <2> QED
    BY <1>23, <2>1, <1>4 DEF LoadDevicePreset
<1>24. CASE t = "save_device_preset"
  <2>1. s = SaveDevicePreset(c)
    BY <1>1, <1>24 DEF Script
  <2> QED
    BY <1>24, <2>1, <1>4 DEF SaveDevicePreset
<1>25. CASE t = "delete_device_preset"
  <2>1. s = DeleteDevicePreset(c)
    BY <1>1, <1>25 DEF Script
  <2>2. Read("presets", "delete") \in S /\ Read("presets", "go on") \in S
    BY <1>3, <1>4, <1>25 DEF Topics
  <2> QED
    BY <2>1, <2>2, FewAreSeq DEF DeleteDevicePreset, QcModelPresets
<1>26. CASE t = "switch_mode"
  <2>1. s = SwitchMode(c)
    BY <1>1, <1>26 DEF Script
  <2> QED
    BY <1>26, <2>1, <1>4 DEF SwitchMode
<1>27. CASE t = "set_mode_cycle"
  <2>1. s = SetModeCycle(c)
    BY <1>1, <1>27 DEF Script
  <2>2. c.modes \in SUBSET Modes
    BY <1>1, <1>27 DEF Calls
  <2> QED
    BY <1>27, <2>1, <2>2, <1>2, SettingTyped DEF SetModeCycle
<1>28. CASE t = "set_global_eq"
  <2>1. s = SetGlobalEq(c)
    BY <1>1, <1>28 DEF Script
  <2>2. c.value \in Values
    BY <1>1, <1>28 DEF Calls
  <2>3. QcGlobalEq(c.value) \in Seq(S) /\ <<Read("eq", "show")>> \in Seq(S)
    BY <1>2, <1>3, <2>2, SettingTyped DEF Topics
  <2> QED
    BY <2>1, <2>3, Joined DEF SetGlobalEq
<1>29. CASE t = "set_io_port"
  <2>1. s = SetIoPort(c)
    BY <1>1, <1>29 DEF Script
  <2>2. c.value \in Values
    BY <1>1, <1>29 DEF Calls
  <2>3. QcIoPort(c.value) \in Seq(S) /\ <<Read("io", "show")>> \in Seq(S)
    BY <1>2, <1>3, <2>2, SettingTyped DEF Topics
  <2> QED
    BY <2>1, <2>3, Joined DEF SetIoPort
<1>30. CASE t = "load_settings_preset"
  <2>1. s = LoadSettingsPreset(c)
    BY <1>1, <1>30 DEF Script
  <2>2. /\ Read("io", "confirm") \in S /\ Read("io", "previous") \in S
        /\ Read("eq", "previous") \in S /\ Read("presets", "match") \in S
    BY <1>3, <1>4, <1>30 DEF Topics
  <2> QED
    BY <2>1, <2>2, FewAreSeq DEF LoadSettingsPreset, QcModelPresets, IoSnapshot
<1>31. CASE t = "get_mode"
  <2>1. s = GetMode(c)
    BY <1>1, <1>31 DEF Script
  <2> QED
    BY <1>31, <2>1, <1>3 DEF GetMode, Topics
<1>32. CASE t = "get_current_preset"
  <2>1. s = GetCurrentPreset(c)
    BY <1>1, <1>32 DEF Script
  <2> QED
    BY <1>32, <2>1, <1>3 DEF GetCurrentPreset, Topics
<1>33. CASE t = "get_io_settings"
  <2>1. s = GetIoSettings(c)
    BY <1>1, <1>33 DEF Script
  <2> QED
    BY <1>33, <2>1, <1>3 DEF GetIoSettings, Topics
<1>34. CASE t = "list_device_presets"
  <2>1. s = ListDevicePresets(c)
    BY <1>1, <1>34 DEF Script
  <2> QED
    BY <1>34, <2>1, <1>3 DEF ListDevicePresets, QcModelPresets, Topics
<1>35. CASE t = "list_settings_presets"
  <2>1. s = ListSettingsPresets(c)
    BY <1>1, <1>35 DEF Script
  <2> QED
    BY <1>35, <2>1, <1>3 DEF ListSettingsPresets, QcModelPresets, Topics
<1>36. CASE t = "read_input_level"
  <2>1. s = ReadInputLevel(c)
    BY <1>1, <1>36 DEF Script
  <2> QED
    BY <1>36, <2>1, <1>3 DEF ReadInputLevel, Topics
<1>37. CASE t = "write_input_level"
  <2>1. s = WriteInputLevel(c)
    BY <1>1, <1>37 DEF Script
  <2>2. c.value \in Values
    BY <1>1, <1>37 DEF Calls
  <2>3. QcIoPort(c.value) \in Seq(S) /\ Read("io", "go on") \in S /\ Read("io", "show") \in S
    BY <1>2, <1>3, <2>2, SettingTyped DEF Topics
  <2>4. <<Read("io", "go on"), Read("io", "show")>> \in Seq(S)
    BY <2>3, FewAreSeq
  <2> QED
    BY <2>1, <2>3, <2>4, Joined DEF WriteInputLevel
<1> QED
  BY <1>1, <1>5, <1>6, <1>7, <1>8, <1>9, <1>10, <1>11, <1>12, <1>13, <1>14, <1>15, <1>16,
     <1>17, <1>18, <1>19, <1>20, <1>21, <1>22, <1>23, <1>24, <1>25, <1>26, <1>27, <1>28, <1>29,
     <1>30, <1>31, <1>32, <1>33, <1>34, <1>35, <1>36, <1>37
  DEF Calls

\* The kinds of what the unit tells.
LEMMA TellsThere ==
  /\ TellsOf("scene") = Scenes /\ TellsOf("mode") = SUBSET Modes
  /\ TellsOf("eq") = Values /\ TellsOf("io") = Values
  /\ TellsOf("preset") = [blocks : Blocks]
  /\ TellsOf("presets") = SUBSET [name : Names, settings : Settings]
  BY DEF TellsOf

\* By which reads which tools decide.
LEMMA DecidesThere ==
  ASSUME NEW tool, NEW of, NEW then, <<of, then>> \in Decides(tool)
  PROVE  \/ then = "clear" /\ of = "preset" /\ tool \in {"build_preset", "clear_grid"}
         \/ then = "bypass" /\ of = "preset" /\ tool = "set_block_bypass"
         \/ then = "stomp" /\ of = "preset" /\ tool = "assign_stomp"
         \/ then = "model" /\ of = "preset" /\ tool = "load_device_preset"
         \/ then = "save" /\ of = "preset" /\ tool = "save_device_preset"
         \/ then = "delete" /\ of = "presets" /\ tool = "delete_device_preset"
         \/ then = "match" /\ of = "presets" /\ tool \in {"load_device_preset", "load_settings_preset"}
         \/ then = "mode" /\ of = "mode" /\ tool = "switch_mode"
         \/ then \in {"confirm", "previous"} /\ of \in {"io", "eq"} /\ tool = "load_settings_preset"
  BY DEF Decides

\* What a call goes on to do are steps of its tool.
LEMMA AfterReadTyped ==
  ASSUME NEW w, call[w] \in Calls, NEW r \in Reads(call[w].tool),
         NEW x \in TellsOf(r.of) \cup {None}, NEW rest \in Seq(Steps(call[w].tool))
  PROVE  AfterRead(w, r.then, x, rest) \in Seq(Steps(call[w].tool))
<1>1. PICK c, S, t, a : c = call[w] /\ S = Steps(c.tool) /\ t = r.then /\ a = AfterRead(w, t, x, rest)
  OBVIOUS
<1> SUFFICES a \in Seq(S)
  BY <1>1
<1>2. /\ \A y \in Commands : Sent(y) \in S /\ <<Sent(y)>> \in Seq(S)
      /\ \A y \in Scenes : AwaitScene(y) \in S
      /\ \A y \in Commands, of \in Topics : Request(y, of) \in S
  BY <1>1, StepsThere, OneIsSeq
<1>3. \A of \in Topics : /\ Read(of, "show") \in S /\ <<Read(of, "show")>> \in Seq(S)
                         /\ Read(of, "go on") \in S /\ <<Read(of, "go on")>> \in Seq(S)
  BY <1>1, ReadsThere
<1>4. c \in Calls /\ rest \in Seq(S) /\ <<>> \in Seq(S)
  BY <1>1, EmptySeq
<1>5. CASE t \in Passive
  <2>1. a = rest
    BY <1>1, <1>5 DEF Passive, AfterRead
  <2> QED
    BY <1>4, <2>1, SMTT(60)
<1>6. CASE t \notin Passive
  <2>1. <<r.of, t>> \in Decides(c.tool)
    BY <1>1, <1>6 DEF Reads
  <2>2. CASE t = "clear" /\ r.of = "preset" /\ c.tool \in {"build_preset", "clear_grid"}
    <3>1. a = (IF x = None THEN <<>> ELSE QcClearGrid(x.blocks)) \o rest
      BY <1>1, <2>2 DEF AfterRead
    <3>2. QcClearGrid(x.blocks) \in Seq(S)
      BY <1>2, ClearGridTyped
    <3> QED
      BY <1>4, <3>1, <3>2, Joined
  <2>3. ASSUME r.of = "preset", c.cell \in Cells, Block(c, x) # None
        PROVE  Block(c, x) \in Devices /\ ParamCount[Block(c, x)] \in Params
    <3>1. x \in [blocks : Blocks]
      BY <2>3, TellsThere DEF Block
    <3>2. x # None
      BY <2>3 DEF Block
    <3>3. Block(c, x) = x.blocks[c.cell]
      BY <3>2 DEF Block
    <3>4. Block(c, x) \in Devices
      BY <2>3, <3>1, <3>3 DEF Blocks
    <3> QED
      BY <3>4, UnitAssumption DEF UnitAssumption, Params
  <2>4. CASE t = "bypass" /\ r.of = "preset" /\ c.tool = "set_block_bypass"
    <3>1. PICK f : f = [v \in Values |-> QcWriteBypass(c.cell, v)]
      OBVIOUS
    <3>2. a = IF Block(c, x) = None THEN <<>>
              ELSE QcAssignToScenes(c.cell, ParamCount[Block(c, x)]) \o Walk(c.scenes, f)
      BY <1>1, <2>4, <3>1 DEF AfterRead
    <3>3. c.cell \in Cells /\ c.scenes \in PerScene(Values)
      BY <1>4, <2>4 DEF Calls
    <3>4. f \in [Values -> Seq(S)]
      BY <1>2, <3>1, <3>3, EditTyped
    <3>5. Walk(c.scenes, f) \in Seq(S)
      BY <1>2, <3>3, <3>4, WalkTyped
    <3>6. ASSUME Block(c, x) # None
          PROVE  QcAssignToScenes(c.cell, ParamCount[Block(c, x)]) \in Seq(S)
      BY <1>2, <2>3, <2>4, <3>3, <3>6, EditTyped
    <3> QED
      BY <1>4, <3>2, <3>5, <3>6, Joined
  <2>5. CASE t = "stomp" /\ r.of = "preset" /\ c.tool = "assign_stomp"
    <3>1. a = IF Block(c, x) = None THEN <<>>
              ELSE QcAssignStomp(c.cell, c.switch, c.kind, c.momentary) \o <<Read("preset", "show")>>
      BY <1>1, <2>5 DEF AfterRead
    <3>2. c.cell \in Cells /\ c.switch \in Switches /\ c.kind \in Kinds /\ c.momentary \in BOOLEAN
      BY <1>4, <2>5 DEF Calls
    <3>3. QcAssignStomp(c.cell, c.switch, c.kind, c.momentary) \in Seq(S)
      BY <1>2, <3>2, SettingTyped
    <3>4. <<Read("preset", "show")>> \in Seq(S)
      BY <1>3 DEF Topics
    <3> QED
      BY <1>4, <3>1, <3>3, <3>4, Joined
  <2>6. CASE t = "model" /\ r.of = "preset" /\ c.tool = "load_device_preset"
    <3>1. a = IF Block(c, x) = None THEN <<>>
              ELSE <<QcModelPresets("match")>> \o QcLoadModel(c.cell, Block(c, x), c.value)
                   \o <<Read("preset", "show")>>
      BY <1>1, <2>6 DEF AfterRead
    <3>2. c.cell \in Cells /\ c.value \in Values
      BY <1>4, <2>6 DEF Calls
    <3>3. <<QcModelPresets("match")>> \in Seq(S) /\ <<Read("preset", "show")>> \in Seq(S)
      <4>1. <<"presets", "match">> \in Decides(c.tool)
        BY <2>6 DEF Decides
      <4>2. <<Read("presets", "match")>> \in Seq(S)
        BY <1>1, <4>1, StepsThere, OneIsSeq DEF Topics, Thens
      <4> QED
        BY <1>3, <4>2 DEF Topics, QcModelPresets
    <3>4. Block(c, x) # None => QcLoadModel(c.cell, Block(c, x), c.value) \in Seq(S)
      BY <1>2, <2>3, <2>6, <3>2, SettingTyped
    <3> QED
      BY <1>4, <3>1, <3>3, <3>4, Joined
  <2>7. CASE t = "save" /\ r.of = "preset" /\ c.tool = "save_device_preset"
    <3>1. a = IF Block(c, x) = None THEN <<>>
              ELSE <<QcModelPresets("go on")>> \o QcSaveModel(c.cell, c.name)
      BY <1>1, <2>7 DEF AfterRead
    <3>2. c.cell \in Cells /\ c.name \in Names
      BY <1>4, <2>7 DEF Calls
    <3>3. <<QcModelPresets("go on")>> \in Seq(S)
      BY <1>3 DEF Topics, QcModelPresets
    <3>4. PICK e, f : e = [op |-> "select", cell |-> c.cell] /\ f = [op |-> "create", name |-> c.name]
      OBVIOUS
    <3>5. e \in Commands
      BY <3>2, <3>4 DEF Commands
    <3>6. f \in Commands
      BY <3>2, <3>4 DEF Commands
    <3>7. <<Request(e, "presets")>> \in Seq(S) /\ <<Request(f, "presets")>> \in Seq(S)
      BY <1>2, <3>5, <3>6, OneIsSeq DEF Topics
    <3>8. QcSaveModel(c.cell, c.name) \in Seq(S)
      BY <3>4, <3>7, Joined DEF QcSaveModel, QcSelectSlot
    <3> QED
      BY <1>4, <3>1, <3>3, <3>8, Joined
  <2>8. CASE t = "delete" /\ r.of = "presets" /\ c.tool = "delete_device_preset"
    <3>1. a = <<>> \/ a = QcDeleteModel(c.name) \o rest
      BY <1>1, <2>8 DEF AfterRead
    <3>2. c.name \in Names
      BY <1>4, <2>8 DEF Calls
    <3>3. QcDeleteModel(c.name) \in Seq(S)
      BY <1>2, <3>2, SettingTyped
    <3> QED
      BY <1>4, <3>1, <3>3, Joined
  <2>9. CASE t = "mode" /\ r.of = "mode" /\ c.tool = "switch_mode"
    <3>1. a = <<>> \/ a = QcSetMode(c.mode)
      BY <1>1, <2>9 DEF AfterRead
    <3>2. c.mode \in Modes
      BY <1>4, <2>9 DEF Calls
    <3>3. QcSetMode(c.mode) \in Seq(S)
      BY <1>2, <3>2, SettingTyped
    <3> QED
      BY <1>4, <3>1, <3>3
  <2>10. CASE t \in {"confirm", "previous"} /\ r.of \in {"io", "eq"} /\ c.tool = "load_settings_preset"
    <3>1. \/ a = <<>> \/ a = rest
          \/ a = QcLoadSettings(c.target, c.value) \o <<Read(c.target, "show")>>
      BY <1>1, <2>10 DEF AfterRead
    <3>2. c.target \in {"io", "eq"} /\ c.value \in Values
      BY <1>4, <2>10 DEF Calls
    <3>3. QcLoadSettings(c.target, c.value) \in Seq(S)
      BY <1>2, <3>2, SettingTyped
    <3>4. <<Read(c.target, "show")>> \in Seq(S)
      BY <1>3, <3>2 DEF Topics
    <3> QED
      BY <1>4, <3>1, <3>3, <3>4, Joined
  <2>11. CASE t = "match"
    <3>1. a = <<>> \/ a = rest
      BY <1>1, <2>11 DEF AfterRead
    <3> QED
      BY <1>4, <3>1, Zenon
  <2> QED
    BY <2>1, <2>2, <2>4, <2>5, <2>6, <2>7, <2>8, <2>9, <2>10, <2>11, DecidesThere
<1> QED
  BY <1>5, <1>6

\* The unit tells what it is asked for.
LEMMA ToldTyped ==
  ASSUME NEW u \in Units, NEW of \in Topics
  PROVE  Told(u, of) \in TellsOf(of)
<1>1. CASE of = "scene"
  BY <1>1, TellsThere DEF Told, Units
<1>2. CASE of = "mode"
  BY <1>2, TellsThere DEF Told, Units
<1>3. CASE of \in {"eq", "io"}
  BY <1>3, TellsThere DEF Told, Units
<1>4. CASE of = "preset"
  BY <1>4, TellsThere DEF Told, Units
<1>5. CASE of = "presets"
  BY <1>5, TellsThere DEF Told, Units
<1> QED
  BY <1>1, <1>2, <1>3, <1>4, <1>5 DEF Topics

-----------------------------------------------------------------------------
(* What is asked and what is answered *)

\* One more at the front.
LEMMA FrontIs ==
  ASSUME NEW S, NEW x, NEW s \in Seq(S)
  PROVE  /\ <<x>> \o s # <<>> /\ Head(<<x>> \o s) = x /\ Tail(<<x>> \o s) = s
         /\ <<x>> \o s \in Seq(S \cup {x}) /\ Len(<<x>> \o s) = Len(s) + 1
         /\ (<<x>> \o s)[1] = x /\ \A i \in 1 .. Len(s) : (<<x>> \o s)[i + 1] = s[i]
<1>1. PICK T, n, b, a : T = S \cup {x} /\ n = Len(s) /\ n \in Nat /\ b = <<x>> /\ a = b \o s
  BY LenProperties
<1>2. s \in Seq(T)
  BY <1>1, SeqMonotonic
<1>3. b \in Seq(T) /\ Len(b) = 1 /\ b[1] = x
  <2>1. x \in T
    BY <1>1
  <2> QED
    BY <1>1, <2>1, OneIsSeq
<1>4. /\ a \in Seq(T) /\ Len(a) = n + 1
      /\ \A i \in 1 .. n + 1 : a[i] = IF i <= 1 THEN b[i] ELSE s[i - 1]
  BY <1>1, <1>2, <1>3, ConcatProperties
<1>5. a[1] = x
  BY <1>1, <1>3, <1>4
<1>6. \A i \in 1 .. n : a[i + 1] = s[i]
  <2> TAKE i \in 1 .. n
  <2>1. i + 1 \in 1 .. n + 1 /\ ~(i + 1 <= 1) /\ (i + 1) - 1 = i
    BY <1>1
  <2> QED
    BY <1>4, <2>1
<1>7. a # <<>> /\ Head(a) = x
  BY <1>1, <1>4, <1>5, EmptySeq DEF Head
<1>8. PICK t : t = Tail(a) /\ t \in Seq(T) /\ Len(t) = n /\ \A i \in 1 .. n : t[i] = a[i + 1]
  <2>1. Tail(a) \in Seq(T) /\ Len(Tail(a)) = Len(a) - 1
        /\ \A i \in 1 .. Len(Tail(a)) : Tail(a)[i] = a[i + 1]
    BY <1>4, <1>7, HeadTailProperties
  <2>2. Len(a) - 1 = n
    BY <1>1, <1>4
  <2> QED
    BY <2>1, <2>2
<1>9. t = s
  <2>1. Len(t) = Len(s) /\ \A i \in 1 .. Len(t) : t[i] = s[i]
    BY <1>1, <1>6, <1>8
  <2> QED
    BY <1>2, <1>8, <2>1, SeqEqual
<1> QED
  BY <1>1, <1>4, <1>5, <1>6, <1>7, <1>8, <1>9

\* Every sequence is its head and the rest.
LEMMA FrontBack ==
  ASSUME NEW S, NEW s \in Seq(S), s # <<>>
  PROVE  Head(s) \in S /\ Tail(s) \in Seq(S) /\ s = <<Head(s)>> \o Tail(s)
<1>1. PICK x, t, n : x = Head(s) /\ t = Tail(s) /\ n = Len(s) /\ n \in Nat
  BY LenProperties
<1>2. /\ x \in S /\ t \in Seq(S) /\ Len(t) = n - 1
      /\ \A i \in 1 .. Len(t) : t[i] = s[i + 1]
  BY <1>1, HeadTailProperties
<1>3. S \cup {x} = S
  BY <1>2
<1>4. PICK a : a = <<x>> \o t
  OBVIOUS
<1>5. a \in Seq(S) /\ Len(a) = n /\ a[1] = x /\ \A i \in 1 .. Len(t) : a[i + 1] = t[i]
  <2>1. Len(t) + 1 = n
    BY <1>1, <1>2
  <2>2. /\ <<x>> \o t \in Seq(S \cup {x}) /\ Len(<<x>> \o t) = Len(t) + 1 /\ (<<x>> \o t)[1] = x
        /\ \A i \in 1 .. Len(t) : (<<x>> \o t)[i + 1] = t[i]
    BY <1>2, FrontIs
  <2> QED
    BY <1>3, <1>4, <2>1, <2>2
<1>6. \A i \in 1 .. n : a[i] = s[i]
  <2> TAKE i \in 1 .. n
  <2>1. CASE i = 1
    BY <1>1, <1>5, <2>1 DEF Head
  <2>2. CASE i # 1
    <3>1. i - 1 \in 1 .. Len(t) /\ (i - 1) + 1 = i
      BY <1>1, <1>2, <2>2
    <3> QED
      BY <1>2, <1>5, <3>1
  <2> QED
    BY <2>1, <2>2
<1>7. a = s
  BY <1>1, <1>5, <1>6, SeqEqual
<1> QED
  BY <1>1, <1>2, <1>4, <1>7

\* A course that is under way.
LEMMA CourseIs ==
  ASSUME NEW tool, NEW s, Course(tool, s), s # <<>>
  PROVE  /\ Tail(s) \in Seq(Steps(tool)) /\ s = <<Head(s)>> \o Tail(s)
         /\ Head(s).do = "wait" => Head(s) \in Pauses(tool)
         /\ Head(s).do # "wait" => Head(s) \in Steps(tool) /\ s \in Seq(Steps(tool))
<1>1. CASE s \in Seq(Steps(tool))
  <2>1. Head(s) \in Steps(tool) /\ Tail(s) \in Seq(Steps(tool)) /\ s = <<Head(s)>> \o Tail(s)
    BY <1>1, FrontBack
  <2>2. Head(s).do # "wait"
    BY <2>1 DEF Steps, Sends, Asks, Reads, Awaits
  <2> QED
    BY <1>1, <2>1, <2>2
<1>2. CASE \E p \in Pauses(tool), rest \in Seq(Steps(tool)) : s = <<p>> \o rest
  <2>1. PICK p \in Pauses(tool), rest \in Seq(Steps(tool)) : s = <<p>> \o rest
    BY <1>2
  <2>2. Head(s) = p /\ Tail(s) = rest
    BY <2>1, FrontIs
  <2>3. p.do = "wait"
    BY DEF Pauses
  <2> QED
    BY <2>1, <2>2, <2>3
<1> QED
  BY <1>1, <1>2 DEF Course

\* Steps that wait for nothing are a course.
LEMMA StepsAreCourse ==
  ASSUME NEW tool, NEW s \in Seq(Steps(tool))
  PROVE  Course(tool, s)
  BY DEF Course

\* v's questions among those of q.
Questions(q, v) == {i \in 1 .. Len(q) : q[i].by = v /\ q[i].read # None}

\* v has asked in q for no more than in p, and is answered no more in r than in s.
Less(q, p, v) ==
  /\ \A i \in Questions(q, v) : \E j \in Questions(p, v) : q[i].read = p[j].read
  /\ (\A i, j \in Questions(p, v) : i = j) => (\A i, j \in Questions(q, v) : i = j)
Fewer(r, s, v) ==
  /\ \A i \in For(r, v) : \E j \in For(s, v) : r[i].of = s[j].of /\ r[i].is = s[j].is
  /\ (\A i, j \in For(s, v) : i = j) => (\A i, j \in For(r, v) : i = j)

\* The names of the invariant, for any sequence.
LEMMA AskedIs ==
  ASSUME NEW v
  PROVE  Asked(v) = Questions(queue, v) /\ Mine(v) = For(pending, v)
  BY DEF Asked, Mine, Questions, For

\* Nothing is less than nothing, and everything is no more than itself.
LEMMA NoMore ==
  ASSUME NEW q, NEW v
  PROVE  Less(q, q, v) /\ Fewer(q, q, v)
  BY DEF Less, Fewer

\* A message of another, or one that asks nothing, is no question of v.
LEMMA LessAppend ==
  ASSUME NEW q \in Seq(Messages), NEW m \in Messages, NEW v, m.by # v \/ m.read = None
  PROVE  /\ Less(Append(q, m), q, v) /\ Questions(Append(q, m), v) = Questions(q, v)
<1>1. PICK n \in Nat : n = Len(q)
  BY LenProperties
<1>2. PICK a : a = Append(q, m)
  OBVIOUS
<1>3. Len(a) = n + 1 /\ a[n + 1] = m /\ \A i \in 1 .. n : a[i] = q[i]
  BY <1>1, <1>2, AppendProperties
<1>4. \A i \in 1 .. n + 1 : i \in 1 .. n \/ i = n + 1
  OBVIOUS
<1>5. \A i \in Questions(a, v) : i \in 1 .. n
  BY <1>3, <1>4 DEF Questions
<1>6. Questions(a, v) = Questions(q, v) /\ \A i \in Questions(q, v) : a[i] = q[i]
  BY <1>1, <1>3, <1>5 DEF Questions
<1> QED
  BY <1>2, <1>6 DEF Less

\* What is left of a queue once its first message is taken.
LEMMA LessTail ==
  ASSUME NEW q \in Seq(Messages), q # <<>>, NEW v
  PROVE  /\ Less(Tail(q), q, v)
         /\ \A i \in Questions(Tail(q), v) : i + 1 \in Questions(q, v)
<1>1. PICK n \in Nat : n = Len(q)
  BY LenProperties
<1>2. PICK t : t = Tail(q)
  OBVIOUS
<1>3. Len(t) = n - 1 /\ \A i \in 1 .. Len(t) : t[i] = q[i + 1]
  BY <1>1, <1>2, HeadTailProperties
<1>4. \A i \in Questions(t, v) : i + 1 \in Questions(q, v) /\ t[i] = q[i + 1] /\ i \in Nat
  BY <1>1, <1>3 DEF Questions
<1>5. ASSUME \A i, j \in Questions(q, v) : i = j, NEW i \in Questions(t, v), NEW j \in Questions(t, v)
      PROVE  i = j
  <2>1. i + 1 = j + 1 /\ i \in Nat /\ j \in Nat
    BY <1>4, <1>5
  <2> QED
    BY <2>1
<1> QED
  BY <1>2, <1>4, <1>5 DEF Less

\* What is nobody's any more is the same message otherwise.
LEMMA NotByIs ==
  ASSUME NEW w, queue \in Seq(Messages), w # None
  PROVE  /\ NotBy(w) \in Seq(Messages) /\ Len(NotBy(w)) = Len(queue)
         /\ \A i \in 1 .. Len(queue) :
              /\ NotBy(w)[i].cmd = queue[i].cmd /\ NotBy(w)[i].read = queue[i].read
              /\ NotBy(w)[i].by # w /\ NotBy(w)[i].by \in {queue[i].by, None}
<1>1. PICK n \in Nat : n = Len(queue)
  BY LenProperties
<1>2. PICK q : q = NotBy(w)
  OBVIOUS
<1>3. q = [i \in 1 .. n |-> IF queue[i].by = w THEN [queue[i] EXCEPT !.by = None] ELSE queue[i]]
  BY <1>1, <1>2 DEF NotBy
<1>4. ASSUME NEW m \in Messages
      PROVE  /\ [m EXCEPT !.by = None] \in Messages /\ [m EXCEPT !.by = None].cmd = m.cmd
             /\ [m EXCEPT !.by = None].read = m.read /\ [m EXCEPT !.by = None].by = None
  BY DEF Messages
<1>5. \A i \in 1 .. n : queue[i] \in Messages
  BY <1>1, ElementOfSeq
<1>6. \A i \in 1 .. n : /\ q[i] \in Messages
                        /\ q[i].cmd = queue[i].cmd /\ q[i].read = queue[i].read
                        /\ q[i].by # w /\ q[i].by \in {queue[i].by, None}
  BY <1>3, <1>4, <1>5
<1>7. q \in [1 .. n -> Messages]
  BY <1>3, <1>6
<1>8. q \in Seq(Messages) /\ Len(q) = n
  BY <1>7, FunctionIsSeq
<1> QED
  BY <1>1, <1>2, <1>6, <1>8

\* Nothing of it is a question of w, or a new one of another.
LEMMA LessNotBy ==
  ASSUME NEW w, queue \in Seq(Messages), w # None, NEW v, v # None
  PROVE  Less(NotBy(w), queue, v) /\ Questions(NotBy(w), w) = {}
<1>1. PICK q : q = NotBy(w)
  OBVIOUS
<1>2. /\ Len(q) = Len(queue)
      /\ \A i \in 1 .. Len(queue) : /\ q[i].cmd = queue[i].cmd /\ q[i].read = queue[i].read
                                    /\ q[i].by # w /\ q[i].by \in {queue[i].by, None}
  BY <1>1, NotByIs
<1>3. \A i \in Questions(q, v) : i \in Questions(queue, v) /\ q[i].read = queue[i].read
  BY <1>2 DEF Questions
<1> QED
  BY <1>1, <1>2, <1>3 DEF Less, Questions

\* A thinner sequence answers no more.
LEMMA FewerThinned ==
  ASSUME NEW p \in Seq(Answers), NEW q, Thinned(q, p), NEW v, v # None
  PROVE  Fewer(q, p, v)
  BY ThinnedFor DEF Fewer

\* An answer to another is none to v.
LEMMA FewerAppend ==
  ASSUME NEW p \in Seq(Answers), NEW a \in Answers, NEW v, a.to # v
  PROVE  /\ Fewer(Append(p, a), p, v) /\ For(Append(p, a), v) = For(p, v)
         /\ \A i \in For(p, v) : Append(p, a)[i] = p[i]
<1>1. PICK n \in Nat : n = Len(p)
  BY LenProperties
<1>2. PICK q : q = Append(p, a)
  OBVIOUS
<1>3. Len(q) = n + 1 /\ q[n + 1] = a /\ \A i \in 1 .. n : q[i] = p[i]
  BY <1>1, <1>2, AppendProperties
<1>4. \A i \in 1 .. n + 1 : i \in 1 .. n \/ i = n + 1
  OBVIOUS
<1>5. \A i \in For(q, v) : i \in 1 .. n
  BY <1>3, <1>4 DEF For
<1>6. For(q, v) = For(p, v) /\ \A i \in For(p, v) : q[i] = p[i]
  BY <1>1, <1>3, <1>5 DEF For
<1> QED
  BY <1>2, <1>6 DEF Fewer

\* Who asks no more and is answered no more waits as before.
LEMMA WaitedKept ==
  ASSUME NEW v, Waited(v), todo'[v] = todo[v],
         Less(queue', queue, v), Fewer(pending', pending, v)
  PROVE  Waited(v)'
<1>1. Asked(v) = Questions(queue, v) /\ Mine(v) = For(pending, v)
  BY AskedIs
<1>2. Asked(v)' = Questions(queue', v) /\ Mine(v)' = For(pending', v)
  BY DEF Asked, Mine, Questions, For
<1>3. (Asked(v)' = {} \/ Mine(v)' = {})
  BY <1>1, <1>2 DEF Waited, Less, Fewer
<1>4. /\ \A i \in Asked(v)' : Doing(v, "wait")' /\ queue'[i].read = Head(todo'[v]).of
      /\ \A i \in Mine(v)' : Doing(v, "wait")' /\ pending'[i].of = Head(todo'[v]).of
  BY <1>1, <1>2 DEF Waited, Less, Fewer, Doing
<1>5. (\A i, j \in Asked(v)' : i = j) /\ (\A i, j \in Mine(v)' : i = j)
  BY <1>1, <1>2 DEF Waited, Less, Fewer
<1> QED
  BY <1>3, <1>4, <1>5 DEF Waited

-----------------------------------------------------------------------------
(* What a worker does next *)

\* A call that is under way is one of those there are, at a step of its tool.
LEMMA CallIs ==
  ASSUME Typed, NEW w \in Workers, todo[w] # <<>>
  PROVE  /\ call[w] \in Calls
         /\ Tail(todo[w]) \in Seq(Steps(call[w].tool)) /\ todo[w] = <<Head(todo[w])>> \o Tail(todo[w])
         /\ Doing(w, "wait") => Head(todo[w]) \in Pauses(call[w].tool)
         /\ ~Doing(w, "wait") => Head(todo[w]) \in Steps(call[w].tool)
<1>1. PICK t, s : t = call[w].tool /\ s = todo[w]
  OBVIOUS
<1>2. call[w] \in Calls /\ Course(t, s) /\ s # <<>>
  BY <1>1 DEF Typed
<1>3. /\ Tail(s) \in Seq(Steps(t)) /\ s = <<Head(s)>> \o Tail(s)
      /\ Head(s).do = "wait" => Head(s) \in Pauses(t)
      /\ Head(s).do # "wait" => Head(s) \in Steps(t)
  BY <1>2, CourseIs
<1> QED
  BY <1>1, <1>2, <1>3 DEF Doing

\* Who waits for nothing has asked nothing and is answered nothing.
LEMMA NothingAsked ==
  ASSUME NEW w, Waited(w), ~Doing(w, "wait")
  PROVE  Asked(w) = {} /\ Mine(w) = {}
  BY DEF Waited

\* What is sent is a message, and no question.
LEMMA SendIs ==
  ASSUME Typed, NEW w \in Workers, Send(w)
  PROVE  \E c \in Commands, rest \in Seq(Steps(call[w].tool)) :
           /\ todo[w] = <<Sent(c)>> \o rest /\ todo' = [todo EXCEPT ![w] = rest]
           /\ queue' = Append(queue, [by |-> w, cmd |-> c, read |-> None])
           /\ [by |-> w, cmd |-> c, read |-> None] \in Messages
           /\ call[w] \in Calls /\ ~Doing(w, "wait")
<1>1. todo[w] # <<>> /\ Head(todo[w]).do = "send" /\ ~Doing(w, "wait")
  BY DEF Send, Doing
<1>2. PICK step, rest, c : step = Head(todo[w]) /\ rest = Tail(todo[w]) /\ c = step.cmd
  OBVIOUS
<1>3. /\ call[w] \in Calls /\ rest \in Seq(Steps(call[w].tool))
      /\ todo[w] = <<step>> \o rest /\ step \in Steps(call[w].tool)
  BY <1>1, <1>2, CallIs
<1>4. c \in Commands /\ step = Sent(c)
  BY <1>1, <1>2, <1>3 DEF Sent, Steps, Sends, Asks, Reads, Awaits
<1>5. [by |-> w, cmd |-> c, read |-> None] \in Messages
  BY <1>4 DEF Messages
<1>6. todo' = [todo EXCEPT ![w] = rest]
      /\ queue' = Append(queue, [by |-> w, cmd |-> c, read |-> None])
  BY <1>2 DEF Send
<1> QED
  BY <1>1, <1>3, <1>4, <1>5, <1>6

\* What is asked is a message, and from then on it is waited for.
LEMMA AskIs ==
  ASSUME Typed, NEW w \in Workers, Ask(w)
  PROVE  \E step \in Asks(call[w].tool), rest \in Seq(Steps(call[w].tool)) :
           /\ todo[w] = <<step>> \o rest
           /\ todo' = [todo EXCEPT ![w] = <<Waiting(step)>> \o rest]
           /\ queue' = Append(queue, [by |-> w, cmd |-> step.cmd, read |-> step.of])
           /\ [by |-> w, cmd |-> step.cmd, read |-> step.of] \in Messages
           /\ Waiting(step) \in Pauses(call[w].tool) /\ step.of \in Topics
           /\ call[w] \in Calls /\ ~Doing(w, "wait")
<1>1. todo[w] # <<>> /\ Head(todo[w]).do \in {"read", "await"} /\ ~Doing(w, "wait")
  BY DEF Ask, Doing
<1>2. PICK step, rest : step = Head(todo[w]) /\ rest = Tail(todo[w])
  OBVIOUS
<1>3. /\ call[w] \in Calls /\ rest \in Seq(Steps(call[w].tool))
      /\ todo[w] = <<step>> \o rest /\ step \in Steps(call[w].tool)
  BY <1>1, <1>2, CallIs
<1>4. step \in Asks(call[w].tool)
  BY <1>1, <1>2, <1>3 DEF Steps, Sends
<1>5. step.of \in Topics /\ step.cmd \in Commands \cup {None}
  BY <1>4 DEF Asks, Reads, Awaits, Topics
<1>6. [by |-> w, cmd |-> step.cmd, read |-> step.of] \in Messages
  BY <1>5 DEF Messages
<1>7. Waiting(step) \in Pauses(call[w].tool)
  BY <1>4, <1>5 DEF Waiting, Pauses
<1>8. todo' = [todo EXCEPT ![w] = <<Waiting(step)>> \o rest]
      /\ queue' = Append(queue, [by |-> w, cmd |-> step.cmd, read |-> step.of])
  BY <1>2 DEF Ask, Waiting
<1> QED
  BY <1>1, <1>3, <1>4, <1>5, <1>6, <1>7, <1>8

\* What is waited for has been asked.
LEMMA WaitIs ==
  ASSUME Typed, NEW w \in Workers, Doing(w, "wait")
  PROVE  \E step \in Asks(call[w].tool), rest \in Seq(Steps(call[w].tool)) :
           /\ todo[w] = <<Waiting(step)>> \o rest
           /\ Head(todo[w]).for = step /\ Head(todo[w]).of = step.of /\ Tail(todo[w]) = rest
           /\ step.of \in Topics /\ call[w] \in Calls
<1>1. todo[w] # <<>>
  BY DEF Doing
<1>2. PICK p, rest : p = Head(todo[w]) /\ rest = Tail(todo[w])
  OBVIOUS
<1>3. /\ call[w] \in Calls /\ rest \in Seq(Steps(call[w].tool))
      /\ todo[w] = <<p>> \o rest /\ p \in Pauses(call[w].tool)
  BY <1>1, <1>2, CallIs
<1>4. p.for \in Asks(call[w].tool) /\ p.of = p.for.of /\ p.of \in Topics
      /\ p = [do |-> "wait", of |-> p.of, for |-> p.for]
  BY <1>3 DEF Pauses
<1>5. p = Waiting(p.for)
  BY <1>4 DEF Waiting
<1> QED
  BY <1>2, <1>3, <1>4, <1>5

\* How a step goes on with x.
Onward(w, step, x, rest) ==
  IF step.do = "read" THEN AfterRead(w, step.then, x, rest)
  ELSE IF x = step.scene \/ step.left = 1 THEN rest
  ELSE <<[step EXCEPT !.left = @ - 1]>> \o rest

\* It goes on with steps of its tool.
LEMMA OnwardTyped ==
  ASSUME NEW w, call[w] \in Calls, NEW step \in Asks(call[w].tool),
         NEW x \in TellsOf(step.of) \cup {None}, NEW rest \in Seq(Steps(call[w].tool))
  PROVE  Onward(w, step, x, rest) \in Seq(Steps(call[w].tool))
<1>1. CASE step \in Reads(call[w].tool)
  <2>1. Onward(w, step, x, rest) = AfterRead(w, step.then, x, rest)
    BY <1>1 DEF Onward, Reads
  <2> QED
    BY <1>1, <2>1, AfterReadTyped
<1>2. CASE step \in Awaits
  <2>1. PICK again : again = [step EXCEPT !.left = step.left - 1]
    OBVIOUS
  <2>2. Onward(w, step, x, rest) = IF x = step.scene \/ step.left = 1 THEN rest
                                   ELSE <<again>> \o rest
    BY <1>2, <2>1 DEF Onward, Awaits
  <2>3. ASSUME step.left # 1 PROVE again \in Steps(call[w].tool)
    <3>1. step.left \in 1 .. Rounds /\ Rounds \in Nat
      BY <1>2, PresetToolsAssumption DEF Awaits
    <3>2. step.left - 1 \in 1 .. Rounds
      BY <2>3, <3>1
    <3>3. again \in Awaits
      BY <1>2, <2>1, <3>2 DEF Awaits
    <3> QED
      BY <3>3 DEF Steps, Asks
  <2>4. step.left # 1 => <<again>> \o rest \in Seq(Steps(call[w].tool))
    BY <2>3, OneIsSeq, Joined
  <2> QED
    BY <2>2, <2>4
<1> QED
  BY <1>1, <1>2 DEF Asks

\* Going on from what is waited for.
LEMMA ContinueIs ==
  ASSUME Typed, NEW w \in Workers, NEW step, NEW rest,
         Head(todo[w]).for = step, Tail(todo[w]) = rest, NEW x, Continue(w, x)
  PROVE  todo' = [todo EXCEPT ![w] = Onward(w, step, x, rest)]
  BY DEF Continue, Onward

\* The earliest of some numbers is one of them.
LEMMA EarliestIs ==
  ASSUME NEW S \in SUBSET Nat, S # {}
  PROVE  Earliest(S) \in S
<1>1. PICK i \in S : \A j \in S : i <= j
  BY LeastNumber
<1> QED
  BY <1>1 DEF Earliest

\* A step of a call leaves everything typed if what it touches is.
LEMMA TypedStep ==
  ASSUME Typed, NEW w \in Workers, NEW s, todo' = [todo EXCEPT ![w] = s],
         Course(call[w].tool, s), call[w] \in Calls, call' = call, made' = made, unit' = unit,
         clean' \in [Workers -> BOOLEAN], \A v \in Workers : clean'[v] => clean[v],
         queue' \in Seq(Messages), pending' \in Seq(Answers)
  PROVE  Typed' /\ todo'[w] = s /\ \A v \in Workers : v # w => todo'[v] = todo[v]
<1>1. PICK t : t = todo /\ t = [v \in Workers |-> t[v]]
  BY DEF Typed
<1>2. todo' = [v \in Workers |-> IF v = w THEN s ELSE todo[v]]
  BY <1>1
<1>3. todo'[w] = s /\ \A v \in Workers : v # w => todo'[v] = todo[v]
  BY <1>2
<1>4. todo' = [v \in Workers |-> todo'[v]]
  BY <1>2
<1>5. \A v \in Workers : Course(call'[v].tool, todo'[v])
  BY <1>3 DEF Typed
<1>6. \A v \in Workers : todo'[v] # <<>> \/ clean'[v] => call'[v] \in Calls
  BY <1>3 DEF Typed
<1>7. unit' \in Units /\ Tidy(unit') /\ call' \in [Workers -> Calls \cup {NoCall}]
      /\ made' \in [Workers -> Nat]
  BY DEF Typed
<1>8. Tidy(unit)'
  BY <1>7
<1>9. \A v \in Workers : Course(call[v].tool, todo[v])'
  BY <1>5 DEF Course
<1> QED
  BY <1>3, <1>4, <1>6, <1>7, <1>8, <1>9 DEF Typed

\* Nobody but w is disturbed.
LEMMA DisturbedIs ==
  ASSUME Typed, NEW w \in Workers
  PROVE  /\ Disturbed(w) \in [Workers -> BOOLEAN]
         /\ \A v \in Workers : Disturbed(w)[v] => clean[v] /\ v = w
<1>1. \A v \in Workers : clean[v] \in BOOLEAN
  BY DEF Typed
<1>2. \A v \in Workers : (clean[v] /\ v = w) \in BOOLEAN
  BY Zenon
<1> QED
  BY <1>2, Zenon DEF Disturbed

\* A call may begin.
LEMMA CallKeeps ==
  ASSUME Sound, NEW w \in Workers, Call(w)
  PROVE  Sound'
<1>1. PICK c \in Jobs[w] : call' = [call EXCEPT ![w] = c] /\ todo' = [todo EXCEPT ![w] = Script(c)]
  BY DEF Call
<1>2. c \in Calls
  BY <1>1, PresetToolsAssumption
<1>3. Script(c) \in Seq(Steps(c.tool))
  BY <1>2, ScriptTyped
<1>4. PICK t : t = todo /\ t = [v \in Workers |-> t[v]]
  BY DEF Sound, Typed
<1>5. todo' = [v \in Workers |-> IF v = w THEN Script(c) ELSE todo[v]]
  BY <1>1, <1>4
<1>6. todo'[w] = Script(c) /\ \A v \in Workers : v # w => todo'[v] = todo[v]
  BY <1>5
<1>7. /\ call' \in [Workers -> Calls \cup {NoCall}]
      /\ call'[w] = c /\ \A v \in Workers : v # w => call'[v] = call[v]
  BY <1>1, <1>2 DEF Sound, Typed
<1>8. \A v \in Workers : Course(call[v].tool, todo[v])'
  <2> TAKE v \in Workers
  <2>1. CASE v = w
    BY <1>3, <1>6, <1>7, <2>1 DEF Course
  <2>2. CASE v # w
    <3>1. Course(call[v].tool, todo[v])
      BY DEF Sound, Typed
    <3> QED
      BY <1>6, <1>7, <2>2, <3>1 DEF Course
  <2> QED
    BY <2>1, <2>2
<1>9. clean' \in [Workers -> BOOLEAN] /\ \A v \in Workers : v # w => clean'[v] = clean[v]
  <2>1. PICK b : b = (queue = <<>> /\ Settled(unit) /\ \A u \in Workers : todo[u] = <<>>)
                 /\ b \in BOOLEAN
    BY Zenon
  <2>2. clean' = [clean EXCEPT ![w] = b]
    BY <2>1 DEF Call
  <2> QED
    BY <2>1, <2>2 DEF Sound, Typed
<1>10. \A v \in Workers : todo'[v] # <<>> \/ clean'[v] => call'[v] \in Calls
  BY <1>2, <1>6, <1>7, <1>9 DEF Sound, Typed
<1>11. /\ made' \in [Workers -> Nat] /\ unit' = unit /\ queue' = queue /\ pending' = pending
  BY DEF Call, Sound, Typed
<1>12. unit' \in Units /\ Tidy(unit)' /\ queue' \in Seq(Messages) /\ pending' \in Seq(Answers)
  BY <1>11 DEF Sound, Typed
<1>13. todo' = [v \in Workers |-> todo'[v]]
  BY <1>5
<1>14. Typed'
  BY <1>7, <1>8, <1>9, <1>10, <1>11, <1>12, <1>13 DEF Typed
<1>15. \A v \in Workers : Waited(v)'
  <2> TAKE v \in Workers
  <2>1. CASE v = w
    <3>1. Asked(w) = {} /\ Mine(w) = {}
      BY NothingAsked DEF Sound, Call, Doing
    <3>2. Asked(w)' = {} /\ Mine(w)' = {}
      BY <1>11, <3>1 DEF Asked, Mine
    <3> QED
      BY <2>1, <3>2 DEF Waited
  <2>2. CASE v # w
    BY <1>6, <1>11, <2>2, NoMore, WaitedKept DEF Sound
  <2> QED
    BY <2>1, <2>2
<1> QED
  BY <1>14, <1>15 DEF Sound

\* A message may be sent.
LEMMA SendKeeps ==
  ASSUME Sound, NEW w \in Workers, Send(w)
  PROVE  Sound'
<1>1. PICK c \in Commands, rest \in Seq(Steps(call[w].tool)) :
        /\ todo[w] = <<Sent(c)>> \o rest /\ todo' = [todo EXCEPT ![w] = rest]
        /\ queue' = Append(queue, [by |-> w, cmd |-> c, read |-> None])
        /\ [by |-> w, cmd |-> c, read |-> None] \in Messages
        /\ call[w] \in Calls /\ ~Doing(w, "wait")
  BY SendIs DEF Sound
<1>2. PICK m : m = [by |-> w, cmd |-> c, read |-> None] /\ m \in Messages /\ m.read = None
  BY <1>1
<1>3. /\ queue' = Append(queue, m) /\ pending' = pending /\ call' = call /\ made' = made
      /\ unit' = unit /\ clean' = Disturbed(w)
  BY <1>1, <1>2 DEF Send
<1>4. queue' \in Seq(Messages) /\ pending' \in Seq(Answers)
  BY <1>2, <1>3, AppendProperties DEF Sound, Typed
<1>5. clean' \in [Workers -> BOOLEAN] /\ \A v \in Workers : clean'[v] => clean[v]
  BY <1>3, DisturbedIs DEF Sound
<1>6. Typed' /\ todo'[w] = rest /\ \A v \in Workers : v # w => todo'[v] = todo[v]
  BY <1>1, <1>3, <1>4, <1>5, StepsAreCourse, TypedStep DEF Sound
<1>7. \A v \in Workers : Waited(v)'
  <2> TAKE v \in Workers
  <2>1. Less(queue', queue, v) /\ Questions(queue', v) = Questions(queue, v)
    BY <1>2, <1>3, LessAppend DEF Sound, Typed
  <2>2. CASE v = w
    <3>1. Asked(w) = {} /\ Mine(w) = {}
      BY <1>1, NothingAsked DEF Sound
    <3>2. Asked(w)' = {} /\ Mine(w)' = {}
      BY <1>3, <2>1, <2>2, <3>1 DEF Asked, Mine, Questions
    <3> QED
      BY <2>2, <3>2 DEF Waited
  <2>3. CASE v # w
    BY <1>3, <1>6, <2>1, <2>3, NoMore, WaitedKept DEF Sound
  <2> QED
    BY <2>2, <2>3
<1> QED
  BY <1>6, <1>7 DEF Sound

\* A question may be asked.
LEMMA AskKeeps ==
  ASSUME Sound, NEW w \in Workers, Ask(w)
  PROVE  Sound'
<1>1. PICK step \in Asks(call[w].tool), rest \in Seq(Steps(call[w].tool)) :
        /\ todo[w] = <<step>> \o rest
        /\ todo' = [todo EXCEPT ![w] = <<Waiting(step)>> \o rest]
        /\ queue' = Append(queue, [by |-> w, cmd |-> step.cmd, read |-> step.of])
        /\ [by |-> w, cmd |-> step.cmd, read |-> step.of] \in Messages
        /\ Waiting(step) \in Pauses(call[w].tool) /\ step.of \in Topics
        /\ call[w] \in Calls /\ ~Doing(w, "wait")
  BY AskIs DEF Sound
<1>2. PICK m : m = [by |-> w, cmd |-> step.cmd, read |-> step.of] /\ m \in Messages
               /\ m.by = w /\ m.read = step.of
  BY <1>1
<1>3. /\ queue' = Append(queue, m) /\ pending' = pending /\ call' = call /\ made' = made
      /\ unit' = unit /\ clean' = Disturbed(w)
  BY <1>1, <1>2 DEF Ask
<1>4. queue' \in Seq(Messages) /\ pending' \in Seq(Answers)
  BY <1>2, <1>3, AppendProperties DEF Sound, Typed
<1>5. clean' \in [Workers -> BOOLEAN] /\ \A v \in Workers : clean'[v] => clean[v]
  BY <1>3, DisturbedIs DEF Sound
<1>6. Course(call[w].tool, <<Waiting(step)>> \o rest)
  BY <1>1 DEF Course
<1>7. /\ Typed' /\ todo'[w] = <<Waiting(step)>> \o rest
      /\ \A v \in Workers : v # w => todo'[v] = todo[v]
  BY <1>1, <1>3, <1>4, <1>5, <1>6, TypedStep DEF Sound
<1>8. \A v \in Workers : Waited(v)'
  <2> TAKE v \in Workers
  <2>1. CASE v = w
    <3>1. Asked(w) = {} /\ Mine(w) = {}
      BY <1>1, NothingAsked DEF Sound
    <3>2. PICK n \in Nat : n = Len(queue)
      BY LenProperties DEF Sound, Typed
    <3>3. /\ Len(queue') = n + 1 /\ queue'[n + 1] = m
          /\ \A i \in 1 .. n : queue'[i] = queue[i]
      BY <1>2, <1>3, <3>2, AppendProperties DEF Sound, Typed
    <3>4. \A i \in 1 .. n + 1 : i \in 1 .. n \/ i = n + 1
      OBVIOUS
    <3>5. \A i \in Asked(w)' : i = n + 1
      BY <3>1, <3>2, <3>3, <3>4 DEF Asked
    <3>6. Mine(w)' = {}
      BY <1>3, <3>1 DEF Mine
    <3>7. Head(todo'[w]) = Waiting(step) /\ todo'[w] # <<>>
      BY <1>7, FrontIs
    <3>8. Doing(w, "wait")' /\ Head(todo'[w]).of = step.of
      BY <3>7 DEF Doing, Waiting
    <3>9. \A i \in Asked(w)' : queue'[i].read = Head(todo'[w]).of
      BY <1>2, <3>3, <3>5, <3>8
    <3> QED
      BY <2>1, <3>5, <3>6, <3>8, <3>9 DEF Waited
  <2>2. CASE v # w
    <3>1. Less(queue', queue, v)
      BY <1>2, <1>3, <2>2, LessAppend DEF Sound, Typed
    <3> QED
      BY <1>3, <1>7, <2>2, <3>1, NoMore, WaitedKept DEF Sound
  <2> QED
    BY <2>1, <2>2
<1> QED
  BY <1>7, <1>8 DEF Sound

\* What is answered and what remains when a worker finds its answer.
LEMMA AnsweredIs ==
  ASSUME Sound, NEW w \in Workers, Answered(w)
  PROVE  \E step \in Asks(call[w].tool), rest \in Seq(Steps(call[w].tool)), i \in Mine(w) :
           /\ todo[w] = <<Waiting(step)>> \o rest /\ call[w] \in Calls /\ step.of \in Topics
           /\ pending[i].of = step.of /\ pending[i].is \in TellsOf(step.of)
           /\ todo' = [todo EXCEPT ![w] = Onward(w, step, pending[i].is, rest)]
           /\ Onward(w, step, pending[i].is, rest) \in Seq(Steps(call[w].tool))
           /\ Thinned(pending', pending) /\ For(pending', w) = {}
           /\ clean' = [clean EXCEPT ![w] =
                          @ /\ (step.do = "await" => pending[i].is = step.scene \/ step.left > 1)]
<1>1. Doing(w, "wait") /\ Mine(w) # {}
  BY DEF Answered
<1>2. PICK step \in Asks(call[w].tool), rest \in Seq(Steps(call[w].tool)) :
        /\ todo[w] = <<Waiting(step)>> \o rest
        /\ Head(todo[w]).for = step /\ Head(todo[w]).of = step.of /\ Tail(todo[w]) = rest
        /\ step.of \in Topics /\ call[w] \in Calls
  BY <1>1, WaitIs DEF Sound
<1>3. PICK i : i = Earliest(Mine(w))
  OBVIOUS
<1>4. pending \in Seq(Answers) /\ w # None
  BY PresetToolsAssumption DEF Sound, Typed
<1>5. i \in Mine(w) /\ i \in 1 .. Len(pending)
  <2>1. Len(pending) \in Nat
    BY <1>4, LenProperties
  <2>2. Mine(w) \in SUBSET Nat
    BY <2>1 DEF Mine
  <2>3. i \in Mine(w)
    BY <1>1, <1>3, <2>2, EarliestIs
  <2> QED
    BY <2>3 DEF Mine
<1>6. pending[i] \in Answers
  BY <1>4, <1>5, ElementOfSeq
<1>7. pending[i].of = step.of /\ pending[i].is \in TellsOf(step.of)
  BY <1>2, <1>5, <1>6 DEF Sound, Waited, Answers
<1>8. PICK x : x = pending[i].is /\ Continue(w, x)
  BY <1>3 DEF Answered
<1>9. todo' = [todo EXCEPT ![w] = Onward(w, step, x, rest)]
  BY <1>2, <1>8, ContinueIs DEF Sound
<1>10. Onward(w, step, x, rest) \in Seq(Steps(call[w].tool))
  BY <1>2, <1>7, <1>8, OnwardTyped
<1>11. PICK q : q = [pending EXCEPT ![i].to = None]
  OBVIOUS
<1>12. \A j \in 1 .. Len(pending) : pending[j].to = w => j = i
  BY <1>5 DEF Sound, Waited, Mine
<1>13. q \in Seq(Answers) /\ Thinned(q, pending) /\ For(q, w) = {}
  <2>1. /\ Thinned(q, pending) /\ q \in Seq(Answers) /\ Len(q) = Len(pending)
        /\ q[i].to = None /\ \A j \in 1 .. Len(pending) : j # i => q[j] = pending[j]
    BY <1>4, <1>5, <1>11, GiveUpThins, ZenonT(60)
  <2>2. \A j \in 1 .. Len(q) : q[j].to # w
    BY <1>4, <1>12, <2>1
  <2> QED
    BY <2>1, <2>2 DEF For
<1>14. \/ pending' = RemoveAt(pending, i)
       \/ pending' = q
       \/ pending' = Without(q, pending[i].of)
  BY <1>3, <1>11 DEF Answered
<1>15. Thinned(pending', pending) /\ For(pending', w) = {}
  <2>1. CASE pending' = RemoveAt(pending, i)
    <3>1. Thinned(pending', pending)
      BY <1>4, <1>5, <2>1, RemoveThins
    <3>2. \A j \in 1 .. Len(pending') :
            \E k \in 1 .. Len(pending) : k # i /\ pending'[j] = pending[k]
      BY <1>4, <1>5, <2>1, RemoveThins
    <3>3. \A j \in 1 .. Len(pending') : pending'[j].to # w
      BY <1>12, <3>2
    <3> QED
      BY <3>1, <3>3 DEF For
  <2>2. CASE pending' = q
    BY <1>13, <2>2
  <2>3. CASE pending' = Without(q, pending[i].of)
    <3>1. Thinned(pending', q)
      BY <1>13, <2>3, WithoutThins
    <3>2. Thinned(pending', pending)
      BY <1>4, <1>13, <3>1, ThinnedTwice
    <3>3. \A j \in For(pending', w) : \E k \in For(q, w) : TRUE
      BY <1>4, <1>13, <3>1, ThinnedFor
    <3> QED
      BY <1>13, <3>2, <3>3
  <2> QED
    BY <1>14, <2>1, <2>2, <2>3
<1>16. clean' = [clean EXCEPT ![w] =
                   @ /\ (step.do = "await" => x = step.scene \/ step.left > 1)]
  BY <1>2, <1>3, <1>8 DEF Answered
<1> QED
  BY <1>2, <1>5, <1>7, <1>8, <1>9, <1>10, <1>15, <1>16

\* What is left when a worker gives up, or takes the first message there is.
Quit(w) ==
  \E s \in Seq(Steps(call[w].tool)) :
    /\ todo' = [todo EXCEPT ![w] = s] /\ call[w] \in Calls /\ Doing(w, "wait")
    /\ queue' = NotBy(w) /\ Thinned(pending', pending) /\ For(pending', w) = {}

\* The first message of the kind, whose ever it is.
LEMMA TakeFirstIs ==
  ASSUME Sound, NEW w \in Workers, TakeFirst(w)
  PROVE  /\ Quit(w)
         /\ \E step \in Asks(call[w].tool), rest \in Seq(Steps(call[w].tool)), i \in 1 .. Len(pending) :
              /\ todo[w] = <<Waiting(step)>> \o rest /\ step.of = "io" /\ pending[i].of = "io"
              /\ todo' = [todo EXCEPT ![w] = Onward(w, step, pending[i].is, rest)]
              /\ clean' = [clean EXCEPT ![w] = @ /\ pending[i].to = w]
<1>1. Doing(w, "wait") /\ About("io") # {} /\ Head(todo[w]).of = "io"
  BY DEF TakeFirst
<1>2. PICK step \in Asks(call[w].tool), rest \in Seq(Steps(call[w].tool)) :
        /\ todo[w] = <<Waiting(step)>> \o rest
        /\ Head(todo[w]).for = step /\ Head(todo[w]).of = step.of /\ Tail(todo[w]) = rest
        /\ step.of \in Topics /\ call[w] \in Calls
  BY <1>1, WaitIs DEF Sound
<1>3. PICK i : i = Earliest(About("io"))
  OBVIOUS
<1>4. pending \in Seq(Answers) /\ w # None
  BY PresetToolsAssumption DEF Sound, Typed
<1>5. i \in 1 .. Len(pending) /\ pending[i].of = "io"
  <2>1. Len(pending) \in Nat
    BY <1>4, LenProperties
  <2>2. About("io") \in SUBSET Nat
    BY <2>1 DEF About
  <2>3. i \in About("io")
    BY <1>1, <1>3, <2>2, EarliestIs
  <2> QED
    BY <2>3 DEF About
<1>6. pending[i] \in Answers
  BY <1>4, <1>5, ElementOfSeq
<1>7. step.of = "io" /\ pending[i].is \in TellsOf(step.of)
  BY <1>1, <1>2, <1>5, <1>6 DEF Answers
<1>8. PICK x : x = pending[i].is /\ Continue(w, x)
  BY <1>3 DEF TakeFirst
<1>9. todo' = [todo EXCEPT ![w] = Onward(w, step, x, rest)]
  BY <1>2, <1>8, ContinueIs DEF Sound
<1>10. Onward(w, step, x, rest) \in Seq(Steps(call[w].tool))
  BY <1>2, <1>7, <1>8, OnwardTyped
<1>11. PICK q : q = RemoveAt(pending, i)
  OBVIOUS
<1>12. q \in Seq(Answers) /\ Thinned(q, pending)
  BY <1>4, <1>5, <1>11, RemoveThins
<1>13. pending' = NotFor(w, q) /\ queue' = NotBy(w)
       /\ clean' = [clean EXCEPT ![w] = @ /\ pending[i].to = w]
  BY <1>3, <1>11 DEF TakeFirst
<1>14. Thinned(pending', q) /\ For(pending', w) = {}
  BY <1>4, <1>12, <1>13, NotForThins DEF For
<1>15. Thinned(pending', pending)
  BY <1>4, <1>12, <1>14, ThinnedTwice
<1>16. Quit(w)
  BY <1>1, <1>2, <1>9, <1>10, <1>13, <1>14, <1>15 DEF Quit
<1> QED
  BY <1>2, <1>5, <1>7, <1>8, <1>9, <1>13, <1>16

\* A deadline.
LEMMA TimeOutIs ==
  ASSUME Sound, NEW w \in Workers, TimeOut(w)
  PROVE  Quit(w) /\ clean' = [clean EXCEPT ![w] = FALSE]
<1>1. Doing(w, "wait") /\ Mine(w) = {}
  BY DEF TimeOut
<1>2. PICK step \in Asks(call[w].tool), rest \in Seq(Steps(call[w].tool)) :
        /\ todo[w] = <<Waiting(step)>> \o rest
        /\ Head(todo[w]).for = step /\ Head(todo[w]).of = step.of /\ Tail(todo[w]) = rest
        /\ step.of \in Topics /\ call[w] \in Calls
  BY <1>1, WaitIs DEF Sound
<1>3. pending \in Seq(Answers) /\ w # None
  BY PresetToolsAssumption DEF Sound, Typed
<1>4. PICK S, i : S = About(step.of) \ Mine(w) /\ i = Earliest(S)
  OBVIOUS
<1>5. ASSUME S # {} PROVE pending[i].is \in TellsOf(step.of)
  <2>1. Len(pending) \in Nat
    BY <1>3, LenProperties
  <2>2. S \in SUBSET Nat
    BY <1>4, <2>1 DEF About
  <2>3. i \in S
    BY <1>4, <1>5, <2>2, EarliestIs
  <2>4. i \in 1 .. Len(pending) /\ pending[i].of = step.of
    BY <1>4, <2>3 DEF About
  <2>5. pending[i] \in Answers
    BY <1>3, <2>4, ElementOfSeq
  <2> QED
    BY <2>4, <2>5 DEF Answers
<1>6. PICK x : x = IF Raises(step.of) /\ S # {} THEN pending[i].is ELSE None
  OBVIOUS
<1>7. x \in TellsOf(step.of) \cup {None}
  BY <1>5, <1>6
<1>8. todo' = [todo EXCEPT ![w] = <<>>] \/ Continue(w, x)
  BY <1>2, <1>4, <1>6 DEF TimeOut
<1>9. \E s \in Seq(Steps(call[w].tool)) : todo' = [todo EXCEPT ![w] = s]
  <2>1. CASE todo' = [todo EXCEPT ![w] = <<>>]
    BY <2>1, EmptySeq
  <2>2. CASE Continue(w, x)
    <3>0. Typed /\ Head(todo[w]).for = step /\ Tail(todo[w]) = rest
      BY <1>2 DEF Sound
    <3>1. todo' = [todo EXCEPT ![w] = Onward(w, step, x, rest)]
      BY <2>2, <3>0, ContinueIs
    <3> QED
      BY <1>2, <1>7, <3>1, OnwardTyped
  <2> QED
    BY <1>8, <2>1, <2>2
<1>10. pending' = Without(pending, step.of) \/ pending' = pending
  BY <1>2 DEF TimeOut
<1>11. Thinned(pending', pending)
  <2>1. CASE pending' = pending
    <3>1. \A j \in 1 .. Len(pending) : Same(pending[j], pending[j])
      BY DEF Same
    <3> QED
      BY <1>3, <2>1, <3>1, SameThins
  <2>2. CASE pending' = Without(pending, step.of)
    BY <1>3, <2>2, WithoutThins
  <2> QED
    BY <1>10, <2>1, <2>2
<1>12. For(pending', w) = {}
  <2>1. For(pending, w) = {}
    BY <1>1, AskedIs
  <2>2. \A j \in For(pending', w) : \E k \in For(pending, w) : TRUE
    BY <1>3, <1>11, ThinnedFor
  <2> QED
    BY <2>1, <2>2
<1>13. queue' = NotBy(w) /\ clean' = [clean EXCEPT ![w] = FALSE]
  BY DEF TimeOut
<1> QED
  BY <1>1, <1>2, <1>9, <1>11, <1>12, <1>13 DEF Quit

\* An answer may come.
LEMMA AnsweredKeeps ==
  ASSUME Sound, NEW w \in Workers, Answered(w)
  PROVE  Sound'
<1>1. PICK step \in Asks(call[w].tool), rest \in Seq(Steps(call[w].tool)), i \in Mine(w) :
        /\ todo[w] = <<Waiting(step)>> \o rest /\ call[w] \in Calls /\ step.of \in Topics
        /\ pending[i].of = step.of /\ pending[i].is \in TellsOf(step.of)
        /\ todo' = [todo EXCEPT ![w] = Onward(w, step, pending[i].is, rest)]
        /\ Onward(w, step, pending[i].is, rest) \in Seq(Steps(call[w].tool))
        /\ Thinned(pending', pending) /\ For(pending', w) = {}
        /\ clean' = [clean EXCEPT ![w] =
                       @ /\ (step.do = "await" => pending[i].is = step.scene \/ step.left > 1)]
  BY AnsweredIs
<1>2. PICK s : s = Onward(w, step, pending[i].is, rest)
  OBVIOUS
<1>3. PICK b \in BOOLEAN : b = (step.do = "await" => pending[i].is = step.scene \/ step.left > 1)
  BY Zenon
<1>4. clean \in [Workers -> BOOLEAN] /\ clean' = [clean EXCEPT ![w] = clean[w] /\ b]
  BY <1>1, <1>3 DEF Sound, Typed
<1>5. clean' \in [Workers -> BOOLEAN] /\ \A v \in Workers : clean'[v] => clean[v]
  BY <1>4
<1>6. queue' = queue /\ unit' = unit /\ call' = call /\ made' = made
  BY DEF Answered
<1>7. queue \in Seq(Messages) /\ pending \in Seq(Answers) /\ pending' \in Seq(Answers)
      /\ None \notin Workers
  BY <1>1, PresetToolsAssumption DEF Thinned, Sound, Typed
<1>8. Typed' /\ todo'[w] = s /\ \A v \in Workers : v # w => todo'[v] = todo[v]
  BY <1>1, <1>2, <1>5, <1>6, <1>7, StepsAreCourse, TypedStep DEF Sound
<1>9. \A v \in Workers : Waited(v)'
  <2> TAKE v \in Workers
  <2>1. CASE v = w
    <3>1. Asked(w) = {}
      BY <1>1 DEF Sound, Waited
    <3>2. Asked(w)' = {} /\ Mine(w)' = {}
      BY <1>1, <1>6, <3>1 DEF Asked, Mine, For
    <3> QED
      BY <2>1, <3>2 DEF Waited
  <2>2. CASE v # w
    <3>1. Fewer(pending', pending, v)
      BY <1>1, <1>7, FewerThinned
    <3> QED
      BY <1>6, <1>8, <2>2, <3>1, NoMore, WaitedKept DEF Sound
  <2> QED
    BY <2>1, <2>2
<1> QED
  BY <1>8, <1>9 DEF Sound

\* A worker may leave its question behind.
LEMMA QuitKeeps ==
  ASSUME Sound, NEW w \in Workers, Quit(w), call' = call, made' = made, unit' = unit,
         clean' \in [Workers -> BOOLEAN], \A v \in Workers : clean'[v] => clean[v]
  PROVE  Sound'
<1>1. PICK s \in Seq(Steps(call[w].tool)) :
        /\ todo' = [todo EXCEPT ![w] = s] /\ call[w] \in Calls /\ Doing(w, "wait")
        /\ queue' = NotBy(w) /\ Thinned(pending', pending) /\ For(pending', w) = {}
  BY DEF Quit
<1>2. queue \in Seq(Messages) /\ pending \in Seq(Answers) /\ pending' \in Seq(Answers)
      /\ None \notin Workers
  BY <1>1, PresetToolsAssumption DEF Thinned, Sound, Typed
<1>3. queue' \in Seq(Messages)
  BY <1>1, <1>2, NotByIs
<1>4. Typed' /\ todo'[w] = s /\ \A v \in Workers : v # w => todo'[v] = todo[v]
  BY <1>1, <1>2, <1>3, StepsAreCourse, TypedStep DEF Sound
<1>5. \A v \in Workers : Waited(v)'
  <2> TAKE v \in Workers
  <2>1. Less(queue', queue, v) /\ Questions(queue', w) = {}
    BY <1>1, <1>2, LessNotBy
  <2>2. CASE v = w
    <3>1. Asked(w)' = {} /\ Mine(w)' = {}
      BY <1>1, <2>1 DEF Asked, Mine, For, Questions
    <3> QED
      BY <2>2, <3>1 DEF Waited
  <2>3. CASE v # w
    <3>1. Fewer(pending', pending, v)
      BY <1>1, <1>2, FewerThinned
    <3> QED
      BY <1>4, <2>1, <2>3, <3>1, WaitedKept DEF Sound
  <2> QED
    BY <2>2, <2>3
<1> QED
  BY <1>4, <1>5 DEF Sound

\* The first message of the kind may be taken.
LEMMA TakeFirstKeeps ==
  ASSUME Sound, NEW w \in Workers, TakeFirst(w)
  PROVE  Sound'
<1>1. PICK i \in 1 .. Len(pending) : clean' = [clean EXCEPT ![w] = @ /\ pending[i].to = w]
  BY TakeFirstIs
<1>2. PICK b \in BOOLEAN : b = (pending[i].to = w)
  BY Zenon
<1>3. clean \in [Workers -> BOOLEAN] /\ clean' = [clean EXCEPT ![w] = clean[w] /\ b]
  BY <1>1, <1>2 DEF Sound, Typed
<1>4. clean' \in [Workers -> BOOLEAN] /\ \A v \in Workers : clean'[v] => clean[v]
  BY <1>3
<1>5. call' = call /\ made' = made /\ unit' = unit /\ Quit(w)
  BY TakeFirstIs DEF TakeFirst
<1> QED
  BY <1>4, <1>5, QuitKeeps

\* A deadline may pass.
LEMMA TimeOutKeeps ==
  ASSUME Sound, NEW w \in Workers, TimeOut(w)
  PROVE  Sound'
<1>1. clean \in [Workers -> BOOLEAN] /\ clean' = [clean EXCEPT ![w] = FALSE]
  BY TimeOutIs DEF Sound, Typed
<1>2. clean' \in [Workers -> BOOLEAN] /\ \A v \in Workers : clean'[v] => clean[v]
  BY <1>1
<1>3. call' = call /\ made' = made /\ unit' = unit /\ Quit(w)
  BY TimeOutIs DEF TimeOut
<1> QED
  BY <1>2, <1>3, QuitKeeps

\* What the unit tells when nothing of a call goes on.
LEMMA TypedElse ==
  ASSUME Typed, call' = call, made' = made, todo' = todo, unit' \in Units, Tidy(unit'),
         clean' \in [Workers -> BOOLEAN], \A v \in Workers : clean'[v] => clean[v],
         queue' \in Seq(Messages), pending' \in Seq(Answers)
  PROVE  Typed'
<1>1. \A v \in Workers : Course(call[v].tool, todo[v])'
  BY DEF Typed, Course
<1>2. \A v \in Workers : todo'[v] # <<>> \/ clean'[v] => call'[v] \in Calls
  BY DEF Typed
<1>3. Tidy(unit)' /\ todo' = [v \in Workers |-> todo'[v]]
  BY DEF Typed
<1>4. call' \in [Workers -> Calls \cup {NoCall}] /\ made' \in [Workers -> Nat]
  BY DEF Typed
<1> QED
  BY <1>1, <1>2, <1>3, <1>4 DEF Typed

\* What a message makes of the unit, and the answer to it.
LEMMA UnitStepIs ==
  ASSUME Typed, UnitStep
  PROVE  \E m \in Messages :
           /\ m = Head(queue) /\ queue # <<>> /\ queue' = Tail(queue) /\ queue' \in Seq(Messages)
           /\ unit' = (IF m.cmd = None THEN unit ELSE Apply(unit, m.cmd))
           /\ unit' \in Units /\ Tidy(unit')
           /\ m.read # None /\ m.by # None =>
                \E a \in Answers : /\ a.of = m.read /\ a.is = Told(unit', m.read) /\ a.to = m.by
                                   /\ pending' = Append(pending, a)
           /\ m.read = None \/ m.by = None =>
                \/ pending' = pending
                \/ \E a \in Answers : pending' = Append(pending, a) /\ a.to = None
<1>1. PICK m : m = Head(queue)
  OBVIOUS
<1>2. queue # <<>> /\ queue' = Tail(queue) /\ queue \in Seq(Messages)
  BY DEF UnitStep, Typed
<1>3. m \in Messages /\ queue' \in Seq(Messages)
  BY <1>1, <1>2, HeadTailProperties
<1>4. unit' = (IF m.cmd = None THEN unit ELSE Apply(unit, m.cmd))
  BY <1>1 DEF UnitStep
<1>5. m.cmd \in Commands \cup {None} /\ m.by \in Workers \cup {None} /\ m.read \in Topics \cup {None}
  BY <1>3 DEF Messages
<1>6. unit' \in Units /\ Tidy(unit')
  BY <1>4, <1>5, ApplyTyped DEF Typed
<1>7. CASE m.read # None
  <2>1. PICK a : a = [of |-> m.read, is |-> Told(unit', m.read), to |-> m.by]
    OBVIOUS
  <2>2. a \in Answers /\ a.of = m.read /\ a.is = Told(unit', m.read) /\ a.to = m.by
    BY <1>5, <1>6, <1>7, <2>1, ToldTyped, AnswerTyped
  <2>3. pending' = IF m.by = None /\ m.read = "preset" THEN pending ELSE Append(pending, a)
    BY <1>1, <1>7, <2>1 DEF UnitStep
  <2> QED
    BY <1>1, <1>2, <1>3, <1>4, <1>6, <1>7, <2>2, <2>3
<1>8. CASE m.read = None
  <2>1. m.cmd \in Commands
    BY <1>3, <1>8, PresetToolsAssumption DEF Messages
  <2>2. \/ pending' = pending
        \/ m.cmd.op = "io" /\ pending' = Push("io", m.cmd.value)
    BY <1>1, <1>8 DEF UnitStep
  <2>3. CASE m.cmd.op = "io"
    <3>1. m.cmd.value \in Values
      BY <2>1, <2>3 DEF Commands
    <3>2. PICK a : a = [of |-> "io", is |-> m.cmd.value, to |-> None]
      OBVIOUS
    <3>3. a \in Answers /\ a.to = None
      BY <3>1, <3>2, AnswerTyped, TellsThere DEF Topics
    <3>4. pending' = pending \/ pending' = Append(pending, a)
      BY <2>2, <3>2 DEF Push
    <3> QED
      BY <1>1, <1>2, <1>3, <1>4, <1>6, <1>8, <3>3, <3>4
  <2>4. CASE m.cmd.op # "io"
    BY <1>1, <1>2, <1>3, <1>4, <1>6, <1>8, <2>2, <2>4
  <2> QED
    BY <2>3, <2>4
<1> QED
  BY <1>7, <1>8

\* A message reaches the unit.
LEMMA UnitStepKeeps ==
  ASSUME Sound, UnitStep
  PROVE  Sound'
<1>1. PICK m \in Messages :
        /\ m = Head(queue) /\ queue # <<>> /\ queue' = Tail(queue) /\ queue' \in Seq(Messages)
        /\ unit' = (IF m.cmd = None THEN unit ELSE Apply(unit, m.cmd))
        /\ unit' \in Units /\ Tidy(unit')
        /\ m.read # None /\ m.by # None =>
             \E a \in Answers : /\ a.of = m.read /\ a.is = Told(unit', m.read) /\ a.to = m.by
                                /\ pending' = Append(pending, a)
        /\ m.read = None \/ m.by = None =>
             \/ pending' = pending
             \/ \E a \in Answers : pending' = Append(pending, a) /\ a.to = None
  BY UnitStepIs DEF Sound
<1>2. todo' = todo /\ call' = call /\ made' = made /\ clean' = clean
  BY DEF UnitStep
<1>3. queue \in Seq(Messages) /\ pending \in Seq(Answers) /\ clean \in [Workers -> BOOLEAN]
      /\ None \notin Workers
  BY PresetToolsAssumption DEF Sound, Typed
<1>4. pending' = pending \/ \E a \in Answers : pending' = Append(pending, a)
  BY <1>1
<1>5. pending' \in Seq(Answers)
  BY <1>3, <1>4, AppendProperties
<1>6. Typed'
  BY <1>1, <1>2, <1>3, <1>5, TypedElse DEF Sound
<1>7. \A v \in Workers : Waited(v)'
  <2> TAKE v \in Workers
  <2>1. Less(queue', queue, v) /\ \A i \in Questions(queue', v) : i + 1 \in Questions(queue, v)
    BY <1>1, <1>3, LessTail
  <2>2. CASE m.read # None /\ m.by = v
    <3>1. PICK a \in Answers : /\ a.of = m.read /\ a.is = Told(unit', m.read) /\ a.to = m.by
                               /\ pending' = Append(pending, a)
      BY <1>1, <1>3, <2>2
    <3>2. Len(queue) \in Nat /\ Len(queue) # 0 /\ queue[1] = m
      BY <1>1, <1>3, LenProperties, EmptySeq DEF Head
    <3>3. 1 \in Asked(v)
      BY <2>2, <3>2 DEF Asked
    <3>4. Mine(v) = {} /\ Doing(v, "wait") /\ m.read = Head(todo[v]).of
      BY <3>2, <3>3 DEF Sound, Waited
    <3>5. Asked(v)' = {}
      <4>1. \A i \in Questions(queue', v) : i + 1 = 1 /\ i \in 1 .. Len(queue')
        BY <2>1, <3>3, AskedIs DEF Questions, Sound, Waited
      <4>2. Len(queue') \in Nat
        BY <1>1, LenProperties
      <4>3. Questions(queue', v) = {}
        BY <4>1, <4>2
      <4> QED
        BY <4>3 DEF Asked, Questions
    <3>6. PICK n \in Nat : n = Len(pending)
      BY <1>3, LenProperties
    <3>7. /\ Len(pending') = n + 1 /\ pending'[n + 1] = a
          /\ \A i \in 1 .. n : pending'[i] = pending[i]
      BY <1>3, <3>1, <3>6, AppendProperties
    <3>8. \A i \in 1 .. n + 1 : i \in 1 .. n \/ i = n + 1
      OBVIOUS
    <3>9. \A i \in Mine(v)' : i = n + 1
      BY <3>4, <3>6, <3>7, <3>8 DEF Mine
    <3>10. \A i \in Mine(v)' : pending'[i].of = Head(todo'[v]).of
      BY <1>2, <3>1, <3>4, <3>7, <3>9
    <3>11. Doing(v, "wait")'
      BY <1>2, <3>4 DEF Doing
    <3> QED
      BY <3>5, <3>9, <3>10, <3>11 DEF Waited
  <2>3. CASE ~(m.read # None /\ m.by = v)
    <3>1. pending' = pending \/ \E a \in Answers : pending' = Append(pending, a) /\ a.to # v
      BY <1>1, <1>3, <2>3
    <3>2. Fewer(pending', pending, v)
      BY <1>3, <3>1, NoMore, FewerAppend
    <3> QED
      BY <1>2, <2>1, <3>2, WaitedKept DEF Sound
  <2> QED
    BY <2>2, <2>3
<1> QED
  BY <1>6, <1>7 DEF Sound

\* The unit says something of its own accord.
LEMMA PushKeeps ==
  ASSUME Sound, NEW of \in Topics, NEW x \in TellsOf(of),
         pending' = pending \/ pending' = Push(of, x),
         todo' = todo, call' = call, made' = made, queue' = queue,
         unit' \in Units, Tidy(unit'),
         clean' \in [Workers -> BOOLEAN], \A v \in Workers : clean'[v] => clean[v]
  PROVE  Sound'
<1>1. PICK a : a = [of |-> of, is |-> x, to |-> None]
  OBVIOUS
<1>2. a \in Answers /\ a.to = None
  BY <1>1, AnswerTyped
<1>3. pending' = pending \/ pending' = Append(pending, a)
  BY <1>1 DEF Push
<1>4. queue' \in Seq(Messages) /\ pending \in Seq(Answers) /\ None \notin Workers
  BY PresetToolsAssumption DEF Sound, Typed
<1>5. pending' \in Seq(Answers)
  BY <1>2, <1>3, <1>4, AppendProperties, SMTT(60)
<1>6. Typed'
  BY <1>4, <1>5, TypedElse DEF Sound
<1>7. \A v \in Workers : Waited(v)'
  <2> TAKE v \in Workers
  <2>1. Fewer(Append(pending, a), pending, v) /\ Fewer(pending, pending, v)
    BY <1>2, <1>4, NoMore, FewerAppend
  <2>2. Less(queue', queue, v) /\ Fewer(pending', pending, v)
    BY <1>3, <2>1, NoMore
  <2> QED
    BY <2>2, WaitedKept DEF Sound
<1> QED
  BY <1>6, <1>7 DEF Sound

\* A switch of scenes ends.
LEMMA SettleKeeps ==
  ASSUME Sound, Settle
  PROVE  Sound'
<1>1. unit' = [unit EXCEPT !.scene = unit.next] /\ pending' = Push("scene", unit.next)
      /\ unit \in Units /\ Tidy(unit) /\ clean \in [Workers -> BOOLEAN]
  BY DEF Settle, Sound, Typed
<1>2. unit' \in Units
  BY <1>1, ZenonT(60) DEF Units
<1>3. Tidy(unit')
  BY <1>1, TidyAlike DEF Units
<1>4. "scene" \in Topics /\ unit.next \in TellsOf("scene")
  BY <1>1, TellsThere DEF Topics, Units
<1>5. todo' = todo /\ call' = call /\ made' = made /\ queue' = queue /\ clean' = clean
  BY DEF Settle
<1> QED
  BY <1>1, <1>2, <1>3, <1>4, <1>5, PushKeeps

\* Somebody plays.
LEMMA PlayerKeeps ==
  ASSUME Sound, Player
  PROVE  Sound'
<1>1. unit \in Units /\ Tidy(unit) /\ clean' = [w \in Workers |-> FALSE]
  BY DEF Player, Sound, Typed
<1>2. clean' \in [Workers -> BOOLEAN] /\ \A v \in Workers : clean'[v] => clean[v]
  BY <1>1
<1>3. todo' = todo /\ call' = call /\ made' = made /\ queue' = queue
  BY DEF Player
<1>4. CASE \E s \in Scenes : unit' = [unit EXCEPT !.next = s] /\ UNCHANGED pending
  <2>1. PICK s \in Scenes : unit' = [unit EXCEPT !.next = s] /\ pending' = pending
    BY <1>4
  <2>2. unit' \in Units
    BY <1>1, <2>1, ZenonT(60) DEF Units
  <2>3. Tidy(unit')
    BY <1>1, <2>1, TidyAlike DEF Units
  <2>4. "scene" \in Topics /\ s \in TellsOf("scene")
    BY TellsThere DEF Topics
  <2> QED
    BY <1>2, <1>3, <2>1, <2>2, <2>3, <2>4, PushKeeps
<1>5. CASE \E v \in Values : unit' = [unit EXCEPT !.io = v] /\ pending' = Push("io", v)
  <2>1. PICK v \in Values : unit' = [unit EXCEPT !.io = v] /\ pending' = Push("io", v)
    BY <1>5
  <2>2. unit' \in Units
    BY <1>1, <2>1, ZenonT(60) DEF Units
  <2>3. Tidy(unit')
    BY <1>1, <2>1, TidyAlike DEF Units
  <2>4. "io" \in Topics /\ v \in TellsOf("io")
    BY TellsThere DEF Topics
  <2> QED
    BY <1>2, <1>3, <2>1, <2>2, <2>3, <2>4, PushKeeps
<1> QED
  BY <1>4, <1>5 DEF Player

\* So every state is.
LEMMA InitSound ==
  ASSUME Init
  PROVE  Sound
<1>1. unit \in Units /\ Tidy(unit)
  BY PresetToolsAssumption DEF Init
<1>2. queue = <<>> /\ pending = <<>> /\ todo = [w \in Workers |-> <<>>]
      /\ call = [w \in Workers |-> NoCall] /\ made = [w \in Workers |-> 0]
      /\ clean = [w \in Workers |-> FALSE]
  BY DEF Init
<1>3. queue \in Seq(Messages) /\ pending \in Seq(Answers)
  BY <1>2, EmptySeq
<1>4. \A w \in Workers : Course(call[w].tool, todo[w]) /\ todo[w] = <<>> /\ ~clean[w]
  <2> TAKE w \in Workers
  <2>1. todo[w] = <<>> /\ <<>> \in Seq(Steps(call[w].tool))
    BY <1>2, EmptySeq
  <2> QED
    BY <1>2, <2>1 DEF Course
<1>5. /\ call \in [Workers -> Calls \cup {NoCall}] /\ made \in [Workers -> Nat]
      /\ clean \in [Workers -> BOOLEAN] /\ todo = [w \in Workers |-> todo[w]]
  BY <1>2
<1>6. Typed
  BY <1>1, <1>3, <1>4, <1>5 DEF Typed
<1>7. ASSUME NEW w \in Workers PROVE Waited(w)
  <2>1. Asked(w) = {} /\ Mine(w) = {}
    BY <1>2, EmptySeq DEF Asked, Mine
  <2> QED
    BY <2>1 DEF Waited
<1> QED
  BY <1>6, <1>7 DEF Sound

\* Every step keeps it.
LEMMA StepSound ==
  ASSUME Sound, [Next]_vars
  PROVE  Sound'
<1>1. CASE UNCHANGED vars
  <2>1. Typed'
    <3>1. /\ unit' = unit /\ queue' = queue /\ pending' = pending /\ todo' = todo
          /\ call' = call /\ made' = made /\ clean' = clean
      BY <1>1 DEF vars
    <3>2. /\ unit' \in Units /\ Tidy(unit') /\ queue' \in Seq(Messages)
          /\ pending' \in Seq(Answers) /\ clean' \in [Workers -> BOOLEAN]
      BY <3>1 DEF Sound, Typed
    <3> QED
      BY <3>1, <3>2, TypedElse DEF Sound
  <2>2. \A w \in Workers : Waited(w)'
    BY <1>1 DEF vars, Sound, Waited, Asked, Mine, Doing
  <2> QED
    BY <2>1, <2>2 DEF Sound
<1>2. CASE Next
  BY <1>2, UnitStepKeeps, SettleKeeps, PlayerKeeps, CallKeeps, SendKeeps, AskKeeps,
     AnsweredKeeps,
     TakeFirstKeeps, TimeOutKeeps DEF Next, Step
<1> QED
  BY <1>1, <1>2

\* What is sound is of the kinds there are.
LEMMA SoundTyped ==
  ASSUME Sound
  PROVE  TypeOK
<1>1. \A i \in 1 .. Len(pending) : pending[i] \in Answers
  BY ElementOfSeq DEF Sound, Typed
<1>2. \A i \in 1 .. Len(pending) :
        /\ pending[i].of \in Topics /\ pending[i].is \in TellsOf(pending[i].of)
        /\ pending[i].to \in Workers \cup {None}
  BY <1>1 DEF Answers
<1>3. \A w \in Workers : \A i, j \in Mine(w) : i = j
  BY DEF Sound, Waited
<1> QED
  BY <1>2, <1>3 DEF Sound, Typed, TypeOK

\* The threads of the server, what is queued, what is known of the unit and the
\* unit itself are of the kinds server.py and transport.py make, and never more
\* than one answer is on hand for one thread.
THEOREM TypesHold == Spec => []TypeOK
<1>1. Init => Sound
  BY InitSound
<1>2. Sound /\ [Next]_vars => Sound'
  BY StepSound
<1>3. Sound => TypeOK
  BY SoundTyped
<1> QED
  BY <1>1, <1>2, <1>3, PTL DEF Spec

-----------------------------------------------------------------------------
(* Ways *)

\* What g is on the way from u along s to v.
Along(g, u, s, v) ==
  /\ g \in [0 .. Len(s) -> Units] /\ g[0] = u /\ g[Len(s)] = v
  /\ \A i \in 1 .. Len(s) : Effect(g[i - 1], s[i], g[i])

\* A way is along something.
LEMMA WayAlong ==
  ASSUME NEW u, NEW s, NEW v
  PROVE  Way(u, s, v) <=> \E g : Along(g, u, s, v)
  BY DEF Way, Along

\* Nothing done leads nowhere.
LEMMA WayNothing ==
  ASSUME NEW u \in Units, NEW v
  PROVE  Way(u, <<>>, v) <=> v = u
<1>1. Len(<<>>) = 0
  BY EmptySeq
<1>2. ASSUME Way(u, <<>>, v) PROVE v = u
  BY <1>1, <1>2 DEF Way
<1>3. Way(u, <<>>, u)
  <2>1. PICK g : g = [i \in 0 .. 0 |-> u]
    OBVIOUS
  <2>2. Along(g, u, <<>>, u)
    BY <1>1, <2>1 DEF Along
  <2> QED
    BY <2>2, WayAlong
<1> QED
  BY <1>2, <1>3

\* A way ends at a unit.
LEMMA WayTyped ==
  ASSUME NEW S, NEW s \in Seq(S), NEW u, NEW v, Way(u, s, v)
  PROVE  u \in Units /\ v \in Units
<1>1. PICK n \in Nat : n = Len(s)
  BY LenProperties
<1>2. PICK g : Along(g, u, s, v)
  BY WayAlong
<1>3. 0 \in 0 .. n /\ n \in 0 .. n
  OBVIOUS
<1> QED
  BY <1>1, <1>2, <1>3 DEF Along

\* One way after the other.
LEMMA WayJoin ==
  ASSUME NEW S, NEW a \in Seq(S), NEW b \in Seq(S), NEW u, NEW x, NEW v, Way(u, a, x), Way(x, b, v)
  PROVE  Way(u, a \o b, v)
<1>1. PICK m \in Nat, n \in Nat : m = Len(a) /\ n = Len(b)
  BY LenProperties
<1>2. PICK g : Along(g, u, a, x)
  BY WayAlong
<1>3. PICK h : Along(h, x, b, v)
  BY WayAlong
<1>4. PICK s : s = a \o b
  OBVIOUS
<1>5. /\ s \in Seq(S) /\ Len(s) = m + n
      /\ \A i \in 1 .. m + n : s[i] = IF i <= m THEN a[i] ELSE b[i - m]
  BY <1>1, <1>4, ConcatProperties
<1>6. PICK f : f = [i \in 0 .. m + n |-> IF i <= m THEN g[i] ELSE h[i - m]]
  OBVIOUS
<1>7. /\ \A i \in 0 .. m : g[i] \in Units
      /\ \A i \in 0 .. n : h[i] \in Units
      /\ g[0] = u /\ g[m] = x /\ h[0] = x /\ h[n] = v
      /\ \A i \in 1 .. m : Effect(g[i - 1], a[i], g[i])
      /\ \A i \in 1 .. n : Effect(h[i - 1], b[i], h[i])
  BY <1>1, <1>2, <1>3 DEF Along
<1>8. \A i \in 0 .. m + n : f[i] = IF i <= m THEN g[i] ELSE h[i - m]
  BY <1>6
<1>9. \A i \in 0 .. n : f[m + i] = h[i]
  <2> TAKE i \in 0 .. n
  <2>1. CASE i = 0
    <3>1. m + i = m /\ m \in 0 .. m + n
      BY <2>1
    <3> QED
      BY <1>7, <1>8, <2>1, <3>1
  <2>2. CASE i # 0
    <3>1. m + i \in 0 .. m + n /\ ~(m + i <= m) /\ (m + i) - m = i
      BY <2>2
    <3> QED
      BY <1>8, <3>1
  <2> QED
    BY <2>1, <2>2
<1>10. \A i \in 0 .. m : f[i] = g[i] /\ f[i] \in Units
  <2> TAKE i \in 0 .. m
  <2>1. i \in 0 .. m + n /\ i <= m
    OBVIOUS
  <2>2. f[i] = g[i]
    BY <1>8, <2>1
  <2> QED
    BY <1>7, <2>2
<1>11. \A i \in 0 .. m + n : f[i] \in Units
  <2> TAKE i \in 0 .. m + n
  <2>1. CASE i \in 0 .. m
    BY <1>10, <2>1
  <2>2. CASE i \notin 0 .. m
    <3>1. i - m \in 0 .. n /\ m + (i - m) = i
      BY <2>2
    <3> QED
      BY <1>7, <1>9, <3>1
  <2> QED
    BY <2>1, <2>2
<1>12. \A i \in 1 .. m + n : Effect(f[i - 1], s[i], f[i])
  <2> TAKE i \in 1 .. m + n
  <2>1. CASE i <= m
    <3>1. i \in 1 .. m /\ i \in 0 .. m /\ i - 1 \in 0 .. m
      BY <2>1
    <3>2. f[i] = g[i] /\ f[i - 1] = g[i - 1] /\ s[i] = a[i]
      BY <1>5, <1>10, <2>1, <3>1
    <3> QED
      BY <1>7, <3>1, <3>2
  <2>2. CASE ~(i <= m)
    <3>1. PICK j : j = i - m /\ j \in 1 .. n /\ j - 1 \in 0 .. n /\ m + j = i /\ m + (j - 1) = i - 1
      BY <2>2
    <3>2. f[i] = h[j]
      <4>1. f[m + j] = h[j]
        BY <1>9, <3>1
      <4> QED
        BY <3>1, <4>1
    <3>3. f[i - 1] = h[j - 1]
      <4>1. f[m + (j - 1)] = h[j - 1]
        BY <1>9, <3>1
      <4> QED
        BY <3>1, <4>1
    <3>4. s[i] = b[j]
      BY <1>5, <2>2, <3>1
    <3> QED
      BY <1>7, <3>1, <3>2, <3>3, <3>4
  <2> QED
    BY <2>1, <2>2
<1>13. f[0] = u /\ f[m + n] = v
  <2>1. 0 \in 0 .. m /\ n \in 0 .. n
    OBVIOUS
  <2> QED
    BY <1>7, <1>9, <1>10, <2>1
<1>14. f \in [0 .. m + n -> Units]
  BY <1>6, <1>11
<1>15. Along(f, u, s, v)
  BY <1>5, <1>12, <1>13, <1>14 DEF Along
<1> QED
  BY <1>4, <1>15, WayAlong

\* One step.
LEMMA WayOne ==
  ASSUME NEW u \in Units, NEW v \in Units, NEW m, Effect(u, m, v)
  PROVE  Way(u, <<m>>, v)
<1>1. PICK s : s = <<m>> /\ Len(s) = 1 /\ s[1] = m
  <2>1. m \in {m}
    OBVIOUS
  <2> QED
    BY <2>1, OneIsSeq
<1>2. PICK g : g = [i \in 0 .. 1 |-> IF i = 0 THEN u ELSE v]
  OBVIOUS
<1>3. g \in [0 .. 1 -> Units] /\ g[0] = u /\ g[1] = v
  BY <1>2
<1>4. \A i \in 1 .. 1 : Effect(g[i - 1], s[i], g[i])
  <2>1. \A i \in 1 .. 1 : i = 1 /\ i - 1 = 0
    OBVIOUS
  <2> QED
    BY <1>1, <1>3, <2>1
<1>5. Along(g, u, s, v)
  BY <1>1, <1>3, <1>4 DEF Along
<1> QED
  BY <1>1, <1>5, WayAlong

\* The first step of a way.
LEMMA WayFirst ==
  ASSUME NEW S, NEW m, NEW r \in Seq(S), NEW u, NEW v, Way(u, <<m>> \o r, v)
  PROVE  \E x \in Units : Effect(u, m, x) /\ Way(x, r, v)
<1>1. PICK n \in Nat : n = Len(r)
  BY LenProperties
<1>2. PICK s : s = <<m>> \o r
  OBVIOUS
<1>3. Len(s) = n + 1 /\ s[1] = m /\ \A i \in 1 .. n : s[i + 1] = r[i]
  BY <1>1, <1>2, FrontIs
<1>4. PICK g : Along(g, u, s, v)
  BY <1>2, WayAlong
<1>5. /\ \A i \in 0 .. n + 1 : g[i] \in Units
      /\ g[0] = u /\ g[n + 1] = v
      /\ \A i \in 1 .. n + 1 : Effect(g[i - 1], s[i], g[i])
  BY <1>3, <1>4 DEF Along
<1>6. g[1] \in Units /\ Effect(u, m, g[1])
  <2>1. 1 \in 1 .. n + 1 /\ 1 \in 0 .. n + 1 /\ 1 - 1 = 0
    OBVIOUS
  <2>2. Effect(g[1 - 1], s[1], g[1])
    BY <1>5, <2>1
  <2> QED
    BY <1>3, <1>5, <2>1, <2>2
<1>7. PICK h : h = [i \in 0 .. n |-> g[i + 1]]
  OBVIOUS
<1>8. \A i \in 0 .. n : h[i] = g[i + 1] /\ h[i] \in Units
  BY <1>5, <1>7
<1>9. \A i \in 1 .. n : Effect(h[i - 1], r[i], h[i])
  <2> TAKE i \in 1 .. n
  <2>1. i - 1 \in 0 .. n /\ i \in 0 .. n /\ (i - 1) + 1 = i /\ i + 1 \in 1 .. n + 1 /\ (i + 1) - 1 = i
    OBVIOUS
  <2>2. h[i - 1] = g[i] /\ h[i] = g[i + 1]
    BY <1>8, <2>1
  <2>3. Effect(g[(i + 1) - 1], s[i + 1], g[i + 1])
    BY <1>5, <2>1
  <2> QED
    BY <1>3, <2>1, <2>2, <2>3
<1>10. h[0] = g[1] /\ h[n] = v
  <2>1. 0 \in 0 .. n /\ n \in 0 .. n /\ 0 + 1 = 1
    OBVIOUS
  <2> QED
    BY <1>5, <1>8, <2>1
<1>11. h \in [0 .. n -> Units]
  BY <1>7, <1>8
<1>12. Along(h, g[1], r, v)
  BY <1>1, <1>9, <1>10, <1>11 DEF Along
<1> QED
  BY <1>6, <1>12, WayAlong

\* A way with one more step before it, and one with one more after it.
LEMMA WayFront ==
  ASSUME NEW S, NEW m, NEW r \in Seq(S), NEW u \in Units, NEW x \in Units, NEW v,
         Effect(u, m, x), Way(x, r, v)
  PROVE  Way(u, <<m>> \o r, v)
<1>1. PICK T : T = S \cup {m}
  OBVIOUS
<1>2. r \in Seq(T) /\ m \in T
  BY <1>1, SeqMonotonic
<1>3. <<m>> \in Seq(T)
  BY <1>2, OneIsSeq
<1>4. Way(u, <<m>>, x)
  BY WayOne
<1> QED
  BY <1>2, <1>3, <1>4, WayJoin

\* The same for a step after it.
LEMMA WayAppend ==
  ASSUME NEW S, NEW s \in Seq(S), NEW m \in S, NEW u, NEW x, NEW v \in Units,
         Way(u, s, x), Effect(x, m, v)
  PROVE  Way(u, Append(s, m), v)
<1>1. <<m>> \in Seq(S) /\ Append(s, m) = s \o <<m>>
  BY OneIsSeq, AppendIsConcat
<1>2. x \in Units
  BY WayTyped
<1>3. Way(x, <<m>>, v)
  BY <1>2, WayOne
<1> QED
  BY <1>1, <1>3, WayJoin

\* A way of parts.
LEMMA WayFlatten ==
  ASSUME NEW S, NEW n \in Nat, NEW f \in [1 .. n -> Seq(S)], NEW g \in [0 .. n -> Units],
         \A k \in 1 .. n : Way(g[k - 1], f[k], g[k])
  PROVE  Way(g[0], FlattenSeq(f), g[n])
<1>1. f \in Seq(Seq(S)) /\ Len(f) = n
  BY FunctionIsSeq
<1>2. PICK e \in [0 .. n -> Seq(S)] :
        e[0] = <<>> /\ e[n] = FlattenSeq(f) /\ \A k \in 1 .. n : e[k] = e[k - 1] \o f[k]
  <2>1. \E e \in [0 .. Len(f) -> Seq(S)] :
          /\ e[0] = <<>> /\ e[Len(f)] = FlattenSeq(f)
          /\ \A k \in 1 .. Len(f) : e[k] = e[k - 1] \o f[k]
    BY <1>1, FlattenFrom
  <2> QED
    BY <1>1, <2>1, Zenon
<1> DEFINE T == {k \in Nat : k \in 0 .. n => Way(g[0], e[k], g[k])}
<1>3. 0 \in T
  <2>1. 0 \in 0 .. n
    OBVIOUS
  <2>2. g[0] \in Units
    BY <2>1
  <2> QED
    BY <1>2, <2>2, WayNothing
<1>4. ASSUME NEW k \in T PROVE k + 1 \in T
  <2>1. PICK m \in Nat : m = k + 1
    OBVIOUS
  <2>2. SUFFICES ASSUME m \in 0 .. n PROVE Way(g[0], e[m], g[m])
    BY <2>1
  <2>3. m \in 1 .. n /\ k \in 0 .. n /\ k \in Nat /\ m - 1 = k
    BY <2>1, <2>2
  <2>4. Way(g[0], e[k], g[k])
    BY <2>3
  <2>5. Way(g[k], f[m], g[m])
    BY <2>3
  <2>6. e[m] = e[k] \o f[m] /\ e[k] \in Seq(S) /\ f[m] \in Seq(S)
    BY <1>2, <2>3
  <2> QED
    BY <2>4, <2>5, <2>6, WayJoin
<1>5. n \in T
  <2>1. T \in SUBSET Nat /\ \A k \in T : k + 1 \in T
    BY <1>4
  <2> HIDE DEF T
  <2> QED
    BY <1>3, <2>1, InductionOnSet
<1>6. n \in 0 .. n
  OBVIOUS
<1> QED
  BY <1>2, <1>5, <1>6

\* The kinds of steps are different, and none is a message.
LEMMA KindsDiffer ==
  /\ \A m \in Messages : "do" \notin DOMAIN m
  /\ \A m \in Sends : m.do = "send" /\ "do" \in DOMAIN m
  /\ \A tool : \A m \in Reads(tool) : m.do = "read" /\ "do" \in DOMAIN m
  /\ \A m \in Awaits : m.do = "await" /\ "do" \in DOMAIN m
  /\ \A tool : \A m \in Pauses(tool) : m.do = "wait" /\ "do" \in DOMAIN m
<1>1. \A m \in Messages : "do" \notin DOMAIN m
  BY DEF Messages
<1>2. \A m \in Sends : m.do = "send" /\ "do" \in DOMAIN m
  BY DEF Sends
<1>3. \A tool : \A m \in Reads(tool) : m.do = "read" /\ "do" \in DOMAIN m
  BY DEF Reads
<1>4. \A m \in Awaits : m.do = "await" /\ "do" \in DOMAIN m
  BY DEF Awaits
<1>5. \A tool : \A m \in Pauses(tool) : m.do = "wait" /\ "do" \in DOMAIN m
  BY DEF Pauses
<1> QED
  BY <1>1, <1>2, <1>3, <1>4, <1>5

\* What a message, and what each kind of step comes to.
LEMMA EffectOf ==
  ASSUME NEW u, NEW v, NEW m
  PROVE  /\ m \in Messages => (Effect(u, m, v) <=> Taken(u, m.cmd, v))
         /\ m \in Sends => (Effect(u, m, v) <=> Taken(u, m.cmd, v))
         /\ m \in Reads("") => (Effect(u, m, v) <=> Taken(u, m.cmd, v))
         /\ m \in Awaits => (Effect(u, m, v) <=> Seen(u, m.scene, v))
<1>1. ASSUME m \in Messages PROVE Effect(u, m, v) <=> Taken(u, m.cmd, v)
  <2>1. "do" \notin DOMAIN m
    BY <1>1, KindsDiffer
  <2>2. m \notin Sends /\ m \notin Reads("") /\ m \notin Awaits /\ m \notin Pauses("")
    BY <2>1, KindsDiffer
  <2> QED
    BY <1>1, <2>2 DEF Effect
<1>2. ASSUME m \in Sends PROVE Effect(u, m, v) <=> Taken(u, m.cmd, v)
  <2>1. m \notin Awaits /\ m \notin Pauses("")
    BY <1>2, KindsDiffer
  <2> QED
    BY <1>2, <2>1 DEF Effect
<1>3. ASSUME m \in Reads("") PROVE Effect(u, m, v) <=> Taken(u, m.cmd, v)
  <2>1. m \notin Awaits /\ m \notin Pauses("")
    BY <1>3, KindsDiffer
  <2> QED
    BY <1>3, <2>1 DEF Effect
<1>4. ASSUME m \in Awaits PROVE Effect(u, m, v) <=> Seen(u, m.scene, v)
  <2>1. m \notin Sends /\ m \notin Reads("") /\ m \notin Pauses("")
    BY <1>4, KindsDiffer
  <2>2. m \notin Messages
    <3>1. "do" \in DOMAIN m
      BY <1>4, KindsDiffer
    <3> QED
      BY <3>1, KindsDiffer
  <2> QED
    BY <1>4, <2>1, <2>2 DEF Effect
<1> QED
  BY <1>1, <1>2, <1>3, <1>4

\* Waiting for what has been asked.
LEMMA EffectOfWaiting ==
  ASSUME NEW u, NEW v, NEW step, Waiting(step) \in Pauses("")
  PROVE  /\ step \in Reads("") => (Effect(u, Waiting(step), v) <=> v = u)
         /\ step \in Awaits => (Effect(u, Waiting(step), v) <=> Seen(u, step.scene, v))
<1>1. PICK p : p = Waiting(step) /\ p \in Pauses("") /\ p.for = step
  <2>1. Waiting(step).for = step
    BY DEF Waiting
  <2> QED
    BY <2>1
<1>2. p \notin Sends /\ p \notin Reads("") /\ p \notin Awaits
  BY <1>1, KindsDiffer
<1>3. p \notin Messages
  <2>1. "do" \in DOMAIN p
    BY <1>1, KindsDiffer
  <2> QED
    BY <2>1, KindsDiffer
<1>4. step \in Reads("") => step \notin Awaits
  BY KindsDiffer
<1> QED
  BY <1>1, <1>2, <1>3, <1>4 DEF Effect

\* Before anything is asked the effect is that of the question and the wait for it.
LEMMA EffectOfAsking ==
  ASSUME NEW u \in Units, NEW v \in Units, NEW step \in Asks(""), Effect(u, step, v),
         NEW m \in Messages, m.cmd = step.cmd, Waiting(step) \in Pauses("")
  PROVE  \E x \in Units : Effect(u, m, x) /\ Effect(x, Waiting(step), v)
<1>1. CASE step \in Reads("")
  <2>1. Effect(u, m, v)
    BY <1>1, EffectOf
  <2>2. Effect(v, Waiting(step), v)
    BY <1>1, EffectOfWaiting
  <2> QED
    BY <2>1, <2>2
<1>2. CASE step \in Awaits
  <2>1. m.cmd = None
    BY <1>2 DEF Awaits
  <2>2. Effect(u, m, u)
    BY <2>1, EffectOf DEF Taken
  <2>3. Effect(u, Waiting(step), v)
    BY <1>2, EffectOf, EffectOfWaiting
  <2> QED
    BY <2>2, <2>3
<1> QED
  BY <1>1, <1>2 DEF Asks

\* What a tool asks and has an effect is no decision any more.
LEMMA EffectPassive ==
  ASSUME NEW tool, NEW step \in Asks(tool), NEW u, NEW v,
         Effect(u, step, v) \/ Effect(u, Waiting(step), v)
  PROVE  step \in Asks("") /\ (step.of \in Topics => Waiting(step) \in Pauses(""))
<1>1. step \in Asks("")
  <2>1. CASE step \in Awaits
    BY <2>1 DEF Asks
  <2>2. CASE step \in Reads(tool)
    <3>1. step.do = "read" /\ "do" \in DOMAIN step
      BY <2>2, KindsDiffer
    <3>2. step \notin Messages /\ step \notin Sends /\ step \notin Awaits /\ step \notin Pauses("")
      BY <3>1, KindsDiffer
    <3>3. CASE Effect(u, step, v)
      BY <3>2, <3>3 DEF Effect, Asks
    <3>4. CASE Effect(u, Waiting(step), v)
      <4>1. PICK p : p = Waiting(step) /\ p.do = "wait" /\ p.for = step /\ "do" \in DOMAIN p
        BY DEF Waiting
      <4>2. p \notin Sends /\ p \notin Reads("") /\ p \notin Awaits /\ p \notin Messages
        BY <4>1, KindsDiffer
      <4> QED
        BY <3>2, <3>4, <4>1, <4>2 DEF Effect, Asks
    <3> QED
      BY <3>3, <3>4
  <2> QED
    BY <2>1, <2>2 DEF Asks
<1> QED
  BY <1>1 DEF Waiting, Pauses

\* While a switch of scenes is under way, only what sees it through changes anything.
LEMMA EffectUnsettled ==
  ASSUME NEW u \in Units, ~Settled(u), NEW m, NEW v, Effect(u, m, v)
  PROVE  (v = u \/ v = Done(u)) /\ Effect(Done(u), m, Done(u))
<1>1. PICK d : d = Done(u)
  OBVIOUS
<1>2. d.next = u.next /\ d.scene = u.next /\ Done(d) = d
  BY <1>1 DEF Done, Units
<1>3. \A cmd : Taken(u, cmd, v) => v = u /\ Taken(d, cmd, d)
  BY DEF Taken
<1>4. \A s : Seen(u, s, v) => v = d /\ Seen(d, s, d)
  BY <1>1, <1>2 DEF Seen
<1> QED
  BY <1>1, <1>3, <1>4 DEF Effect

\* A way is the same once the switch is done, unless it led nowhere.
LEMMA WaySettled ==
  ASSUME NEW S, NEW s \in Seq(S), NEW u \in Units, ~Settled(u), NEW v, Way(u, s, v)
  PROVE  Way(Done(u), s, v) \/ (v = u /\ Way(Done(u), s, Done(u)))
<1>1. PICK n \in Nat : n = Len(s)
  BY LenProperties
<1>2. PICK d : d = Done(u) /\ d \in Units
  <2>1. Done(u) \in Units
    BY ZenonT(60) DEF Done, Units
  <2> QED
    BY <2>1
<1>3. PICK g : Along(g, u, s, v)
  BY WayAlong
<1>4. /\ \A i \in 0 .. n : g[i] \in Units
      /\ g[0] = u /\ g[n] = v
      /\ \A i \in 1 .. n : Effect(g[i - 1], s[i], g[i])
  BY <1>1, <1>3 DEF Along
<1> DEFINE Still(i) == \A j \in 0 .. i : g[j] = u
<1>5. PICK h : h = [i \in 0 .. n |-> IF Still(i) THEN d ELSE g[i]]
  OBVIOUS
<1>6. \A i \in 0 .. n : h[i] = IF Still(i) THEN d ELSE g[i]
  BY <1>5
<1>7. \A i \in 0 .. n : h[i] \in Units
  BY <1>2, <1>4, <1>6
<1>8. \A i \in 1 .. n : Effect(h[i - 1], s[i], h[i])
  <2> TAKE i \in 1 .. n
  <2>1. i - 1 \in 0 .. n /\ i \in 0 .. n /\ i - 1 \in 0 .. i - 1 /\ \A j \in 0 .. i : j \in 0 .. i - 1 \/ j = i
    OBVIOUS
  <2>2. Effect(g[i - 1], s[i], g[i])
    BY <1>4
  <2>3. CASE Still(i - 1)
    <3>1. g[i - 1] = u /\ h[i - 1] = d
      BY <1>6, <2>1, <2>3
    <3>2. (g[i] = u \/ g[i] = d) /\ Effect(d, s[i], d)
      BY <1>2, <2>2, <3>1, EffectUnsettled
    <3>3. g[i] = u => Still(i)
      BY <2>1, <2>3
    <3>4. h[i] = d
      BY <1>6, <2>1, <3>2, <3>3
    <3> QED
      BY <3>1, <3>2, <3>4
  <2>4. CASE ~Still(i - 1)
    <3>1. ~Still(i)
      <4>1. PICK j \in 0 .. i - 1 : g[j] # u
        BY <2>4
      <4>2. j \in 0 .. i
        BY <4>1
      <4> QED
        BY <4>1, <4>2
    <3>2. h[i - 1] = g[i - 1] /\ h[i] = g[i]
      BY <1>6, <2>1, <2>4, <3>1
    <3> QED
      BY <2>2, <3>2
  <2> QED
    BY <2>3, <2>4
<1>9. h[0] = d
  <2>1. Still(0) /\ 0 \in 0 .. n
    <3>1. \A j \in 0 .. 0 : j = 0
      OBVIOUS
    <3> QED
      BY <1>4, <3>1
  <2> QED
    BY <1>6, <2>1
<1>10. h \in [0 .. n -> Units]
  BY <1>5, <1>7
<1>11. Along(h, d, s, h[n])
  BY <1>1, <1>8, <1>9, <1>10 DEF Along
<1>12. Way(d, s, h[n])
  BY <1>11, WayAlong
<1>13. n \in 0 .. n
  OBVIOUS
<1>14. h[n] = v \/ (h[n] = d /\ v = u)
  <2>1. CASE Still(n)
    BY <1>4, <1>6, <1>13, <2>1
  <2>2. CASE ~Still(n)
    BY <1>4, <1>6, <1>13, <2>2
  <2> QED
    BY <2>1, <2>2
<1> QED
  BY <1>2, <1>12, <1>14

\* Whose messages they are makes no difference to the way.
LEMMA WayAlike ==
  ASSUME NEW p \in Seq(Messages), NEW q \in Seq(Messages), Len(q) = Len(p),
         \A i \in 1 .. Len(p) : q[i].cmd = p[i].cmd, NEW u, NEW v, Way(u, p, v)
  PROVE  Way(u, q, v)
<1>1. PICK n \in Nat : n = Len(p)
  BY LenProperties
<1>2. PICK g : Along(g, u, p, v)
  BY WayAlong
<1>3. \A i \in 1 .. n : p[i] \in Messages /\ q[i] \in Messages
  BY <1>1, ElementOfSeq
<1>4. \A i \in 1 .. n : Effect(g[i - 1], q[i], g[i])
  BY <1>1, <1>2, <1>3, EffectOf DEF Along
<1>5. Along(g, u, q, v)
  BY <1>1, <1>2, <1>4 DEF Along
<1> QED
  BY <1>5, WayAlong

-----------------------------------------------------------------------------
(* What is promised *)

\* A read by which a tool decides is a step of it.
LEMMA DecisionThere ==
  ASSUME NEW tool, NEW of \in {"preset", "mode"}, NEW then \in Thens \ Passive,
         <<of, then>> \in Decides(tool)
  PROVE  /\ Read(of, then).do = "read" /\ Read(of, then).cmd = None
         /\ Read(of, then).of = of /\ Read(of, then).then = then
         /\ Read(of, then) \in Steps(tool)
<1>1. Read(of, then) \in Steps(tool)
  <2>1. of \in Topics /\ then \in Thens
    BY DEF Topics
  <2> QED
    BY <2>1, StepsThere
<1> QED
  BY <1>1 DEF Read

\* The read a tool begins with.
LEMMA OpeningIs ==
  ASSUME NEW c, c.tool \in Promising, c.tool # "set_parameter_scenes"
  PROVE  /\ Opening(c).do = "read" /\ Opening(c).cmd = None
         /\ Opening(c).of \in {"preset", "mode"} /\ Opening(c) \in Steps(c.tool)
         /\ Opening(c).then \notin Passive
<1>1. CASE c.tool \in {"build_preset", "clear_grid"}
  <2>1. Opening(c) = Read("preset", "clear")
    BY <1>1 DEF Opening
  <2>2. <<"preset", "clear">> \in Decides(c.tool) /\ "clear" \in Thens \ Passive
    BY <1>1 DEF Decides, Thens, Passive
  <2> QED
    BY <2>1, <2>2, DecisionThere
<1>2. CASE c.tool = "set_block_bypass"
  <2>1. Opening(c) = Read("preset", "bypass")
    BY <1>2 DEF Opening
  <2>2. <<"preset", "bypass">> \in Decides(c.tool) /\ "bypass" \in Thens \ Passive
    BY <1>2 DEF Decides, Thens, Passive
  <2> QED
    BY <2>1, <2>2, DecisionThere
<1>3. CASE c.tool = "assign_stomp"
  <2>1. Opening(c) = Read("preset", "stomp")
    BY <1>3 DEF Opening
  <2>2. <<"preset", "stomp">> \in Decides(c.tool) /\ "stomp" \in Thens \ Passive
    BY <1>3 DEF Decides, Thens, Passive
  <2> QED
    BY <2>1, <2>2, DecisionThere
<1>4. CASE c.tool = "save_device_preset"
  <2>1. Opening(c) = Read("preset", "save")
    BY <1>4 DEF Opening
  <2>2. <<"preset", "save">> \in Decides(c.tool) /\ "save" \in Thens \ Passive
    BY <1>4 DEF Decides, Thens, Passive
  <2> QED
    BY <2>1, <2>2, DecisionThere
<1>5. CASE c.tool = "switch_mode"
  <2>1. Opening(c) = Read("mode", "mode")
    BY <1>5 DEF Opening
  <2>2. <<"mode", "mode">> \in Decides(c.tool) /\ "mode" \in Thens \ Passive
    BY <1>5 DEF Decides, Thens, Passive
  <2> QED
    BY <2>1, <2>2, DecisionThere
<1> QED
  BY <1>1, <1>2, <1>3, <1>4, <1>5 DEF Promising

\* No promise leaves a switch of scenes under way.
LEMMA PromisedSettled ==
  ASSUME NEW c, NEW u \in Units, Settled(u), c.tool \in Promising
  PROVE  Settled(Promised(c, u))
<1>1. CASE c.tool \in {"build_preset", "clear_grid"}
  <2>1. \E a, b : Promised(c, u) = Laid(u, a, b)
    BY <1>1 DEF Promised, Built
  <2>2. \A a, b : Laid(u, a, b).scene = u.scene /\ Laid(u, a, b).next = u.next
    BY DEF Laid, Units
  <2> QED
    BY <2>1, <2>2 DEF Settled
<1>2. CASE c.tool \in {"set_parameter_scenes", "set_block_bypass"}
  <2>1. Promised(c, u) = u \/ \E p, l : Promised(c, u) = InScenes(u, c.cell, p, l)
    BY <1>2 DEF Promised
  <2>2. \A p, l : InScenes(u, c.cell, p, l).scene = 0 /\ InScenes(u, c.cell, p, l).next = 0
    BY DEF InScenes, Units
  <2> QED
    BY <2>1, <2>2 DEF Settled
<1>3. CASE c.tool = "assign_stomp"
  <2>1. PICK b : b = Bound(u, c)
    OBVIOUS
  <2>2. b.scene = u.scene /\ b.next = u.next
    BY <2>1 DEF Bound, Units
  <2>3. \/ Promised(c, u) = u
        \/ \E m : Promised(c, u) = [b EXCEPT !.momentary = m]
    BY <1>3, <2>1 DEF Promised
  <2>4. \A m : [b EXCEPT !.momentary = m].scene = b.scene /\ [b EXCEPT !.momentary = m].next = b.next
    OBVIOUS
  <2> QED
    BY <2>2, <2>3, <2>4 DEF Settled
<1>4. CASE c.tool = "save_device_preset"
  <2>1. PICK s : s = [u EXCEPT !.slot = c.cell]
    OBVIOUS
  <2>2. s.scene = u.scene /\ s.next = u.next
    BY <2>1 DEF Units
  <2>3. Promised(c, u) = u \/ Promised(c, u) = Created(s, c)
    BY <1>4, <2>1 DEF Promised
  <2>4. Created(s, c).scene = s.scene /\ Created(s, c).next = s.next
    BY DEF Created
  <2> QED
    BY <2>2, <2>3, <2>4 DEF Settled
<1>5. CASE c.tool = "switch_mode"
  <2>1. Promised(c, u) = u \/ Promised(c, u) = [u EXCEPT !.mode = c.mode]
    BY <1>5 DEF Promised
  <2> QED
    BY <2>1 DEF Settled, Units
<1> QED
  BY <1>1, <1>2, <1>3, <1>4, <1>5 DEF Promising


-----------------------------------------------------------------------------
(* The way of one message *)

\* A message to a unit at rest.
LEMMA SentWay ==
  ASSUME NEW u \in Units, Tidy(u), Settled(u), NEW c \in Commands
  PROVE  Way(u, <<Sent(c)>>, Apply(u, c)) /\ Apply(u, c) \in Units /\ Tidy(Apply(u, c))
<1>1. Sent(c) \in Sends /\ Sent(c).cmd = c
  BY DEF Sent, Sends
<1>2. c # None
  BY PresetToolsAssumption
<1>3. Effect(u, Sent(c), Apply(u, c))
  BY <1>1, <1>2, EffectOf DEF Taken
<1>4. Apply(u, c) \in Units /\ Tidy(Apply(u, c))
  BY ApplyTyped
<1> QED
  BY <1>3, <1>4, WayOne

\* A read whose answer decides nothing changes nothing.
LEMMA ReadWay ==
  ASSUME NEW u \in Units, NEW of \in Topics, NEW then \in Passive
  PROVE  Way(u, <<Read(of, then)>>, u)
<1>1. Read(of, then) \in Reads("") /\ Read(of, then).cmd = None
  BY DEF Read, Reads, Thens
<1>2. Effect(u, Read(of, then), u)
  BY <1>1, EffectOf DEF Taken
<1> QED
  BY <1>2, WayOne

\* A request has the effect of its message.
LEMMA RequestWay ==
  ASSUME NEW u \in Units, Tidy(u), Settled(u), NEW c \in Commands, NEW of \in Topics
  PROVE  Way(u, <<Request(c, of)>>, Apply(u, c)) /\ Apply(u, c) \in Units /\ Tidy(Apply(u, c))
<1>1. Request(c, of) \in Reads("") /\ Request(c, of).cmd = c
  BY DEF Request, Reads, Passive, Thens
<1>2. c # None
  BY PresetToolsAssumption
<1>3. Effect(u, Request(c, of), Apply(u, c))
  BY <1>1, <1>2, EffectOf DEF Taken
<1>4. Apply(u, c) \in Units /\ Tidy(Apply(u, c))
  BY ApplyTyped
<1> QED
  BY <1>3, <1>4, WayOne

\* An await sees the switch to its scene through.
LEMMA AwaitWay ==
  ASSUME NEW u \in Units, NEW s \in Scenes, u.next = s
  PROVE  Way(u, <<AwaitScene(s)>>, Done(u)) /\ Done(u) \in Units
<1>1. AwaitScene(s) \in Awaits /\ AwaitScene(s).scene = s
  <2>1. Rounds \in 1 .. Rounds
    BY PresetToolsAssumption
  <2> QED
    BY <2>1 DEF AwaitScene, Awaits
<1>2. Effect(u, AwaitScene(s), Done(u))
  BY <1>1, EffectOf DEF Seen
<1>3. Done(u) \in Units
  BY ZenonT(60) DEF Done, Units
<1> QED
  BY <1>2, <1>3, WayOne

-----------------------------------------------------------------------------
(* Units compared field by field *)

\* What no walk over the scenes, no cleared grid and no spec touches.
Others(v, u) ==
  /\ v.lane = u.lane /\ v.stomp = u.stomp /\ v.momentary = u.momentary
  /\ v.label = u.label /\ v.mode = u.mode /\ v.cycle = u.cycle
  /\ v.slot = u.slot /\ v.own = u.own /\ v.eq = u.eq /\ v.io = u.io

\* A unit is what its fields are.
LEMMA SameUnit ==
  ASSUME NEW u \in Units, NEW v \in Units, Others(v, u), v.blocks = u.blocks, v.value = u.value,
         v.scened = u.scened, v.expr = u.expr, v.route = u.route, v.split = u.split,
         v.scene = u.scene, v.next = u.next
  PROVE  v = u
<1> DEFINE F == {"blocks", "value", "scened", "expr", "route", "split", "lane", "stomp",
                 "momentary", "label", "scene", "next", "mode", "cycle", "slot", "own", "eq", "io"}
<1>1. u = [f \in F |-> u[f]] /\ v = [f \in F |-> v[f]]
  BY DEF Units
<1>2. \A f \in F : v[f] = u[f]
  BY DEF Others
<1> HIDE DEF F
<1> QED
  BY <1>1, <1>2

\* The unit with another preset on its grid.
Put(u, blocks, value, scened, expr, route, split) ==
  [u EXCEPT !.blocks = blocks, !.value = value, !.scened = scened, !.expr = expr,
            !.route = route, !.split = split]

\* v is u but for its grid.
Holds(v, u, blocks, value, scened, expr, route, split) ==
  /\ v \in Units /\ Others(v, u) /\ v.scene = u.scene /\ v.next = u.next
  /\ v.blocks = blocks /\ v.value = value /\ v.scened = scened /\ v.expr = expr
  /\ v.route = route /\ v.split = split

\* It is one, and no other field is different.
LEMMA PutIs ==
  ASSUME NEW u \in Units, NEW blocks \in Blocks, NEW value \in [Cells -> [Params -> [Scenes -> Values]]],
         NEW scened \in SUBSET (Cells \X Params), NEW expr \in SUBSET (Cells \X Params),
         NEW route \in [Rows -> Ports], NEW split \in [Rows -> Points \cup {None}]
  PROVE  Holds(Put(u, blocks, value, scened, expr, route, split), u,
               blocks, value, scened, expr, route, split)
<1>0. PICK v : v = Put(u, blocks, value, scened, expr, route, split)
  OBVIOUS
<1>1. /\ v.scene = u.scene /\ v.next = u.next
      /\ v.blocks = blocks /\ v.value = value /\ v.scened = scened /\ v.expr = expr
      /\ v.route = route /\ v.split = split
  BY <1>0 DEF Put, Units
<1>2. Others(v, u)
  BY <1>0 DEF Put, Units, Others
<1>3. v \in Units
  BY <1>0, <1>1, <1>2, ZenonT(60) DEF Put, Units, Others
<1> QED
  BY <1>0, <1>1, <1>2, <1>3 DEF Holds

-----------------------------------------------------------------------------
(* The walk over the scenes *)

\* Only values and scenes are different.
Kept(t, u) ==
  /\ Others(t, u) /\ t.blocks = u.blocks /\ t.scened = u.scened /\ t.expr = u.expr
  /\ t.route = u.route /\ t.split = u.split

\* The values after a plain write.
Writing(u, cell, p, x) ==
  [u.value EXCEPT ![cell][p] = [s \in Scenes |-> IF <<cell, p>> \in u.scened /\ s # u.scene
                                                THEN u.value[cell][p][s] ELSE x]]

\* What a plain write changes.
LEMMA WrittenIs ==
  ASSUME NEW u \in Units, NEW cell \in Cells, NEW p \in Params, NEW x \in Values
  PROVE  /\ Kept(Written(u, cell, p, x), u)
         /\ Written(u, cell, p, x).scene = u.scene /\ Written(u, cell, p, x).next = u.next
         /\ Written(u, cell, p, x).value = Writing(u, cell, p, x)
<1>0. PICK v : v = Written(u, cell, p, x)
  OBVIOUS
<1>1. Others(v, u)
  BY <1>0 DEF Written, Units, Others
<1>2. /\ v.blocks = u.blocks /\ v.scened = u.scened /\ v.expr = u.expr
      /\ v.route = u.route /\ v.split = u.split /\ v.scene = u.scene /\ v.next = u.next
  BY <1>0 DEF Written, Units
<1>3. v.value = Writing(u, cell, p, x)
  BY <1>0 DEF Written, Writing, Units
<1> QED
  BY <1>0, <1>1, <1>2, <1>3 DEF Kept

\* The values of the first k scenes are those of the list.
Valued(value, cell, p, values, k) ==
  [value EXCEPT ![cell][p] = [s \in Scenes |-> IF s < k THEN values[s + 1] ELSE @[s]]]

\* u with these values, at rest in a scene.
Walked(u, value, s) == [u EXCEPT !.value = value, !.scene = s, !.next = s]

\* v is u but for its values and the scene it is at rest in.
Rests(v, u, value, s) ==
  v \in Units /\ Kept(v, u) /\ v.value = value /\ v.scene = s /\ v.next = s

\* It is one, and no other field is different.
LEMMA WalkedIs ==
  ASSUME NEW u \in Units, NEW value \in [Cells -> [Params -> [Scenes -> Values]]], NEW s \in Scenes
  PROVE  Rests(Walked(u, value, s), u, value, s)
<1>0. PICK v : v = Walked(u, value, s)
  OBVIOUS
<1>1. Others(v, u)
  BY <1>0 DEF Walked, Units, Others
<1>2. /\ v.blocks = u.blocks /\ v.scened = u.scened
      /\ v.expr = u.expr /\ v.route = u.route /\ v.split = u.split
      /\ v.scene = s /\ v.next = s /\ v.value = value
  BY <1>0 DEF Walked, Units
<1>3. v \in Units
  BY <1>0, <1>1, <1>2, ZenonT(60) DEF Walked, Units, Others
<1> QED
  BY <1>0, <1>1, <1>2, <1>3 DEF Kept, Rests

\* And there is only one.
LEMMA RestsSame ==
  ASSUME NEW u, NEW value, NEW s, NEW v, NEW x, Rests(v, u, value, s), Rests(x, u, value, s)
  PROVE  v = x
<1>1. Others(v, x)
  BY DEF Rests, Kept, Others
<1> QED
  BY <1>1, SameUnit DEF Rests, Kept

\* To a scene: it is made active, and awaited.
LEMMA SceneWay ==
  ASSUME NEW tool, NEW u \in Units, Tidy(u), Settled(u), NEW s \in Scenes
  PROVE  /\ Way(u, QcSetScene(s) \o <<AwaitScene(s)>>, Walked(u, u.value, s))
         /\ QcSetScene(s) \o <<AwaitScene(s)>> \in Seq(Steps(tool))
<1>1. PICK c : c = [op |-> "scene", scene |-> s] /\ c \in Commands
  <2>1. [op |-> "scene", scene |-> s] \in Commands
    BY DEF Commands
  <2> QED
    BY <2>1
<1>2. PICK a : a = Apply(u, c) /\ a \in Units /\ Way(u, <<Sent(c)>>, a)
  BY <1>1, SentWay
<1>3. a = [u EXCEPT !.next = s]
  BY <1>1, <1>2 DEF Apply
<1>4. a.next = s
  BY <1>3 DEF Units
<1>5. Way(a, <<AwaitScene(s)>>, Done(a)) /\ Done(a) \in Units
  BY <1>2, <1>4, AwaitWay
<1>6. u.value \in [Cells -> [Params -> [Scenes -> Values]]]
  BY DEF Units
<1>7. Done(a) = Walked(u, u.value, s)
  <2>1. PICK d : d = Done(a) /\ d \in Units
    BY <1>5
  <2>2. /\ d.value = u.value /\ d.scene = s /\ d.next = s /\ d.blocks = u.blocks
        /\ d.scened = u.scened /\ d.expr = u.expr /\ d.route = u.route /\ d.split = u.split
    BY <1>3, <1>4, <2>1 DEF Done, Units
  <2>3. Others(d, u)
    BY <1>3, <2>1 DEF Done, Units, Others
  <2>4. Rests(d, u, u.value, s)
    BY <2>1, <2>2, <2>3 DEF Rests, Kept
  <2>5. Rests(Walked(u, u.value, s), u, u.value, s)
    BY <1>6, WalkedIs
  <2> QED
    BY <2>1, <2>4, <2>5, RestsSame
<1>8. <<Sent(c)>> \in Seq(Steps(tool)) /\ <<AwaitScene(s)>> \in Seq(Steps(tool))
  <2>1. Sent(c) \in Steps(tool) /\ AwaitScene(s) \in Steps(tool)
    BY <1>1, StepsThere
  <2> QED
    BY <2>1, OneIsSeq
<1>9. QcSetScene(s) = <<Sent(c)>>
  BY <1>1 DEF QcSetScene
<1>10. Way(u, <<Sent(c)>> \o <<AwaitScene(s)>>, Done(a))
  BY <1>2, <1>5, <1>8, WayJoin
<1>11. <<Sent(c)>> \o <<AwaitScene(s)>> \in Seq(Steps(tool))
  BY <1>8, Joined
<1> QED
  BY <1>7, <1>9, <1>10, <1>11

\* The values on the way are values, none of them at first, and only of one cell.
LEMMA ValuedTyped ==
  ASSUME NEW value \in [Cells -> [Params -> [Scenes -> Values]]], NEW cell \in Cells, NEW p \in Params,
         NEW values \in PerScene(Values), NEW k \in 0 .. Len(values)
  PROVE  /\ Valued(value, cell, p, values, k) \in [Cells -> [Params -> [Scenes -> Values]]]
         /\ k = 0 => Valued(value, cell, p, values, k) = value
         /\ \A c \in Cells : c # cell => Valued(value, cell, p, values, k)[c] = value[c]
<1>0. PICK f : f = Valued(value, cell, p, values, k)
  OBVIOUS
<1>1. values \in Seq(Values) /\ Len(values) \in Nat
  BY LenProperties DEF PerScene
<1>2. \A s \in Scenes : s \in Nat /\ (s < k => values[s + 1] \in Values)
  BY <1>1, ElementOfSeq, UnitAssumption DEF UnitAssumption
<1>3. PICK row : row = [s \in Scenes |-> IF s < k THEN values[s + 1] ELSE value[cell][p][s]]
  OBVIOUS
<1>4. row \in [Scenes -> Values]
  BY <1>2, <1>3
<1>5. f = [value EXCEPT ![cell][p] = row]
  BY <1>0, <1>3 DEF Valued
<1>6. k = 0 => row = value[cell][p]
  BY <1>2, <1>3
<1>7. f \in [Cells -> [Params -> [Scenes -> Values]]]
  BY <1>4, <1>5
<1>8. k = 0 => f = value
  BY <1>5, <1>6
<1>9. \A c \in Cells : c # cell => f[c] = value[c]
  BY <1>5
<1> QED
  BY <1>0, <1>7, <1>8, <1>9

\* One round of the walk puts one more value into its scene.
LEMMA RoundWay ==
  ASSUME NEW tool, NEW u \in Units, NEW cell \in Cells, NEW p \in Params,
         <<cell, p>> \in u.scened, NEW values \in PerScene(Values), NEW k \in 1 .. Len(values),
         NEW t \in Units, Tidy(t), Settled(t), Kept(t, u),
         t.value = Valued(u.value, cell, p, values, k - 1),
         NEW x \in Seq(Steps(tool)), NEW y, y = Walked(t, t.value, k - 1),
         Way(y, x, Written(y, cell, p, values[k]))
  PROVE  Way(t, QcSetScene(k - 1) \o <<AwaitScene(k - 1)>> \o x,
             Walked(u, Valued(u.value, cell, p, values, k), k - 1))
<1>1. values \in Seq(Values) /\ Len(values) \in Nat /\ values[k] \in Values /\ k - 1 \in Scenes
  BY LenProperties, ElementOfSeq DEF PerScene
<1>2. u.value \in [Cells -> [Params -> [Scenes -> Values]]]
      /\ t.value \in [Cells -> [Params -> [Scenes -> Values]]]
  BY DEF Units
<1>3. Rests(y, t, t.value, k - 1)
  BY <1>1, <1>2, WalkedIs
<1>4. PICK d : d = Written(y, cell, p, values[k])
  OBVIOUS
<1>5. /\ Kept(d, y) /\ d.scene = y.scene /\ d.next = y.next
      /\ d.value = Writing(y, cell, p, values[k])
  <2>1. y \in Units /\ values[k] \in Values
    BY <1>1, <1>3 DEF Rests
  <2> QED
    BY <1>4, <2>1, WrittenIs
<1>6. PICK f : f = Valued(u.value, cell, p, values, k)
               /\ f \in [Cells -> [Params -> [Scenes -> Values]]]
  <2>1. k \in 0 .. Len(values)
    BY <1>1
  <2> QED
    BY <1>2, <2>1, ValuedTyped
<1>7. y.scened = u.scened /\ y.value = t.value /\ y.scene = k - 1
  BY <1>3 DEF Rests, Kept
<1>8. d.value = f
  <2>1. PICK row : row = [s \in Scenes |-> IF s < k - 1 THEN values[s + 1] ELSE u.value[cell][p][s]]
    OBVIOUS
  <2>2. t.value = [u.value EXCEPT ![cell][p] = row]
    BY <2>1 DEF Valued
  <2>3. t.value[cell][p] = row
    BY <1>2, <2>2
  <2>4. PICK new : new = [s \in Scenes |-> IF s # k - 1 THEN row[s] ELSE values[k]]
    OBVIOUS
  <2>5. d.value = [t.value EXCEPT ![cell][p] = new]
    <3>1. <<cell, p>> \in y.scened
      BY <1>7
    <3>2. [s \in Scenes |-> IF <<cell, p>> \in y.scened /\ s # y.scene
                            THEN y.value[cell][p][s] ELSE values[k]] = new
      BY <1>7, <2>3, <2>4, <3>1
    <3> QED
      BY <1>5, <1>7, <3>2 DEF Writing
  <2>6. PICK all : all = [s \in Scenes |-> IF s < k THEN values[s + 1] ELSE u.value[cell][p][s]]
    OBVIOUS
  <2>7. f = [u.value EXCEPT ![cell][p] = all]
    BY <1>6, <2>6 DEF Valued
  <2>8. new = all
    <3>1. \A s \in Scenes : s \in Nat
      BY UnitAssumption DEF UnitAssumption
    <3>2. \A s \in Scenes : new[s] = all[s]
      <4> TAKE s \in Scenes
      <4>1. CASE s = k - 1
        BY <1>1, <2>4, <2>6, <3>1, <4>1
      <4>2. CASE s # k - 1
        BY <1>1, <2>1, <2>4, <2>6, <3>1, <4>2
      <4> QED
        BY <4>1, <4>2
    <3> QED
      BY <2>4, <2>6, <3>2
  <2> QED
    BY <1>2, <2>2, <2>5, <2>7, <2>8, ZenonT(60)
<1>9. Rests(d, u, f, k - 1)
  <2>1. d \in Units
    BY <1>4, WayTyped
  <2>2. Kept(d, u)
    <3>1. Others(d, u)
      BY <1>3, <1>5 DEF Others, Kept, Rests
    <3> QED
      BY <1>3, <1>5, <3>1 DEF Kept, Rests
  <2>3. d.scene = k - 1 /\ d.next = k - 1
    BY <1>3, <1>5 DEF Rests
  <2> QED
    BY <1>8, <2>1, <2>2, <2>3 DEF Rests
<1>10. d = Walked(u, f, k - 1)
  <2>1. Rests(Walked(u, f, k - 1), u, f, k - 1)
    BY <1>1, <1>6, WalkedIs
  <2> QED
    BY <1>9, <2>1, RestsSame
<1>11. /\ Way(t, QcSetScene(k - 1) \o <<AwaitScene(k - 1)>>, y)
       /\ QcSetScene(k - 1) \o <<AwaitScene(k - 1)>> \in Seq(Steps(tool))
  BY <1>1, SceneWay
<1>12. Way(t, (QcSetScene(k - 1) \o <<AwaitScene(k - 1)>>) \o x, d)
  BY <1>4, <1>11, WayJoin
<1> QED
  BY <1>6, <1>10, <1>12


\* A unit on the way keeps its cells tidy.
LEMMA RestsTidy ==
  ASSUME NEW u \in Units, Tidy(u), NEW cell \in Cells, u.blocks[cell] # None, NEW value,
         \A c \in Cells : c # cell => value[c] = u.value[c], NEW s, NEW v, Rests(v, u, value, s)
  PROVE  Tidy(v) /\ Settled(v) /\ v.blocks[cell] # None
<1>1. /\ v.blocks = u.blocks /\ v.scened = u.scened /\ v.expr = u.expr /\ v.value = value
      /\ v.scene = v.next
  BY DEF Rests, Kept
<1>2. ASSUME NEW c \in Cells, v.blocks[c] = None
      PROVE  v.value[c] = Fresh /\ \A x \in v.scened \cup v.expr : x[1] # c
  BY <1>1, <1>2 DEF Tidy
<1> QED
  BY <1>1, <1>2 DEF Tidy, Settled

\* The whole walk, if each write is what a plain write is.
LEMMA WalkWay ==
  ASSUME NEW tool, NEW u \in Units, Tidy(u), Settled(u), NEW cell \in Cells, u.blocks[cell] # None,
         NEW p \in Params, <<cell, p>> \in u.scened, NEW values \in PerScene(Values),
         NEW write \in [Values -> Seq(Steps(tool))],
         \A t \in Units, z \in Values : Tidy(t) /\ Settled(t) /\ Kept(t, u) =>
           Way(t, write[z], Written(t, cell, p, z))
  PROVE  /\ Way(u, Walk(values, write),
                Walked(u, Valued(u.value, cell, p, values, Len(values)), 0))
         /\ Walk(values, write) \in Seq(Steps(tool))
<1>1. PICK n \in Nat : n = Len(values)
  BY LenProperties DEF PerScene
<1>2. \A k \in 1 .. n : values[k] \in Values /\ k - 1 \in Scenes
  BY <1>1, ElementOfSeq DEF PerScene
<1>3. u.value \in [Cells -> [Params -> [Scenes -> Values]]] /\ 0 \in Scenes
  BY UnitAssumption DEF Units, UnitAssumption
<1> DEFINE V(k) == Valued(u.value, cell, p, values, k)
<1>4. \A k \in 0 .. n : /\ V(k) \in [Cells -> [Params -> [Scenes -> Values]]]
                        /\ \A c \in Cells : c # cell => V(k)[c] = u.value[c]
  <2> TAKE k \in 0 .. n
  <2>1. k \in 0 .. Len(values)
    BY <1>1
  <2>2. PICK value \in [Cells -> [Params -> [Scenes -> Values]]] : value = u.value
    BY <1>3
  <2>3. Valued(value, cell, p, values, k) \in [Cells -> [Params -> [Scenes -> Values]]]
    BY <2>1, ValuedTyped, Zenon
  <2>4. ASSUME NEW c \in Cells, c # cell
        PROVE  Valued(value, cell, p, values, k)[c] = value[c]
    BY <2>4 DEF Valued
  <2> QED
    BY <2>2, <2>3, <2>4
<1>5. V(0) = u.value
  <2>1. 0 \in 0 .. Len(values)
    BY <1>1
  <2>2. PICK value \in [Cells -> [Params -> [Scenes -> Values]]] : value = u.value
    BY <1>3
  <2>3. Valued(value, cell, p, values, 0) = value
    BY <2>1, ValuedTyped, ZenonT(60)
  <2> QED
    BY <2>2, <2>3
<1>6. Walk(values, write) \in Seq(Steps(tool))
  <2>1. /\ \A c \in Commands : Sent(c) \in Steps(tool)
        /\ \A s \in Scenes : AwaitScene(s) \in Steps(tool)
    BY StepsThere
  <2> QED
    BY <2>1, WalkTyped
<1> HIDE DEF V
<1>7. PICK g : g = [k \in 0 .. n |-> IF k = 0 THEN u ELSE Walked(u, V(k), k - 1)]
  OBVIOUS
<1>8. PICK f : f = [k \in 1 .. n |-> QcSetScene(k - 1) \o <<AwaitScene(k - 1)>> \o write[values[k]]]
  OBVIOUS
<1>9. \A k \in 1 .. n : Rests(Walked(u, V(k), k - 1), u, V(k), k - 1)
  <2> TAKE k \in 1 .. n
  <2>1. k \in 0 .. n
    OBVIOUS
  <2>2. V(k) \in [Cells -> [Params -> [Scenes -> Values]]]
    BY <1>4, <2>1
  <2> QED
    BY <1>2, <2>1, <2>2, WalkedIs, Zenon
<1>10. ASSUME NEW k \in 0 .. n
       PROVE  g[k] \in Units /\ Tidy(g[k]) /\ Settled(g[k]) /\ Kept(g[k], u) /\ g[k].value = V(k)
  <2>1. CASE k = 0
    BY <1>5, <1>7, <2>1 DEF Kept, Others
  <2>2. CASE k # 0
    <3>1. k \in 1 .. n /\ g[k] = Walked(u, V(k), k - 1)
      BY <1>7, <2>2
    <3>2. Rests(g[k], u, V(k), k - 1)
      BY <1>9, <3>1
    <3>3. Tidy(g[k]) /\ Settled(g[k])
      BY <1>4, <3>2, RestsTidy
    <3> QED
      BY <3>2, <3>3 DEF Rests
  <2> QED
    BY <2>1, <2>2
<1>11. ASSUME NEW k \in 1 .. n
       PROVE  f[k] \in Seq(Steps(tool)) /\ Way(g[k - 1], f[k], g[k])
  <2>1. k - 1 \in 0 .. n /\ k # 0 /\ k \in 0 .. n /\ k \in 1 .. Len(values) /\ k - 1 \in Scenes
        /\ values[k] \in Values
    BY <1>1, <1>2
  <2>2. PICK t : t = g[k - 1] /\ t \in Units /\ Tidy(t) /\ Settled(t) /\ Kept(t, u) /\ t.value = V(k - 1)
    BY <1>10, <2>1
  <2>3. PICK y : y = Walked(t, t.value, k - 1)
    OBVIOUS
  <2>4. PICK x \in Seq(Steps(tool)) : x = write[values[k]]
    BY <2>1
  <2>5. Rests(y, t, t.value, k - 1)
    <3>1. t.value \in [Cells -> [Params -> [Scenes -> Values]]]
      BY <2>2 DEF Units
    <3> QED
      BY <2>1, <2>2, <2>3, <3>1, WalkedIs
  <2>6. Way(y, x, Written(y, cell, p, values[k]))
    <3>1. Tidy(y) /\ Settled(y)
      <4>1. t.blocks[cell] # None
        BY <2>2 DEF Kept
      <4>2. \A c \in Cells : c # cell => t.value[c] = t.value[c]
        OBVIOUS
      <4> QED
        BY <2>2, <2>5, <4>1, <4>2, RestsTidy
    <3>2. Kept(y, u) /\ y \in Units
      BY <2>2, <2>5 DEF Rests, Kept, Others
    <3> QED
      BY <2>1, <2>4, <3>1, <3>2
  <2>7. t.value = Valued(u.value, cell, p, values, k - 1)
    BY <2>2 DEF V
  <2>8. Way(t, QcSetScene(k - 1) \o <<AwaitScene(k - 1)>> \o x,
            Walked(u, Valued(u.value, cell, p, values, k), k - 1))
    BY <2>1, <2>2, <2>3, <2>4, <2>6, <2>7, RoundWay
  <2>9. g[k] = Walked(u, Valued(u.value, cell, p, values, k), k - 1)
    BY <1>7, <2>1 DEF V
  <2>10. f[k] = QcSetScene(k - 1) \o <<AwaitScene(k - 1)>> \o x
    BY <1>8, <2>4
  <2>11. f[k] \in Seq(Steps(tool))
    <3>1. QcSetScene(k - 1) \o <<AwaitScene(k - 1)>> \in Seq(Steps(tool))
      BY <2>1, <2>2, SceneWay
    <3> QED
      BY <2>4, <2>10, <3>1, Joined
  <2> QED
    BY <2>2, <2>8, <2>9, <2>10, <2>11
<1>12. f \in [1 .. n -> Seq(Steps(tool))] /\ g \in [0 .. n -> Units]
  BY <1>7, <1>8, <1>10, <1>11
<1>13. Way(g[0], FlattenSeq(f), g[n]) /\ FlattenSeq(f) \in Seq(Steps(tool))
  BY <1>11, <1>12, WayFlatten, AllJoined
<1>14. g[0] = u /\ n \in 0 .. n
  BY <1>7
<1>15. PICK t : t = g[n] /\ t \in Units /\ Tidy(t) /\ Settled(t) /\ Kept(t, u) /\ t.value = V(n)
  BY <1>10, <1>14
<1>16. /\ Way(t, QcSetScene(0) \o <<AwaitScene(0)>>, Walked(t, V(n), 0))
       /\ QcSetScene(0) \o <<AwaitScene(0)>> \in Seq(Steps(tool))
  BY <1>3, <1>15, SceneWay
<1>17. Walked(t, V(n), 0) = Walked(u, V(n), 0)
  <2>1. Rests(Walked(t, V(n), 0), t, V(n), 0) /\ Rests(Walked(u, V(n), 0), u, V(n), 0)
    BY <1>3, <1>4, <1>14, <1>15, WalkedIs
  <2>2. Rests(Walked(t, V(n), 0), u, V(n), 0)
    BY <1>15, <2>1 DEF Rests, Kept, Others
  <2> QED
    BY <2>1, <2>2, RestsSame
<1>18. Walk(values, write) = FlattenSeq(f) \o (QcSetScene(0) \o <<AwaitScene(0)>>)
  <2>1. PICK a : a = FlattenSeq(f) /\ a \in Seq(Steps(tool))
    BY <1>13
  <2>2. Walk(values, write) = (a \o QcSetScene(0)) \o <<AwaitScene(0)>>
    BY <1>1, <1>8, <2>1 DEF Walk
  <2>3. QcSetScene(0) \in Seq(Steps(tool)) /\ <<AwaitScene(0)>> \in Seq(Steps(tool))
    BY <1>3, StepsThere, SettingTyped, OneIsSeq
  <2>4. (a \o QcSetScene(0)) \o <<AwaitScene(0)>> = a \o (QcSetScene(0) \o <<AwaitScene(0)>>)
    BY <2>1, <2>3, ConcatAssociative
  <2> QED
    BY <2>1, <2>2, <2>4
<1>19. Way(u, FlattenSeq(f) \o (QcSetScene(0) \o <<AwaitScene(0)>>), Walked(u, V(n), 0))
  BY <1>13, <1>14, <1>15, <1>16, <1>17, WayJoin
<1> QED
  BY <1>1, <1>6, <1>18, <1>19 DEF V

\* Assigned to scenes first, a parameter gets one value in each of them.
LEMMA ScenedWay ==
  ASSUME NEW tool, NEW u \in Units, Tidy(u), Settled(u), NEW cell \in Cells, u.blocks[cell] # None,
         NEW p \in Params, NEW values \in PerScene(Values),
         NEW write \in [Values -> Seq(Steps(tool))],
         \A t \in Units, z \in Values : Tidy(t) /\ Settled(t) /\ t.blocks = u.blocks =>
           Way(t, write[z], Written(t, cell, p, z))
  PROVE  Way(u, QcAssignToScenes(cell, p) \o Walk(values, write), InScenes(u, cell, p, values))
<1>1. PICK c : c = [op |-> "assign", cell |-> cell, param |-> p] /\ c \in Commands
  <2>1. [op |-> "assign", cell |-> cell, param |-> p] \in Commands
    BY DEF Commands
  <2> QED
    BY <2>1
<1>2. PICK a : a = Apply(u, c) /\ a \in Units /\ Tidy(a) /\ Way(u, <<Sent(c)>>, a)
  BY <1>1, SentWay
<1>3. a = [u EXCEPT !.scened = @ \cup {<<cell, p>>}]
  BY <1>1, <1>2 DEF Apply, OnBlock
<1>4. /\ a.blocks = u.blocks /\ a.value = u.value /\ a.scened = u.scened \cup {<<cell, p>>}
      /\ a.expr = u.expr /\ a.route = u.route /\ a.split = u.split /\ a.scene = u.scene
      /\ a.next = u.next
  BY <1>3 DEF Units
<1>5. Others(a, u)
  BY <1>3 DEF Units, Others
<1>6. Settled(a) /\ a.blocks[cell] # None /\ <<cell, p>> \in a.scened
  BY <1>4 DEF Settled
<1>7. \A t \in Units, z \in Values : Tidy(t) /\ Settled(t) /\ Kept(t, a) =>
        Way(t, write[z], Written(t, cell, p, z))
  BY <1>4 DEF Kept
<1>8. PICK value : value = Valued(a.value, cell, p, values, Len(values))
  OBVIOUS
<1>9. Way(a, Walk(values, write), Walked(a, value, 0)) /\ Walk(values, write) \in Seq(Steps(tool))
  BY <1>2, <1>6, <1>7, <1>8, WalkWay
<1>10. Walked(a, value, 0) = InScenes(u, cell, p, values)
  <2>1. PICK v : v = InScenes(u, cell, p, values)
    OBVIOUS
  <2>2. PICK row : row = [s \in Scenes |-> IF s < Len(values) THEN values[s + 1]
                                           ELSE u.value[cell][p][s]]
    OBVIOUS
  <2>3. value = [u.value EXCEPT ![cell][p] = row]
    BY <1>4, <1>8, <2>2 DEF Valued
  <2>4. v = [u EXCEPT !.scened = @ \cup {<<cell, p>>}, !.value[cell][p] = row, !.scene = 0, !.next = 0]
    BY <2>1, <2>2 DEF InScenes, Units
  <2>5. v = [u EXCEPT !.scened = a.scened, !.value = value, !.scene = 0, !.next = 0]
    BY <1>4, <2>3, <2>4 DEF Units
  <2>6. Walked(a, value, 0) = [a EXCEPT !.value = value, !.scene = 0, !.next = 0]
    BY DEF Walked
  <2>7. [a EXCEPT !.value = value, !.scene = 0, !.next = 0]
          = [u EXCEPT !.scened = a.scened, !.value = value, !.scene = 0, !.next = 0]
    BY <1>3, <1>4 DEF Units
  <2> QED
    BY <2>1, <2>5, <2>6, <2>7
<1>11. <<Sent(c)>> \in Seq(Steps(tool)) /\ QcAssignToScenes(cell, p) = <<Sent(c)>>
  <2>1. Sent(c) \in Steps(tool)
    BY <1>1, StepsThere
  <2> QED
    BY <1>1, <2>1, OneIsSeq DEF QcAssignToScenes
<1>12. Way(u, <<Sent(c)>> \o Walk(values, write), Walked(a, value, 0))
  BY <1>2, <1>9, <1>11, WayJoin
<1> QED
  BY <1>10, <1>11, <1>12

\* A parameter is written plainly.
LEMMA ParamWay ==
  ASSUME NEW u \in Units, Tidy(u), Settled(u), NEW cell \in Cells, u.blocks[cell] # None,
         NEW p \in Params, NEW z \in Values
  PROVE  Way(u, QcSetParam(cell, p, z), Written(u, cell, p, z))
<1>1. PICK c : c = [op |-> "param", cell |-> cell, param |-> p, value |-> z] /\ c \in Commands
  <2>1. [op |-> "param", cell |-> cell, param |-> p, value |-> z] \in Commands
    BY DEF Commands
  <2> QED
    BY <2>1
<1>2. Way(u, <<Sent(c)>>, Apply(u, c))
  BY <1>1, SentWay
<1>3. Apply(u, c) = Written(u, cell, p, z)
  BY <1>1 DEF Apply, OnBlock
<1>4. QcSetParam(cell, p, z) = <<Sent(c)>>
  BY <1>1 DEF QcSetParam
<1> QED
  BY <1>2, <1>3, <1>4

\* The bypass is one past the last parameter of the block that is there.
LEMMA BypassWay ==
  ASSUME NEW u \in Units, Tidy(u), Settled(u), NEW cell \in Cells, u.blocks[cell] # None,
         NEW z \in Values
  PROVE  Way(u, QcWriteBypass(cell, z), Written(u, cell, ParamCount[u.blocks[cell]], z))
<1>1. PICK c : c = [op |-> "bypass", cell |-> cell, value |-> z] /\ c \in Commands
  <2>1. [op |-> "bypass", cell |-> cell, value |-> z] \in Commands
    BY DEF Commands
  <2> QED
    BY <2>1
<1>2. Way(u, <<Sent(c)>>, Apply(u, c))
  BY <1>1, SentWay
<1>3. Apply(u, c) = Written(u, cell, ParamCount[u.blocks[cell]], z)
  BY <1>1 DEF Apply
<1>4. QcWriteBypass(cell, z) = <<Sent(c)>>
  BY <1>1 DEF QcWriteBypass
<1> QED
  BY <1>2, <1>3, <1>4

-----------------------------------------------------------------------------
(* What each tool comes to *)

\* set_parameter_scenes() puts each value into its own scene.
LEMMA ScenesWay ==
  ASSUME NEW c \in Calls, NEW u \in Units, Tidy(u), Settled(u), Promises(c, u),
         c.tool = "set_parameter_scenes"
  PROVE  Way(u, Script(c), Promised(c, u))
<1>1. c.cell \in Cells /\ c.param \in Params /\ c.values \in PerScene(Values)
  BY DEF Calls
<1>2. u.blocks[c.cell] # None
  BY DEF Promises
<1>3. PICK write : write = [v \in Values |-> QcSetParam(c.cell, c.param, v)]
  OBVIOUS
<1>4. write \in [Values -> Seq(Steps(c.tool))]
  <2>1. \A x \in Commands : Sent(x) \in Steps(c.tool)
    BY StepsThere
  <2>2. \A v \in Values : QcSetParam(c.cell, c.param, v) \in Seq(Steps(c.tool))
    BY <1>1, <2>1, EditTyped
  <2> QED
    BY <1>3, <2>2
<1>5. ASSUME NEW t \in Units, NEW z \in Values, Tidy(t), Settled(t), t.blocks = u.blocks
      PROVE  Way(t, write[z], Written(t, c.cell, c.param, z))
  <2>1. write[z] = QcSetParam(c.cell, c.param, z) /\ t.blocks[c.cell] # None
    BY <1>2, <1>3, <1>5
  <2> QED
    BY <1>1, <1>5, <2>1, ParamWay
<1>6. Way(u, QcAssignToScenes(c.cell, c.param) \o Walk(c.values, write),
          InScenes(u, c.cell, c.param, c.values))
  BY <1>1, <1>2, <1>4, <1>5, ScenedWay
<1>7. Script(c) = QcAssignToScenes(c.cell, c.param) \o Walk(c.values, write)
  BY <1>3 DEF Script, SetParameterScenes, QcSetParamScenes
<1>8. Promised(c, u) = InScenes(u, c.cell, c.param, c.values)
  BY DEF Promised
<1> QED
  BY <1>6, <1>7, <1>8

\* The block a read of the preset names is the one of the unit.
LEMMA BlockIs ==
  ASSUME NEW c, NEW u \in Units
  PROVE  Told(u, "preset") # None /\ Block(c, Told(u, "preset")) = u.blocks[c.cell]
<1>1. PICK x : x = Told(u, "preset") /\ x = [blocks |-> u.blocks]
  BY DEF Told
<1>2. x \in [blocks : Blocks]
  BY <1>1 DEF Units
<1>3. x # None
  BY <1>2, PresetToolsAssumption
<1>4. x.blocks = u.blocks
  BY <1>1
<1> QED
  BY <1>1, <1>3, <1>4 DEF Block

\* set_block_bypass() writes the bypass of the block it found, scene by scene.
LEMMA BypassDecided ==
  ASSUME NEW w, NEW c \in Calls, c = call[w], NEW u \in Units, Tidy(u), Settled(u), Promises(c, u),
         c.tool = "set_block_bypass", NEW rest
  PROVE  Way(u, AfterRead(w, "bypass", Told(u, "preset"), rest), Promised(c, u))
<1>1. c.cell \in Cells /\ c.scenes \in PerScene(Values)
  BY DEF Calls
<1>2. PICK x : x = Told(u, "preset") /\ Block(c, x) = u.blocks[c.cell]
  BY BlockIs
<1>3. CASE u.blocks[c.cell] = None
  <2>1. AfterRead(w, "bypass", x, rest) = <<>>
    BY <1>2, <1>3 DEF AfterRead
  <2>2. Promised(c, u) = u
    BY <1>3 DEF Promised
  <2> QED
    BY <1>2, <2>1, <2>2, WayNothing
<1>4. CASE u.blocks[c.cell] # None
  <2>1. PICK p : p = ParamCount[u.blocks[c.cell]] /\ p \in Params
    <3>1. u.blocks[c.cell] \in Devices
      BY <1>1, <1>4 DEF Units, Blocks
    <3> QED
      BY <3>1, UnitAssumption DEF UnitAssumption, Params
  <2>2. PICK write : write = [v \in Values |-> QcWriteBypass(c.cell, v)]
    OBVIOUS
  <2>3. write \in [Values -> Seq(Steps(c.tool))]
    <3>1. \A y \in Commands : Sent(y) \in Steps(c.tool)
      BY StepsThere
    <3>2. \A v \in Values : QcWriteBypass(c.cell, v) \in Seq(Steps(c.tool))
      BY <1>1, <3>1, EditTyped
    <3> QED
      BY <2>2, <3>2
  <2>4. ASSUME NEW t \in Units, NEW z \in Values, Tidy(t), Settled(t), t.blocks = u.blocks
        PROVE  Way(t, write[z], Written(t, c.cell, p, z))
    <3>1. write[z] = QcWriteBypass(c.cell, z) /\ t.blocks[c.cell] # None
          /\ p = ParamCount[t.blocks[c.cell]]
      BY <1>4, <2>1, <2>2, <2>4
    <3> QED
      BY <1>1, <2>4, <3>1, BypassWay
  <2>5. Way(u, QcAssignToScenes(c.cell, p) \o Walk(c.scenes, write), InScenes(u, c.cell, p, c.scenes))
    BY <1>1, <1>4, <2>1, <2>3, <2>4, ScenedWay, SMTT(60)
  <2>6. AfterRead(w, "bypass", x, rest) = QcAssignToScenes(c.cell, p) \o Walk(c.scenes, write)
    BY <1>2, <1>4, <2>1, <2>2 DEF AfterRead
  <2>7. Promised(c, u) = InScenes(u, c.cell, p, c.scenes)
    BY <1>4, <2>1 DEF Promised
  <2> QED
    BY <1>2, <2>5, <2>6, <2>7
<1> QED
  BY <1>3, <1>4

\* assign_stomp() binds the switch, and then says whether it is momentary.
LEMMA StompDecided ==
  ASSUME NEW w, NEW c \in Calls, c = call[w], NEW u \in Units, Tidy(u), Settled(u),
         c.tool = "assign_stomp", NEW rest
  PROVE  Way(u, AfterRead(w, "stomp", Told(u, "preset"), rest), Promised(c, u))
<1>1. c.cell \in Cells /\ c.switch \in Switches /\ c.kind \in Kinds /\ c.momentary \in BOOLEAN
  BY DEF Calls
<1>2. PICK x : x = Told(u, "preset") /\ Block(c, x) = u.blocks[c.cell]
  BY BlockIs
<1>3. CASE u.blocks[c.cell] = None
  <2>1. AfterRead(w, "stomp", x, rest) = <<>>
    BY <1>2, <1>3 DEF AfterRead
  <2>2. Promised(c, u) = u
    BY <1>3 DEF Promised
  <2> QED
    BY <1>2, <2>1, <2>2, WayNothing
<1>4. CASE u.blocks[c.cell] # None
  <2>1. PICK a : a = [op |-> "stomp", cell |-> c.cell, switch |-> c.switch, kind |-> c.kind]
                 /\ a \in Commands
    <3>1. [op |-> "stomp", cell |-> c.cell, switch |-> c.switch, kind |-> c.kind] \in Commands
      BY <1>1 DEF Commands
    <3> QED
      BY <3>1
  <2>2. PICK b : b = [op |-> "momentary", switch |-> c.switch, on |-> c.momentary] /\ b \in Commands
    <3>1. [op |-> "momentary", switch |-> c.switch, on |-> c.momentary] \in Commands
      BY <1>1 DEF Commands
    <3> QED
      BY <3>1
  <2>3. PICK y : y = Apply(u, a) /\ y \in Units /\ Tidy(y) /\ Way(u, <<Sent(a)>>, y)
    BY <2>1, SentWay
  <2>4. y = Bound(u, c)
    <3>1. y = Bound(u, a)
      BY <2>1, <2>3 DEF Apply
    <3>2. a.switch = c.switch /\ a.cell = c.cell /\ a.kind = c.kind
      BY <2>1
    <3> QED
      BY <3>1, <3>2 DEF Bound
  <2>5. Settled(y)
    BY <2>4 DEF Bound, Units, Settled
  <2>6. PICK z : z = Apply(y, b) /\ z \in Units /\ Way(y, <<Sent(b)>>, z)
    BY <2>2, <2>3, <2>5, SentWay
  <2>7. z = Promised(c, u)
    <3>1. Promised(c, u) = [y EXCEPT !.momentary = IF c.momentary THEN @ \cup {c.switch}
                                                   ELSE @ \ {c.switch}]
      BY <1>4, <2>4 DEF Promised
    <3>2. z = [y EXCEPT !.momentary = IF b.on THEN @ \cup {b.switch} ELSE @ \ {b.switch}]
      BY <2>2, <2>6 DEF Apply
    <3>3. b.on = c.momentary /\ b.switch = c.switch
      BY <2>2
    <3> QED
      BY <3>1, <3>2, <3>3
  <2>8. PICK s : s = Sent(a) /\ s \in Steps(c.tool)
    BY <2>1, StepsThere
  <2>9. PICK t : t = Sent(b) /\ t \in Steps(c.tool)
    BY <2>2, StepsThere
  <2>10. PICK r : r = Read("preset", "show") /\ r \in Steps(c.tool)
    BY ReadsThere DEF Topics
  <2>11. <<s>> \in Seq(Steps(c.tool)) /\ <<t>> \in Seq(Steps(c.tool)) /\ <<r>> \in Seq(Steps(c.tool))
    BY <2>8, <2>9, <2>10, OneIsSeq
  <2>12. Way(z, <<r>>, z)
    <3>1. "preset" \in Topics /\ "show" \in Passive
      BY DEF Topics, Passive
    <3> QED
      BY <2>6, <2>10, <3>1, ReadWay
  <2>13. Way(u, (<<s>> \o <<t>>) \o <<r>>, z)
    <3>1. Way(u, <<s>> \o <<t>>, z) /\ <<s>> \o <<t>> \in Seq(Steps(c.tool))
      BY <2>3, <2>6, <2>8, <2>9, <2>11, WayJoin, Joined
    <3> QED
      BY <2>11, <2>12, <3>1, WayJoin
  <2>14. AfterRead(w, "stomp", x, rest) = <<s, t>> \o <<r>>
    BY <1>2, <1>4, <2>1, <2>2, <2>8, <2>9, <2>10 DEF AfterRead, QcAssignStomp
  <2>15. <<s, t>> = <<s>> \o <<t>>
    OBVIOUS
  <2> QED
    BY <1>2, <2>7, <2>13, <2>14, <2>15
<1> QED
  BY <1>3, <1>4

\* save_device_preset() has the settings saved of the block it was asked for.
LEMMA SaveDecided ==
  ASSUME NEW w, NEW c \in Calls, c = call[w], NEW u \in Units, Tidy(u), Settled(u),
         c.tool = "save_device_preset", NEW rest
  PROVE  Way(u, AfterRead(w, "save", Told(u, "preset"), rest), Promised(c, u))
<1>1. c.cell \in Cells /\ c.name \in Names
  BY DEF Calls
<1>2. PICK x : x = Told(u, "preset") /\ Block(c, x) = u.blocks[c.cell]
  BY BlockIs
<1>3. CASE u.blocks[c.cell] = None
  <2>1. AfterRead(w, "save", x, rest) = <<>>
    BY <1>2, <1>3 DEF AfterRead
  <2>2. Promised(c, u) = u
    BY <1>3 DEF Promised
  <2> QED
    BY <1>2, <2>1, <2>2, WayNothing
<1>4. CASE u.blocks[c.cell] # None
  <2>1. PICK a : a = [op |-> "select", cell |-> c.cell] /\ a \in Commands
    <3>1. [op |-> "select", cell |-> c.cell] \in Commands
      BY <1>1 DEF Commands
    <3> QED
      BY <3>1
  <2>2. PICK b : b = [op |-> "create", name |-> c.name] /\ b \in Commands
    <3>1. [op |-> "create", name |-> c.name] \in Commands
      BY <1>1 DEF Commands
    <3> QED
      BY <3>1
  <2>3. "presets" \in Topics /\ "go on" \in Passive
    BY DEF Topics, Passive
  <2>4. PICK y : y = Apply(u, a) /\ y \in Units /\ Tidy(y) /\ Way(u, <<Request(a, "presets")>>, y)
    BY <2>1, <2>3, RequestWay
  <2>5. y = [u EXCEPT !.slot = c.cell]
    BY <2>1, <2>4 DEF Apply
  <2>6. Settled(y)
    BY <2>5 DEF Units, Settled
  <2>7. PICK z : z = Apply(y, b) /\ z \in Units /\ Way(y, <<Request(b, "presets")>>, z)
    BY <2>2, <2>3, <2>4, <2>6, RequestWay
  <2>8. z = Promised(c, u)
    <3>1. z = Created(y, b)
      BY <2>2, <2>7 DEF Apply
    <3>2. b.name = c.name
      BY <2>2
    <3>3. Promised(c, u) = Created(y, c)
      BY <1>4, <2>5 DEF Promised
    <3> QED
      BY <3>1, <3>2, <3>3 DEF Created
  <2>9. PICK r : r = Read("presets", "go on") /\ r \in Steps(c.tool)
    BY <2>3, ReadsThere
  <2>10. PICK s : s = Request(a, "presets") /\ s \in Steps(c.tool)
    BY <2>1, <2>3, StepsThere
  <2>11. PICK t : t = Request(b, "presets") /\ t \in Steps(c.tool)
    BY <2>2, <2>3, StepsThere
  <2>12. <<s>> \in Seq(Steps(c.tool)) /\ <<t>> \in Seq(Steps(c.tool)) /\ <<r>> \in Seq(Steps(c.tool))
    BY <2>9, <2>10, <2>11, OneIsSeq
  <2>13. Way(u, <<r>>, u)
    BY <2>3, <2>9, ReadWay
  <2>14. Way(u, <<r>> \o (<<s>> \o <<t>>), z)
    <3>1. Way(u, <<s>> \o <<t>>, z) /\ <<s>> \o <<t>> \in Seq(Steps(c.tool))
      BY <2>4, <2>7, <2>10, <2>11, <2>12, WayJoin, Joined
    <3> QED
      BY <2>12, <2>13, <3>1, WayJoin
  <2>15. AfterRead(w, "save", x, rest) = <<r>> \o (<<s>> \o <<t>>)
    BY <1>2, <1>4, <2>1, <2>2, <2>9, <2>10, <2>11
       DEF AfterRead, QcModelPresets, QcSaveModel, QcSelectSlot
  <2> QED
    BY <1>2, <2>8, <2>14, <2>15
<1> QED
  BY <1>3, <1>4

\* switch_mode() sends a mode of the cycle, and no other; any if the cycle is empty.
LEMMA ModeDecided ==
  ASSUME NEW w, NEW c \in Calls, c = call[w], NEW u \in Units, Tidy(u), Settled(u),
         c.tool = "switch_mode", NEW rest
  PROVE  Way(u, AfterRead(w, "mode", Told(u, "mode"), rest), Promised(c, u))
<1>1. c.mode \in Modes
  BY DEF Calls
<1>2. PICK x : x = Told(u, "mode") /\ x = u.cycle
  BY DEF Told
<1>3. x # None
  <2>1. x \in SUBSET Modes
    BY <1>2 DEF Units
  <2> QED
    BY <2>1, PresetToolsAssumption
<1>4. CASE c.mode \notin x /\ x # {}
  <2>1. AfterRead(w, "mode", x, rest) = <<>>
    BY <1>3, <1>4 DEF AfterRead
  <2>2. Promised(c, u) = u
    BY <1>2, <1>4 DEF Promised
  <2> QED
    BY <1>2, <2>1, <2>2, WayNothing
<1>5. CASE c.mode \in x \/ x = {}
  <2>1. PICK a : a = [op |-> "mode", mode |-> c.mode] /\ a \in Commands
    <3>1. [op |-> "mode", mode |-> c.mode] \in Commands
      BY <1>1 DEF Commands
    <3> QED
      BY <3>1
  <2>2. Way(u, <<Sent(a)>>, Apply(u, a))
    BY <2>1, SentWay
  <2>3. Apply(u, a) = Promised(c, u)
    <3>1. Promised(c, u) = [u EXCEPT !.mode = c.mode]
      BY <1>2, <1>5 DEF Promised
    <3>2. Apply(u, a) = [u EXCEPT !.mode = a.mode] /\ a.mode = c.mode
      BY <2>1 DEF Apply
    <3> QED
      BY <3>1, <3>2
  <2>4. AfterRead(w, "mode", x, rest) = <<Sent(a)>>
    BY <1>5, <2>1 DEF AfterRead, QcSetMode
  <2> QED
    BY <1>2, <2>2, <2>3, <2>4
<1> QED
  BY <1>4, <1>5

-----------------------------------------------------------------------------
(* The messages that change a grid *)

\* One grid after another is the other.
LEMMA PutTwice ==
  ASSUME NEW u \in Units, NEW b1, NEW v1, NEW s1, NEW e1, NEW r1, NEW p1,
         NEW b, NEW v, NEW s, NEW e, NEW r, NEW p
  PROVE  Put(Put(u, b1, v1, s1, e1, r1, p1), b, v, s, e, r, p) = Put(u, b, v, s, e, r, p)
  BY DEF Put, Units

\* The grid of a unit.
LEMMA PutSame ==
  ASSUME NEW u \in Units
  PROVE  Put(u, u.blocks, u.value, u.scened, u.expr, u.route, u.split) = u
  BY DEF Put, Units

\* The pairs of cells that are not in K.
Elsewhere(pairs, K) == {x \in pairs : x[1] \notin K}

\* A new block at a cell, or none.
LEMMA ClearedIs ==
  ASSUME NEW u \in Units, NEW cell \in Cells, NEW d
  PROVE  Cleared(u, cell, d) =
           Put(u, [u.blocks EXCEPT ![cell] = d], [u.value EXCEPT ![cell] = Fresh],
               Elsewhere(u.scened, {cell}), Elsewhere(u.expr, {cell}), u.route, u.split)
<1>1. \A pairs : Elsewhere(pairs, {cell}) = {x \in pairs : x[1] # cell}
  BY DEF Elsewhere
<1>2. PICK s : s = Elsewhere(u.scened, {cell})
  OBVIOUS
<1>3. PICK e : e = Elsewhere(u.expr, {cell})
  OBVIOUS
<1>4. Cleared(u, cell, d) = [u EXCEPT !.blocks[cell] = d, !.value[cell] = Fresh, !.scened = s, !.expr = e]
  BY <1>1, <1>2, <1>3 DEF Cleared, Units
<1>5. Put(u, [u.blocks EXCEPT ![cell] = d], [u.value EXCEPT ![cell] = Fresh], s, e, u.route, u.split)
        = [u EXCEPT !.blocks[cell] = d, !.value[cell] = Fresh, !.scened = s, !.expr = e]
  BY DEF Put, Units
<1> QED
  BY <1>2, <1>3, <1>4, <1>5

\* A block is deleted.
LEMMA DeleteWay ==
  ASSUME NEW u \in Units, Tidy(u), Settled(u), NEW cell \in Cells
  PROVE  Way(u, QcDeleteBlock(cell), Cleared(u, cell, None)) /\ Tidy(Cleared(u, cell, None))
<1>1. PICK c : c = [op |-> "delete", cell |-> cell] /\ c \in Commands
  <2>1. [op |-> "delete", cell |-> cell] \in Commands
    BY DEF Commands
  <2> QED
    BY <2>1
<1>2. Way(u, <<Sent(c)>>, Apply(u, c)) /\ Tidy(Apply(u, c))
  BY <1>1, SentWay
<1>3. Apply(u, c) = Cleared(u, cell, None)
  BY <1>1 DEF Apply
<1>4. QcDeleteBlock(cell) = <<Sent(c)>>
  BY <1>1 DEF QcDeleteBlock
<1> QED
  BY <1>2, <1>3, <1>4

\* A block is added.
LEMMA AddWay ==
  ASSUME NEW u \in Units, Tidy(u), Settled(u), NEW cell \in Cells, NEW d \in Devices
  PROVE  Way(u, QcAddBlock(cell, d), Cleared(u, cell, d)) /\ Tidy(Cleared(u, cell, d))
<1>1. PICK c : c = [op |-> "block", cell |-> cell, device |-> d] /\ c \in Commands
  <2>1. [op |-> "block", cell |-> cell, device |-> d] \in Commands
    BY DEF Commands
  <2> QED
    BY <2>1
<1>2. Way(u, <<Sent(c)>>, Apply(u, c)) /\ Tidy(Apply(u, c))
  BY <1>1, SentWay
<1>3. Apply(u, c) = Cleared(u, cell, d)
  BY <1>1 DEF Apply
<1>4. QcAddBlock(cell, d) = <<Sent(c)>>
  BY <1>1 DEF QcAddBlock
<1> QED
  BY <1>2, <1>3, <1>4

\* A row is split, or joined again.
LEMMA SplitWay ==
  ASSUME NEW u \in Units, Tidy(u), Settled(u), NEW r \in Rows, NEW p \in Points \cup {None}, NEW v,
         v = Put(u, u.blocks, u.value, u.scened, u.expr, u.route, [u.split EXCEPT ![r] = p])
  PROVE  Way(u, QcSetSplit(r, p), v) /\ Tidy(v)
<1>1. PICK c : c = [op |-> "split", row |-> r, points |-> p] /\ c \in Commands
  <2>1. [op |-> "split", row |-> r, points |-> p] \in Commands
    BY DEF Commands
  <2> QED
    BY <2>1
<1>2. Way(u, <<Sent(c)>>, Apply(u, c)) /\ Tidy(Apply(u, c))
  BY <1>1, SentWay
<1>3. Apply(u, c) = v
  <2>1. Apply(u, c) = [u EXCEPT !.split[r] = p]
    BY <1>1 DEF Apply
  <2> QED
    BY <2>1 DEF Put, Units
<1>4. QcSetSplit(r, p) = <<Sent(c)>>
  BY <1>1 DEF QcSetSplit
<1> QED
  BY <1>2, <1>3, <1>4

\* What a row's routing becomes: what is not said stays.
Routed(port, in, out) ==
  [in |-> IF in = None THEN port.in ELSE in, out |-> IF out = None THEN port.out ELSE out]

\* A row is routed.
LEMMA RouteWay ==
  ASSUME NEW u \in Units, Tidy(u), Settled(u), NEW r \in Rows,
         NEW in \in Nat \cup {None}, NEW out \in Nat \cup {None}, NEW v,
         v = Put(u, u.blocks, u.value, u.scened, u.expr,
                 [u.route EXCEPT ![r] = Routed(u.route[r], in, out)], u.split)
  PROVE  Way(u, QcSetRouting(r, in, out), v) /\ Tidy(v)
<1>1. PICK c : c = [op |-> "route", row |-> r, in |-> in, out |-> out] /\ c \in Commands
  <2>1. [op |-> "route", row |-> r, in |-> in, out |-> out] \in Commands
    BY DEF Commands
  <2> QED
    BY <2>1
<1>2. Way(u, <<Sent(c)>>, Apply(u, c)) /\ Tidy(Apply(u, c))
  BY <1>1, SentWay
<1>3. Apply(u, c) = v
  <2>1. PICK port : port = Routed(u.route[r], in, out)
    OBVIOUS
  <2>2. Apply(u, c) = [u EXCEPT !.route[r] = port]
    <3>1. /\ c.op = "route" /\ c.row = r /\ c.in = in /\ c.out = out
      BY <1>1
    <3>2. Apply(u, c) = [u EXCEPT !.route[r] = [in |-> IF in = None THEN @.in ELSE in,
                                               out |-> IF out = None THEN @.out ELSE out]]
      BY <3>1 DEF Apply
    <3> QED
      BY <2>1, <3>2 DEF Routed, Units
  <2> QED
    BY <2>1, <2>2 DEF Put, Units
<1>4. QcSetRouting(r, in, out) = <<Sent(c)>>
  BY <1>1 DEF QcSetRouting
<1> QED
  BY <1>2, <1>3, <1>4

-----------------------------------------------------------------------------
(* An empty grid *)

\* What is left once the cells of K are cleared and the rows of R are joined.
Cleaned(blocks, K) == [c \in Cells |-> IF c \in K THEN None ELSE blocks[c]]
Freshened(value, K) == [c \in Cells |-> IF c \in K THEN Fresh ELSE value[c]]
Unsplit(split, R) == [r \in Rows |-> IF r \in R THEN None ELSE split[r]]
Swept(u, K, R) ==
  Put(u, Cleaned(u.blocks, K), Freshened(u.value, K), Elsewhere(u.scened, K), Elsewhere(u.expr, K),
      u.route, Unsplit(u.split, R))

\* It is a unit at rest, and tidy.
LEMMA SweptIs ==
  ASSUME NEW u \in Units, Tidy(u), Settled(u), NEW K \in SUBSET Cells, NEW R \in SUBSET Rows
  PROVE  /\ Holds(Swept(u, K, R), u, Cleaned(u.blocks, K), Freshened(u.value, K),
                  Elsewhere(u.scened, K), Elsewhere(u.expr, K), u.route, Unsplit(u.split, R))
         /\ Tidy(Swept(u, K, R)) /\ Settled(Swept(u, K, R)) /\ Swept(u, K, R) \in Units
<1>1. PICK B : B = Cleaned(u.blocks, K) /\ B \in Blocks /\ \A c \in Cells : B[c] = IF c \in K THEN None ELSE u.blocks[c]
  <2>1. Cleaned(u.blocks, K) \in Blocks
    BY DEF Cleaned, Units, Blocks
  <2> QED
    BY <2>1 DEF Cleaned
<1>2. PICK V : /\ V = Freshened(u.value, K) /\ V \in [Cells -> [Params -> [Scenes -> Values]]]
               /\ \A c \in Cells : V[c] = IF c \in K THEN Fresh ELSE u.value[c]
  <2>1. u.value \in [Cells -> [Params -> [Scenes -> Values]]]
    BY DEF Units
  <2>2. Freshened(u.value, K) \in [Cells -> [Params -> [Scenes -> Values]]]
    BY <2>1, FreshTyped DEF Freshened
  <2>3. \A c \in Cells : Freshened(u.value, K)[c] = IF c \in K THEN Fresh ELSE u.value[c]
    BY DEF Freshened
  <2> QED
    BY <2>2, <2>3
<1>3. PICK S : S = Elsewhere(u.scened, K) /\ S \in SUBSET (Cells \X Params)
               /\ S \subseteq u.scened /\ \A x \in S : x[1] \notin K
  <2>1. Elsewhere(u.scened, K) \subseteq u.scened /\ \A x \in Elsewhere(u.scened, K) : x[1] \notin K
    BY DEF Elsewhere
  <2>2. u.scened \in SUBSET (Cells \X Params)
    BY DEF Units
  <2> QED
    BY <2>1, <2>2
<1>4. PICK E : E = Elsewhere(u.expr, K) /\ E \in SUBSET (Cells \X Params)
               /\ E \subseteq u.expr /\ \A x \in E : x[1] \notin K
  <2>1. Elsewhere(u.expr, K) \subseteq u.expr /\ \A x \in Elsewhere(u.expr, K) : x[1] \notin K
    BY DEF Elsewhere
  <2>2. u.expr \in SUBSET (Cells \X Params)
    BY DEF Units
  <2> QED
    BY <2>1, <2>2
<1>5. PICK P : P = Unsplit(u.split, R) /\ P \in [Rows -> Points \cup {None}]
  <2>1. u.split \in [Rows -> Points \cup {None}]
    BY DEF Units
  <2>2. Unsplit(u.split, R) \in [Rows -> Points \cup {None}]
    BY <2>1 DEF Unsplit
  <2> QED
    BY <2>2
<1>6. u.route \in [Rows -> Ports]
  BY DEF Units
<1>7. PICK t : t = Put(u, B, V, S, E, u.route, P)
  OBVIOUS
<1>8. Holds(t, u, B, V, S, E, u.route, P)
  BY <1>1, <1>2, <1>3, <1>4, <1>5, <1>6, <1>7, PutIs
<1>9. /\ t.blocks = B /\ t.value = V /\ t.scened = S /\ t.expr = E
      /\ t.scene = u.scene /\ t.next = u.next /\ t \in Units
  BY <1>8 DEF Holds
<1>10. ASSUME NEW c \in Cells, t.blocks[c] = None
       PROVE  t.value[c] = Fresh /\ \A x \in t.scened \cup t.expr : x[1] # c
  <2>1. CASE c \in K
    BY <1>2, <1>3, <1>4, <1>9, <2>1
  <2>2. CASE c \notin K
    <3>1. u.blocks[c] = None
      BY <1>1, <1>9, <1>10, <2>2
    <3>2. u.value[c] = Fresh /\ \A x \in u.scened \cup u.expr : x[1] # c
      BY <3>1 DEF Tidy
    <3> QED
      BY <1>2, <1>3, <1>4, <1>9, <2>2, <3>2
  <2> QED
    BY <2>1, <2>2
<1>11. Tidy(t) /\ Settled(t)
  BY <1>9, <1>10 DEF Tidy, Settled
<1>12. t = Swept(u, K, R)
  BY <1>1, <1>2, <1>3, <1>4, <1>5, <1>7 DEF Swept
<1> QED
  BY <1>1, <1>2, <1>3, <1>4, <1>5, <1>8, <1>9, <1>11, <1>12

\* Nothing is swept at first.
LEMMA SweptNothing ==
  ASSUME NEW u \in Units
  PROVE  Swept(u, {}, {}) = u
<1>1. Cleaned(u.blocks, {}) = u.blocks
  BY DEF Cleaned, Units, Blocks
<1>2. Freshened(u.value, {}) = u.value
  BY DEF Freshened, Units
<1>3. Elsewhere(u.scened, {}) = u.scened /\ Elsewhere(u.expr, {}) = u.expr
  BY DEF Elsewhere
<1>4. Unsplit(u.split, {}) = u.split
  BY DEF Unsplit, Units
<1> QED
  BY <1>1, <1>2, <1>3, <1>4, PutSame DEF Swept

\* One more cell, if there is a block.
LEMMA SweptCell ==
  ASSUME NEW u \in Units, Tidy(u), Settled(u), NEW K \in SUBSET Cells, NEW R \in SUBSET Rows,
         NEW cell \in Cells
  PROVE  Way(Swept(u, K, R), IF u.blocks[cell] = None THEN <<>> ELSE QcDeleteBlock(cell),
             Swept(u, K \cup {cell}, R))
<1>1. PICK t : t = Swept(u, K, R)
  OBVIOUS
<1>2. /\ Holds(t, u, Cleaned(u.blocks, K), Freshened(u.value, K),
               Elsewhere(u.scened, K), Elsewhere(u.expr, K), u.route, Unsplit(u.split, R))
      /\ Tidy(t) /\ Settled(t) /\ t \in Units
  BY <1>1, SweptIs
<1>3. CASE u.blocks[cell] = None
  <2>1. u.value[cell] = Fresh /\ \A x \in u.scened \cup u.expr : x[1] # cell
    BY <1>3 DEF Tidy
  <2>2. Cleaned(u.blocks, K \cup {cell}) = Cleaned(u.blocks, K)
    BY <1>3 DEF Cleaned
  <2>3. Freshened(u.value, K \cup {cell}) = Freshened(u.value, K)
    BY <2>1 DEF Freshened
  <2>4. /\ Elsewhere(u.scened, K \cup {cell}) = Elsewhere(u.scened, K)
        /\ Elsewhere(u.expr, K \cup {cell}) = Elsewhere(u.expr, K)
    BY <2>1 DEF Elsewhere
  <2>5. Swept(u, K \cup {cell}, R) = t
    BY <1>1, <2>2, <2>3, <2>4 DEF Swept
  <2> QED
    BY <1>1, <1>2, <1>3, <2>5, WayNothing
<1>4. CASE u.blocks[cell] # None
  <2>1. Way(t, QcDeleteBlock(cell), Cleared(t, cell, None))
    BY <1>2, DeleteWay
  <2>2. Cleared(t, cell, None) =
          Put(t, [t.blocks EXCEPT ![cell] = None], [t.value EXCEPT ![cell] = Fresh],
              Elsewhere(t.scened, {cell}), Elsewhere(t.expr, {cell}), t.route, t.split)
    BY <1>2, ClearedIs
  <2>3. /\ t.blocks = Cleaned(u.blocks, K) /\ t.value = Freshened(u.value, K)
        /\ t.scened = Elsewhere(u.scened, K) /\ t.expr = Elsewhere(u.expr, K)
        /\ t.route = u.route /\ t.split = Unsplit(u.split, R)
    BY <1>2 DEF Holds
  <2>4. [t.blocks EXCEPT ![cell] = None] = Cleaned(u.blocks, K \cup {cell})
    BY <2>3 DEF Cleaned
  <2>5. [t.value EXCEPT ![cell] = Fresh] = Freshened(u.value, K \cup {cell})
    BY <2>3 DEF Freshened
  <2>6. /\ Elsewhere(t.scened, {cell}) = Elsewhere(u.scened, K \cup {cell})
        /\ Elsewhere(t.expr, {cell}) = Elsewhere(u.expr, K \cup {cell})
    BY <2>3 DEF Elsewhere
  <2>7. Cleared(t, cell, None) =
          Put(t, Cleaned(u.blocks, K \cup {cell}), Freshened(u.value, K \cup {cell}),
              Elsewhere(u.scened, K \cup {cell}), Elsewhere(u.expr, K \cup {cell}),
              u.route, Unsplit(u.split, R))
    BY <2>2, <2>3, <2>4, <2>5, <2>6
  <2>8. Cleared(t, cell, None) = Swept(u, K \cup {cell}, R)
    BY <1>1, <2>7, PutTwice DEF Swept
  <2> QED
    BY <1>1, <1>4, <2>1, <2>8
<1> QED
  BY <1>3, <1>4

\* One more row.
LEMMA SweptRow ==
  ASSUME NEW u \in Units, Tidy(u), Settled(u), NEW K \in SUBSET Cells, NEW R \in SUBSET Rows,
         NEW r \in Rows, NEW tool
  PROVE  /\ Way(Swept(u, K, R), QcClearRow(r, u.blocks), Swept(u, K \cup ({r} \X Cols), R \cup {r}))
         /\ QcClearRow(r, u.blocks) \in Seq(Steps(tool))
<1>1. PICK n \in Nat : n = Width /\ Cols = 0 .. n - 1
  BY GridCounted DEF Cols
<1>2. \A j \in 1 .. n : j - 1 \in Cols /\ <<r, j - 1>> \in Cells
  BY <1>1, GridCounted
<1> DEFINE C(j) == {x \in Cells : x[1] = r /\ x[2] < j}
           f == [j \in 1 .. n |-> IF u.blocks[<<r, j - 1>>] = None THEN <<>>
                                  ELSE QcDeleteBlock(<<r, j - 1>>)]
           g == [j \in 0 .. n |-> Swept(u, K \cup C(j), R)]
<1>3. \A x \in Cells : x = <<x[1], x[2]>> /\ x[1] \in Rows /\ x[2] \in Cols
  BY DEF Cells
<1>4. \A j \in 1 .. n : C(j) = C(j - 1) \cup {<<r, j - 1>>}
  <2> TAKE j \in 1 .. n
  <2>1. <<r, j - 1>> \in Cells /\ <<r, j - 1>>[1] = r /\ <<r, j - 1>>[2] = j - 1 /\ j - 1 < j
    BY <1>2
  <2>2. ASSUME NEW x \in C(j) PROVE x \in C(j - 1) \/ x = <<r, j - 1>>
    <3>1. x \in Cells /\ x[1] = r /\ x[2] < j /\ x[2] \in 0 .. n - 1 /\ x = <<x[1], x[2]>>
      BY <1>1, <1>3
    <3>2. x[2] < j - 1 \/ x[2] = j - 1
      BY <3>1
    <3> QED
      BY <3>1, <3>2
  <2>3. ASSUME NEW x \in C(j - 1) PROVE x \in C(j)
    <3>1. x \in Cells /\ x[1] = r /\ x[2] < j - 1 /\ x[2] \in 0 .. n - 1
      BY <1>1, <1>3
    <3>2. x[2] < j
      BY <3>1
    <3> QED
      BY <3>1, <3>2
  <2>4. <<r, j - 1>> \in C(j)
    BY <2>1
  <2> QED
    BY <2>2, <2>3, <2>4
<1>5. C(0) = {}
  <2>1. ASSUME NEW x \in C(0) PROVE FALSE
    <3>1. x[2] < 0 /\ x[2] \in 0 .. n - 1
      BY <1>1, <1>3
    <3> QED
      BY <3>1
  <2> QED
    BY <2>1
<1>6. C(n) = {r} \X Cols
  <2>1. ASSUME NEW x \in C(n) PROVE x \in {r} \X Cols
    BY <1>3
  <2>2. ASSUME NEW x \in {r} \X Cols PROVE x \in C(n)
    <3>1. PICK c \in 0 .. n - 1 : x = <<r, c>> /\ c \in Cols
      BY <1>1
    <3>2. x \in Cells /\ x[1] = r /\ x[2] = c /\ c < n
      BY <3>1, GridCounted
    <3> QED
      BY <3>2
  <2> QED
    BY <2>1, <2>2
<1>7. \A j : C(j) \in SUBSET Cells
  OBVIOUS
<1> HIDE DEF C
<1>8. ASSUME NEW j \in 1 .. n
      PROVE  f[j] \in Seq(Steps(tool)) /\ Way(g[j - 1], f[j], g[j])
  <2>1. j - 1 \in 0 .. n /\ j \in 0 .. n /\ <<r, j - 1>> \in Cells
    BY <1>2
  <2>2. PICK L \in SUBSET Cells : L = K \cup C(j - 1)
    BY <1>7
  <2>3. g[j - 1] = Swept(u, L, R)
    BY <2>1, <2>2
  <2>4. g[j] = Swept(u, L \cup {<<r, j - 1>>}, R)
    <3>1. K \cup C(j) = L \cup {<<r, j - 1>>}
      BY <1>4, <2>2
    <3> QED
      BY <2>1, <3>1
  <2>5. f[j] = IF u.blocks[<<r, j - 1>>] = None THEN <<>> ELSE QcDeleteBlock(<<r, j - 1>>)
    OBVIOUS
  <2>6. f[j] \in Seq(Steps(tool))
    <3>1. \A c \in Commands : Sent(c) \in Steps(tool)
      BY StepsThere
    <3>2. QcDeleteBlock(<<r, j - 1>>) \in Seq(Steps(tool)) /\ <<>> \in Seq(Steps(tool))
      BY <2>1, <3>1, EditTyped
    <3> QED
      BY <2>5, <3>2
  <2>7. Way(Swept(u, L, R), IF u.blocks[<<r, j - 1>>] = None THEN <<>> ELSE QcDeleteBlock(<<r, j - 1>>),
            Swept(u, L \cup {<<r, j - 1>>}, R))
    BY <2>1, SweptCell
  <2> QED
    BY <2>3, <2>4, <2>5, <2>6, <2>7
<1>9. f \in [1 .. n -> Seq(Steps(tool))] /\ g \in [0 .. n -> Units]
  <2>1. \A j \in 0 .. n : Swept(u, K \cup C(j), R) \in Units
    <3> TAKE j \in 0 .. n
    <3>1. K \cup C(j) \in SUBSET Cells
      BY <1>7
    <3> QED
      BY <3>1, SweptIs
  <2>2. g \in [0 .. n -> Units]
    BY <2>1
  <2>3. f \in [1 .. n -> Seq(Steps(tool))]
    BY <1>8
  <2> QED
    BY <2>2, <2>3
<1>10. g[0] = Swept(u, K, R) /\ g[n] = Swept(u, K \cup ({r} \X Cols), R)
  <2>1. K \cup C(0) = K /\ K \cup C(n) = K \cup ({r} \X Cols) /\ 0 \in 0 .. n /\ n \in 0 .. n
    BY <1>5, <1>6
  <2> QED
    BY <2>1
<1>11. PICK F : F = f
  OBVIOUS
<1>12. Way(Swept(u, K, R), FlattenSeq(F), Swept(u, K \cup ({r} \X Cols), R))
       /\ FlattenSeq(F) \in Seq(Steps(tool))
  <2>1. \A k \in 1 .. n : Way(g[k - 1], F[k], g[k])
    BY <1>8, <1>11
  <2>2. PICK G : G = g
    OBVIOUS
  <2>3. Way(G[0], FlattenSeq(F), G[n]) /\ FlattenSeq(F) \in Seq(Steps(tool))
    BY <1>9, <1>11, <2>1, <2>2, WayFlatten, AllJoined
  <2> QED
    BY <1>10, <2>2, <2>3
<1>13. QcClearRow(r, u.blocks) = FlattenSeq(F) \o QcSetSplit(r, None)
  BY <1>1, <1>11 DEF QcClearRow
<1> HIDE DEF f, g
<1>14. PICK t : t = Swept(u, K \cup ({r} \X Cols), R)
  OBVIOUS
<1>15. PICK L : L = K \cup ({r} \X Cols) /\ L \in SUBSET Cells
  BY <1>6, <1>7
<1>16. /\ Holds(t, u, Cleaned(u.blocks, L), Freshened(u.value, L),
                Elsewhere(u.scened, L), Elsewhere(u.expr, L), u.route, Unsplit(u.split, R))
       /\ Tidy(t) /\ Settled(t) /\ t \in Units
  BY <1>14, <1>15, SweptIs
<1>17. Way(t, QcSetSplit(r, None), Swept(u, L, R \cup {r}))
  <2>1. PICK v : v = Put(t, t.blocks, t.value, t.scened, t.expr, t.route, [t.split EXCEPT ![r] = None])
    OBVIOUS
  <2>2. Way(t, QcSetSplit(r, None), v)
    BY <1>16, <2>1, SplitWay
  <2>3. /\ t.blocks = Cleaned(u.blocks, L) /\ t.value = Freshened(u.value, L)
        /\ t.scened = Elsewhere(u.scened, L) /\ t.expr = Elsewhere(u.expr, L)
        /\ t.route = u.route /\ t.split = Unsplit(u.split, R)
    BY <1>16 DEF Holds
  <2>4. [t.split EXCEPT ![r] = None] = Unsplit(u.split, R \cup {r})
    BY <2>3 DEF Unsplit
  <2>5. v = Swept(u, L, R \cup {r})
    BY <1>14, <1>15, <2>1, <2>3, <2>4, PutTwice DEF Swept
  <2> QED
    BY <2>2, <2>5
<1>18. QcSetSplit(r, None) \in Seq(Steps(tool))
  <2>1. \A c \in Commands : Sent(c) \in Steps(tool)
    BY StepsThere
  <2> QED
    BY <2>1, EditTyped
<1>19. Way(Swept(u, K, R), FlattenSeq(F) \o QcSetSplit(r, None), Swept(u, L, R \cup {r}))
  BY <1>12, <1>14, <1>15, <1>17, <1>18, WayJoin
<1>20. FlattenSeq(F) \o QcSetSplit(r, None) \in Seq(Steps(tool))
  BY <1>12, <1>18, Joined
<1> QED
  BY <1>13, <1>15, <1>19, <1>20

\* Row by row everything is cleared.
LEMMA SweptAll ==
  ASSUME NEW u \in Units, Tidy(u), Settled(u), NEW tool
  PROVE  /\ Way(u, FlattenSeq([i \in 1 .. Height |-> QcClearRow(i - 1, u.blocks)]),
                Swept(u, Cells, Rows))
         /\ FlattenSeq([i \in 1 .. Height |-> QcClearRow(i - 1, u.blocks)]) \in Seq(Steps(tool))
<1>1. PICK n \in Nat : n = Height /\ Rows = 0 .. n - 1
  BY GridCounted DEF Rows
<1> DEFINE C(i) == {x \in Cells : x[1] < i}
           R(i) == {r \in Rows : r < i}
           f == [i \in 1 .. n |-> QcClearRow(i - 1, u.blocks)]
           g == [i \in 0 .. n |-> Swept(u, C(i), R(i))]
<1>2. \A x \in Cells : x = <<x[1], x[2]>> /\ x[1] \in 0 .. n - 1 /\ x[2] \in Cols
  BY <1>1 DEF Cells
<1>3. \A i \in 1 .. n : C(i) = C(i - 1) \cup ({i - 1} \X Cols) /\ R(i) = R(i - 1) \cup {i - 1}
  <2> TAKE i \in 1 .. n
  <2>1. ASSUME NEW x \in C(i) PROVE x \in C(i - 1) \/ x \in {i - 1} \X Cols
    <3>1. x \in Cells /\ x[1] < i /\ x[1] \in 0 .. n - 1 /\ x = <<x[1], x[2]>> /\ x[2] \in Cols
      BY <1>2
    <3>2. x[1] < i - 1 \/ x[1] = i - 1
      BY <3>1
    <3> QED
      BY <3>1, <3>2
  <2>2. ASSUME NEW x \in C(i - 1) PROVE x \in C(i)
    <3>1. x \in Cells /\ x[1] < i - 1 /\ x[1] \in 0 .. n - 1
      BY <1>2
    <3>2. x[1] < i
      BY <3>1
    <3> QED
      BY <3>1, <3>2
  <2>3. ASSUME NEW x \in {i - 1} \X Cols PROVE x \in C(i)
    <3>1. PICK c \in Cols : x = <<i - 1, c>>
      BY <2>3
    <3>2. i - 1 \in Rows /\ x[1] = i - 1
      BY <1>1, <3>1
    <3>3. x \in Cells
      BY <3>1, <3>2, GridCounted
    <3> QED
      BY <3>2, <3>3
  <2>4. R(i) = R(i - 1) \cup {i - 1}
    BY <1>1
  <2> QED
    BY <2>1, <2>2, <2>3, <2>4
<1>4. C(0) = {} /\ R(0) = {}
  <2>1. ASSUME NEW x \in C(0) PROVE FALSE
    <3>1. x[1] < 0 /\ x[1] \in 0 .. n - 1
      BY <1>2
    <3> QED
      BY <3>1
  <2> QED
    BY <1>1, <2>1
<1>5. C(n) = Cells /\ R(n) = Rows
  <2>1. ASSUME NEW x \in Cells PROVE x \in C(n)
    <3>1. x[1] \in 0 .. n - 1
      BY <1>2
    <3>2. x[1] < n
      BY <3>1
    <3> QED
      BY <3>2
  <2> QED
    BY <1>1, <2>1
<1>6. \A i : C(i) \in SUBSET Cells /\ R(i) \in SUBSET Rows
  OBVIOUS
<1> HIDE DEF C, R
<1>7. ASSUME NEW i \in 1 .. n
      PROVE  f[i] \in Seq(Steps(tool)) /\ Way(g[i - 1], f[i], g[i])
  <2>1. i - 1 \in 0 .. n /\ i \in 0 .. n /\ i - 1 \in Rows
    BY <1>1
  <2>2. PICK K \in SUBSET Cells, Q \in SUBSET Rows : K = C(i - 1) /\ Q = R(i - 1)
    BY <1>6
  <2>3. g[i - 1] = Swept(u, K, Q) /\ f[i] = QcClearRow(i - 1, u.blocks)
    BY <2>1, <2>2
  <2>4. g[i] = Swept(u, K \cup ({i - 1} \X Cols), Q \cup {i - 1})
    BY <1>3, <2>1, <2>2
  <2>5. /\ Way(Swept(u, K, Q), QcClearRow(i - 1, u.blocks),
               Swept(u, K \cup ({i - 1} \X Cols), Q \cup {i - 1}))
        /\ QcClearRow(i - 1, u.blocks) \in Seq(Steps(tool))
    BY <2>1, SweptRow
  <2> QED
    BY <2>3, <2>4, <2>5
<1>8. f \in [1 .. n -> Seq(Steps(tool))] /\ g \in [0 .. n -> Units]
  <2>1. \A i \in 0 .. n : Swept(u, C(i), R(i)) \in Units
    BY <1>6, SweptIs
  <2>2. g \in [0 .. n -> Units]
    BY <2>1
  <2>3. f \in [1 .. n -> Seq(Steps(tool))]
    BY <1>7
  <2> QED
    BY <2>2, <2>3
<1>9. g[0] = u /\ g[n] = Swept(u, Cells, Rows)
  <2>1. 0 \in 0 .. n /\ n \in 0 .. n
    OBVIOUS
  <2> QED
    BY <1>4, <1>5, <2>1, SweptNothing
<1>10. \A k \in 1 .. n : Way(g[k - 1], f[k], g[k])
  BY <1>7
<1>11. PICK F : F = f
  OBVIOUS
<1>12. PICK G : G = g
  OBVIOUS
<1>13. Way(G[0], FlattenSeq(F), G[n]) /\ FlattenSeq(F) \in Seq(Steps(tool))
  BY <1>8, <1>10, <1>11, <1>12, WayFlatten, AllJoined
<1> QED
  BY <1>1, <1>9, <1>11, <1>12, <1>13

\* The routing of the first k rows is that of an empty grid.
Rerouted(t, k) ==
  Put(t, t.blocks, t.value, t.scened, t.expr,
      [r \in Rows |-> IF r < k THEN Idle(r) ELSE t.route[r]], t.split)

\* It is a unit at rest, and tidy.
LEMMA ReroutedIs ==
  ASSUME NEW t \in Units, Tidy(t), Settled(t), NEW k
  PROVE  /\ Holds(Rerouted(t, k), t, t.blocks, t.value, t.scened, t.expr,
                  [r \in Rows |-> IF r < k THEN Idle(r) ELSE t.route[r]], t.split)
         /\ Tidy(Rerouted(t, k)) /\ Settled(Rerouted(t, k)) /\ Rerouted(t, k) \in Units
<1>1. PICK route : route = [r \in Rows |-> IF r < k THEN Idle(r) ELSE t.route[r]]
                   /\ route \in [Rows -> Ports]
  <2>1. \A r : Idle(r) \in Ports
    BY DEF Idle, Ports
  <2>2. \A r \in Rows : t.route[r] \in Ports
    BY DEF Units
  <2>3. \A r \in Rows : (IF r < k THEN Idle(r) ELSE t.route[r]) \in Ports
    BY <2>1, <2>2
  <2>4. [r \in Rows |-> IF r < k THEN Idle(r) ELSE t.route[r]] \in [Rows -> Ports]
    BY <2>3
  <2> QED
    BY <2>4
<1>2. /\ t.blocks \in Blocks /\ t.value \in [Cells -> [Params -> [Scenes -> Values]]]
      /\ t.scened \in SUBSET (Cells \X Params) /\ t.expr \in SUBSET (Cells \X Params)
      /\ t.split \in [Rows -> Points \cup {None}]
  BY DEF Units
<1>3. PICK v : v = Put(t, t.blocks, t.value, t.scened, t.expr, route, t.split)
  OBVIOUS
<1>4. Holds(v, t, t.blocks, t.value, t.scened, t.expr, route, t.split)
  BY <1>1, <1>2, <1>3, PutIs
<1>5. Tidy(v) /\ Settled(v) /\ v \in Units
  BY <1>4, TidyAlike DEF Holds, Settled
<1> QED
  BY <1>1, <1>3, <1>4, <1>5 DEF Rerouted

\* One more row.
LEMMA ReroutedRow ==
  ASSUME NEW t \in Units, Tidy(t), Settled(t), NEW k \in Rows,
         NEW in \in Nat, NEW out \in Nat, Idle(k) = [in |-> in, out |-> out]
  PROVE  Way(Rerouted(t, k), QcSetRouting(k, in, out), Rerouted(t, k + 1))
<1>1. PICK x : x = Rerouted(t, k)
  OBVIOUS
<1>2. /\ Holds(x, t, t.blocks, t.value, t.scened, t.expr,
               [r \in Rows |-> IF r < k THEN Idle(r) ELSE t.route[r]], t.split)
      /\ Tidy(x) /\ Settled(x) /\ x \in Units
  BY <1>1, ReroutedIs
<1>3. /\ x.blocks = t.blocks /\ x.value = t.value /\ x.scened = t.scened /\ x.expr = t.expr
      /\ x.split = t.split /\ x.route = [r \in Rows |-> IF r < k THEN Idle(r) ELSE t.route[r]]
  BY <1>2 DEF Holds
<1>4. Routed(x.route[k], in, out) = Idle(k)
  BY UnitAssumption DEF UnitAssumption, Routed
<1>5. PICK v : v = Put(x, x.blocks, x.value, x.scened, x.expr, [x.route EXCEPT ![k] = Idle(k)], x.split)
  OBVIOUS
<1>6. Way(x, QcSetRouting(k, in, out), v)
  BY <1>2, <1>4, <1>5, RouteWay
<1>7. [x.route EXCEPT ![k] = Idle(k)] = [r \in Rows |-> IF r < k + 1 THEN Idle(r) ELSE t.route[r]]
  <2>1. \A r \in Rows : r \in Nat
    BY DEF Rows
  <2>2. \A r \in Rows : (r < k + 1) <=> (r < k \/ r = k)
    BY <2>1
  <2> QED
    BY <1>3, <2>2
<1>8. v = Rerouted(t, k + 1)
  BY <1>1, <1>3, <1>5, <1>7, PutTwice DEF Rerouted
<1> QED
  BY <1>1, <1>6, <1>8

\* clear_grid() leaves an empty grid.
LEMMA ClearWay ==
  ASSUME NEW u \in Units, Tidy(u), Settled(u), NEW tool
  PROVE  /\ Way(u, QcClearGrid(u.blocks), Laid(u, {}, {}))
         /\ QcClearGrid(u.blocks) \in Seq(Steps(tool))
         /\ Tidy(Laid(u, {}, {})) /\ Settled(Laid(u, {}, {})) /\ Laid(u, {}, {}) \in Units
<1>1. PICK t : t = Swept(u, Cells, Rows) /\ t \in Units /\ Tidy(t) /\ Settled(t)
               /\ Holds(t, u, Cleaned(u.blocks, Cells), Freshened(u.value, Cells),
                        Elsewhere(u.scened, Cells), Elsewhere(u.expr, Cells), u.route,
                        Unsplit(u.split, Rows))
  <2>1. Cells \in SUBSET Cells /\ Rows \in SUBSET Rows
    OBVIOUS
  <2> QED
    BY <2>1, SweptIs
<1>2. PICK a : a = FlattenSeq([i \in 1 .. Height |-> QcClearRow(i - 1, u.blocks)])
               /\ a \in Seq(Steps(tool)) /\ Way(u, a, t)
  BY <1>1, SweptAll
<1>3. PICK n \in Nat : n = Height - 1 /\ Rows = 0 .. n
  BY GridCounted, UnitAssumption DEF Rows, UnitAssumption
<1> DEFINE f == [i \in 1 .. n |-> QcSetRouting(i, 0, 0)]
           g == [i \in 0 .. n |-> Rerouted(t, i + 1)]
<1>4. \A c \in Commands : Sent(c) \in Steps(tool)
  BY StepsThere
<1>5. ASSUME NEW i \in 1 .. n
      PROVE  f[i] \in Seq(Steps(tool)) /\ Way(g[i - 1], f[i], g[i])
  <2>1. i \in Rows /\ i # 0 /\ i - 1 \in 0 .. n /\ i \in 0 .. n /\ (i - 1) + 1 = i
    BY <1>3
  <2>2. QcSetRouting(i, 0, 0) \in Seq(Steps(tool))
    BY <1>4, <2>1, EditTyped
  <2>3. Idle(i) = [in |-> 0, out |-> 0]
    BY <2>1 DEF Idle
  <2>4. Way(Rerouted(t, i), QcSetRouting(i, 0, 0), Rerouted(t, i + 1))
    BY <1>1, <2>1, <2>3, ReroutedRow
  <2>5. g[i - 1] = Rerouted(t, i) /\ g[i] = Rerouted(t, i + 1) /\ f[i] = QcSetRouting(i, 0, 0)
    BY <2>1
  <2> QED
    BY <2>2, <2>4, <2>5
<1>6. f \in [1 .. n -> Seq(Steps(tool))] /\ g \in [0 .. n -> Units]
  <2>1. \A k : Rerouted(t, k) \in Units
    BY <1>1, ReroutedIs
  <2>2. g \in [0 .. n -> Units]
    BY <2>1
  <2>3. f \in [1 .. n -> Seq(Steps(tool))]
    BY <1>5
  <2> QED
    BY <2>2, <2>3
<1>7. \A k \in 1 .. n : Way(g[k - 1], f[k], g[k])
  BY <1>5
<1>8. g[0] = Rerouted(t, 1) /\ g[n] = Rerouted(t, n + 1)
  <2>1. 0 \in 0 .. n /\ n \in 0 .. n
    OBVIOUS
  <2> QED
    BY <2>1
<1>9. PICK F : F = f
  OBVIOUS
<1>10. PICK G : G = g
  OBVIOUS
<1>11. Way(G[0], FlattenSeq(F), G[n]) /\ FlattenSeq(F) \in Seq(Steps(tool))
  BY <1>6, <1>7, <1>9, <1>10, WayFlatten, AllJoined
<1>12. PICK b : b = FlattenSeq(F) /\ b \in Seq(Steps(tool)) /\ Way(Rerouted(t, 1), b, Rerouted(t, n + 1))
  BY <1>8, <1>10, <1>11
<1>13. PICK r : r = QcSetRouting(0, 1, 19) /\ r \in Seq(Steps(tool)) /\ Way(t, r, Rerouted(t, 1))
  <2>1. 0 \in Rows /\ 1 \in Nat /\ 19 \in Nat
    BY <1>3
  <2>2. QcSetRouting(0, 1, 19) \in Seq(Steps(tool))
    BY <1>4, <2>1, EditTyped
  <2>3. Idle(0) = [in |-> 1, out |-> 19]
    BY DEF Idle
  <2>4. Way(Rerouted(t, 0), QcSetRouting(0, 1, 19), Rerouted(t, 0 + 1))
    BY <1>1, <2>1, <2>3, ReroutedRow
  <2>5. Rerouted(t, 0) = t
    <3>1. [x \in Rows |-> IF x < 0 THEN Idle(x) ELSE t.route[x]] = t.route
      <4>1. \A x \in Rows : ~(x < 0)
        BY <1>3
      <4> QED
        BY <1>1, <4>1 DEF Units
    <3> QED
      BY <1>1, <3>1, PutSame DEF Rerouted
  <2> QED
    BY <2>2, <2>4, <2>5
<1>14. QcClearGrid(u.blocks) = (a \o r) \o b
  BY <1>2, <1>3, <1>9, <1>12, <1>13 DEF QcClearGrid
<1>15. Way(u, (a \o r) \o b, Rerouted(t, n + 1)) /\ (a \o r) \o b \in Seq(Steps(tool))
  <2>1. Way(u, a \o r, Rerouted(t, 1)) /\ a \o r \in Seq(Steps(tool))
    BY <1>2, <1>13, WayJoin, Joined
  <2> QED
    BY <1>12, <2>1, WayJoin, Joined
<1>16. Rerouted(t, n + 1) = Laid(u, {}, {})
  <2>1. PICK B : B = [c \in Cells |-> None]
    OBVIOUS
  <2>2. PICK V : V = [c \in Cells |-> Fresh]
    OBVIOUS
  <2>3. PICK P : P = [x \in Rows |-> None]
    OBVIOUS
  <2>4. PICK R : R = [x \in Rows |-> Idle(x)]
    OBVIOUS
  <2>5. /\ t.blocks = B /\ t.value = V /\ t.split = P /\ t.scened = {} /\ t.expr = {}
    <3>1. Elsewhere(u.scened, Cells) = {} /\ Elsewhere(u.expr, Cells) = {}
      <4>1. \A x \in u.scened \cup u.expr : x[1] \in Cells
        BY DEF Units
      <4> QED
        BY <4>1 DEF Elsewhere
    <3>2. Cleaned(u.blocks, Cells) = B /\ Freshened(u.value, Cells) = V /\ Unsplit(u.split, Rows) = P
      BY <2>1, <2>2, <2>3 DEF Cleaned, Freshened, Unsplit
    <3> QED
      BY <1>1, <3>1, <3>2 DEF Holds
  <2>6. [x \in Rows |-> IF x < n + 1 THEN Idle(x) ELSE t.route[x]] = R
    BY <1>3, <2>4
  <2>7. Rerouted(t, n + 1) = Put(t, B, V, {}, {}, R, P)
    BY <2>5, <2>6 DEF Rerouted
  <2>8. Put(t, B, V, {}, {}, R, P) = Put(u, B, V, {}, {}, R, P)
    BY <1>1, PutTwice DEF Swept
  <2>9. Laid(u, {}, {}) = Put(u, B, V, {}, {}, R, P)
    <3>1. Laid(u, {}, {}) = [u EXCEPT !.blocks = B, !.value = V, !.scened = {}, !.expr = {},
                                      !.split = P, !.route = R]
      BY <2>1, <2>2, <2>3, <2>4 DEF Laid
    <3> QED
      BY <3>1 DEF Put, Units
  <2> QED
    BY <2>7, <2>8, <2>9
<1>17. Tidy(Rerouted(t, n + 1)) /\ Settled(Rerouted(t, n + 1)) /\ Rerouted(t, n + 1) \in Units
  BY <1>1, ReroutedIs
<1> QED
  BY <1>14, <1>15, <1>16, <1>17

-----------------------------------------------------------------------------
(* A spec laid out on an empty grid *)

\* A block of a spec at its cell.
BlockAt == [cell : Cells, device : Devices, params : Seq(Params \X Values)]
At(B, cell) == {b \in B : b.cell = cell}
On(C, r) == {ch \in C : ch.row = r}
TheOne(S) == CHOOSE x \in S : TRUE

\* The grid of these blocks and chains.
LaidBlocks(B) == [c \in Cells |-> IF At(B, c) = {} THEN None ELSE TheOne(At(B, c)).device]
LaidValue(B) == [c \in Cells |-> IF At(B, c) = {} THEN Fresh ELSE SpecValue(TheOne(At(B, c)).params)]
LaidSplit(C) == [r \in Rows |-> IF On(C, r) = {} THEN None ELSE TheOne(On(C, r)).split]
LaidRoute(C) == [r \in Rows |-> IF On(C, r) = {} THEN Idle(r)
                                ELSE Routed(Idle(r), TheOne(On(C, r)).in, TheOne(On(C, r)).out)]

\* It is the one of the promise.
LEMMA LaidIs ==
  ASSUME NEW u \in Units, NEW C, NEW B
  PROVE  Laid(u, C, B) = Put(u, LaidBlocks(B), LaidValue(B), {}, {}, LaidRoute(C), LaidSplit(C))
<1>1. PICK L : L = LaidBlocks(B)
  OBVIOUS
<1>2. PICK V : V = LaidValue(B)
  OBVIOUS
<1>3. PICK P : P = LaidSplit(C)
  OBVIOUS
<1>4. PICK R : R = LaidRoute(C)
  OBVIOUS
<1>5. Laid(u, C, B) = [u EXCEPT !.blocks = L, !.value = V, !.scened = {}, !.expr = {},
                                !.split = P, !.route = R]
  BY <1>1, <1>2, <1>3, <1>4
     DEF Laid, LaidBlocks, LaidValue, LaidSplit, LaidRoute, At, On, TheOne, Routed
<1>6. Put(u, L, V, {}, {}, R, P) = [u EXCEPT !.blocks = L, !.value = V, !.scened = {}, !.expr = {},
                                             !.split = P, !.route = R]
  BY DEF Put, Units
<1> QED
  BY <1>1, <1>2, <1>3, <1>4, <1>5, <1>6

\* The values after the first k parameters, no two of them the same.
Partial(params, k) ==
  [p \in Params |-> [s \in Scenes |->
     LET given == {i \in 1 .. k : params[i][1] = p}
     IN IF given = {} THEN 0 ELSE params[CHOOSE i \in given : TRUE][2]]]

\* They are values, those of a fresh block at first, and those of the spec in the end.
LEMMA PartialIs ==
  ASSUME NEW params \in Seq(Params \X Values)
  PROVE  /\ \A k \in 0 .. Len(params) : Partial(params, k) \in [Params -> [Scenes -> Values]]
         /\ Partial(params, 0) = Fresh
         /\ Partial(params, Len(params)) = SpecValue(params)
<1>1. PICK n \in Nat : n = Len(params)
  BY LenProperties
<1>2. \A i \in 1 .. n : params[i] \in Params \X Values
  BY <1>1, ElementOfSeq
<1>3. ASSUME NEW k \in 0 .. n
      PROVE  Partial(params, k) \in [Params -> [Scenes -> Values]]
  <2>1. ASSUME NEW p \in Params
        PROVE  LET given == {i \in 1 .. k : params[i][1] = p}
               IN (IF given = {} THEN 0 ELSE params[CHOOSE i \in given : TRUE][2]) \in Values
    <3>1. PICK given : given = {i \in 1 .. k : params[i][1] = p}
      OBVIOUS
    <3>2. CASE given = {}
      BY <3>1, <3>2, UnitAssumption DEF UnitAssumption
    <3>3. CASE given # {}
      <4>1. PICK j : j = CHOOSE i \in given : TRUE
        OBVIOUS
      <4>2. j \in given
        BY <3>3, <4>1
      <4>3. j \in 1 .. n
        BY <3>1, <4>2
      <4>4. params[j][2] \in Values
        BY <1>2, <4>3
      <4> QED
        BY <3>1, <3>3, <4>1, <4>4
    <3> QED
      BY <3>2, <3>3
  <2> QED
    BY <2>1 DEF Partial
<1>4. Partial(params, 0) = Fresh
  <2>1. \A p : {i \in 1 .. 0 : params[i][1] = p} = {}
    OBVIOUS
  <2> QED
    BY <2>1 DEF Partial, Fresh
<1>5. Partial(params, Len(params)) = SpecValue(params)
  BY DEF Partial, SpecValue
<1> QED
  BY <1>1, <1>3, <1>4, <1>5

\* One more parameter.
LEMMA PartialNext ==
  ASSUME NEW params \in Seq(Params \X Values), NEW k \in 1 .. Len(params),
         \A i, j \in 1 .. Len(params) : params[i][1] = params[j][1] => i = j
  PROVE  /\ params[k][1] \in Params /\ params[k][2] \in Values
         /\ Partial(params, k) =
              [Partial(params, k - 1) EXCEPT ![params[k][1]] = [s \in Scenes |-> params[k][2]]]
<1>1. PICK n \in Nat : n = Len(params)
  BY LenProperties
<1>2. params[k] \in Params \X Values
  BY <1>1, ElementOfSeq
<1>3. PICK p \in Params, z \in Values : params[k][1] = p /\ params[k][2] = z
  BY <1>2
<1>4. ASSUME NEW x \in Params, x # p
      PROVE  Partial(params, k)[x] = Partial(params, k - 1)[x]
  <2>1. {i \in 1 .. k : params[i][1] = x} = {i \in 1 .. k - 1 : params[i][1] = x}
    BY <1>1, <1>3, <1>4
  <2> QED
    BY <2>1 DEF Partial
<1>5. Partial(params, k)[p] = [s \in Scenes |-> z]
  <2>1. {i \in 1 .. k : params[i][1] = p} = {k}
    BY <1>1, <1>3
  <2>2. (CHOOSE i \in {k} : TRUE) = k
    OBVIOUS
  <2> QED
    BY <1>3, <2>1, <2>2 DEF Partial
<1>6. Partial(params, k) = [x \in Params |-> Partial(params, k)[x]]
      /\ Partial(params, k - 1) = [x \in Params |-> Partial(params, k - 1)[x]]
  BY DEF Partial
<1>7. Partial(params, k) = [Partial(params, k - 1) EXCEPT ![p] = [s \in Scenes |-> z]]
  <2>1. PICK a : a = Partial(params, k) /\ a = [x \in Params |-> a[x]]
    BY <1>6
  <2>2. PICK b : b = Partial(params, k - 1) /\ b = [x \in Params |-> b[x]]
    BY <1>6
  <2>3. PICK c : c = [s \in Scenes |-> z]
    OBVIOUS
  <2>4. a[p] = c /\ \A x \in Params : x # p => a[x] = b[x]
    BY <1>4, <1>5, <2>1, <2>2, <2>3
  <2>5. a = [b EXCEPT ![p] = c]
    BY <2>1, <2>2, <2>4
  <2> QED
    BY <2>1, <2>2, <2>3, <2>5
<1> QED
  BY <1>3, <1>7

\* What is laid out is a unit at rest, and tidy.
LEMMA LaidTyped ==
  ASSUME NEW u \in Units, Settled(u), NEW C \in SUBSET Chain, NEW B \in SUBSET BlockAt
  PROVE  /\ Holds(Laid(u, C, B), u, LaidBlocks(B), LaidValue(B), {}, {}, LaidRoute(C), LaidSplit(C))
         /\ Tidy(Laid(u, C, B)) /\ Settled(Laid(u, C, B)) /\ Laid(u, C, B) \in Units
<1>1. \A S : S # {} => TheOne(S) \in S
  BY DEF TheOne
<1>2. ASSUME NEW c \in Cells, At(B, c) # {}
      PROVE  /\ TheOne(At(B, c)).device \in Devices
             /\ TheOne(At(B, c)).params \in Seq(Params \X Values)
  <2>1. PICK b : b = TheOne(At(B, c)) /\ b \in BlockAt
    BY <1>1, <1>2 DEF At
  <2> QED
    BY <2>1 DEF BlockAt
<1>3. ASSUME NEW r \in Rows, On(C, r) # {}
      PROVE  /\ TheOne(On(C, r)).split \in Points \cup {None}
             /\ TheOne(On(C, r)).in \in Nat \cup {None} /\ TheOne(On(C, r)).out \in Nat \cup {None}
  <2>1. PICK ch : ch = TheOne(On(C, r)) /\ ch \in Chain
    BY <1>1, <1>3 DEF On
  <2> QED
    BY <2>1 DEF Chain
<1>4. PICK L : /\ L = LaidBlocks(B) /\ L \in Blocks
               /\ \A c \in Cells : L[c] = None => At(B, c) = {}
  <2>1. LaidBlocks(B) \in Blocks
    BY <1>2 DEF LaidBlocks, Blocks
  <2>2. None \notin Devices
    BY UnitAssumption DEF UnitAssumption
  <2>3. \A c \in Cells : LaidBlocks(B)[c] = None => At(B, c) = {}
    BY <1>2, <2>2 DEF LaidBlocks
  <2> QED
    BY <2>1, <2>3
<1>5. PICK V : /\ V = LaidValue(B) /\ V \in [Cells -> [Params -> [Scenes -> Values]]]
               /\ \A c \in Cells : At(B, c) = {} => V[c] = Fresh
  <2>1. \A s \in Seq(Params \X Values) : SpecValue(s) \in [Params -> [Scenes -> Values]]
    <3> TAKE s \in Seq(Params \X Values)
    <3>1. Len(s) \in 0 .. Len(s)
      BY LenProperties
    <3> QED
      BY <3>1, PartialIs
  <2>2. \A c \in Cells : LaidValue(B)[c] \in [Params -> [Scenes -> Values]]
    <3> TAKE c \in Cells
    <3>1. CASE At(B, c) = {}
      BY <3>1, FreshTyped DEF LaidValue
    <3>2. CASE At(B, c) # {}
      <4>1. SpecValue(TheOne(At(B, c)).params) \in [Params -> [Scenes -> Values]]
        BY <1>2, <2>1, <3>2
      <4> QED
        BY <3>2, <4>1 DEF LaidValue
    <3> QED
      BY <3>1, <3>2
  <2>3. LaidValue(B) = [c \in Cells |-> LaidValue(B)[c]]
    BY DEF LaidValue
  <2>4. LaidValue(B) \in [Cells -> [Params -> [Scenes -> Values]]]
    BY <2>2, <2>3
  <2>5. \A c \in Cells : At(B, c) = {} => LaidValue(B)[c] = Fresh
    BY DEF LaidValue
  <2> QED
    BY <2>4, <2>5
<1>6. PICK P : P = LaidSplit(C) /\ P \in [Rows -> Points \cup {None}]
  <2>1. LaidSplit(C) \in [Rows -> Points \cup {None}]
    BY <1>3 DEF LaidSplit
  <2> QED
    BY <2>1
<1>7. PICK R : R = LaidRoute(C) /\ R \in [Rows -> Ports]
  <2>1. \A r : Idle(r) \in Ports
    BY DEF Idle, Ports
  <2>2. \A port \in Ports, in \in Nat \cup {None}, out \in Nat \cup {None} : Routed(port, in, out) \in Ports
    BY DEF Routed, Ports
  <2>3. \A r \in Rows : LaidRoute(C)[r] \in Ports
    BY <1>3, <2>1, <2>2 DEF LaidRoute
  <2>4. LaidRoute(C) = [r \in Rows |-> LaidRoute(C)[r]]
    BY DEF LaidRoute
  <2>5. LaidRoute(C) \in [Rows -> Ports]
    BY <2>3, <2>4
  <2> QED
    BY <2>5
<1>8. PICK t : t = Put(u, L, V, {}, {}, R, P)
  OBVIOUS
<1>9. Holds(t, u, L, V, {}, {}, R, P)
  <2>1. {} \in SUBSET (Cells \X Params)
    OBVIOUS
  <2> QED
    BY <1>4, <1>5, <1>6, <1>7, <1>8, <2>1, PutIs
<1>10. Tidy(t) /\ Settled(t) /\ t \in Units
  <2>1. /\ t.blocks = L /\ t.value = V /\ t.scened = {} /\ t.expr = {}
        /\ t.scene = u.scene /\ t.next = u.next /\ t \in Units
    BY <1>9 DEF Holds
  <2> QED
    BY <1>4, <1>5, <2>1 DEF Tidy, Settled
<1>11. t = Laid(u, C, B)
  BY <1>4, <1>5, <1>6, <1>7, <1>8, LaidIs
<1> QED
  BY <1>4, <1>5, <1>6, <1>7, <1>9, <1>10, <1>11

\* What a chain says of its row: nothing, or its routing; nothing, or its split.
Routing(ch) == IF ch.in = None /\ ch.out = None THEN <<>> ELSE QcSetRouting(ch.row, ch.in, ch.out)
Splitting(ch) == IF ch.split = None THEN <<>> ELSE QcSetSplit(ch.row, ch.split)

\* The routing and the splits with one more chain, on a row of its own.
LEMMA ChainAdded ==
  ASSUME NEW C \in SUBSET Chain, NEW ch \in Chain, \A x \in C : x.row # ch.row
  PROVE  /\ LaidRoute(C)[ch.row] = Idle(ch.row) /\ LaidSplit(C)[ch.row] = None
         /\ LaidRoute(C \cup {ch}) = [LaidRoute(C) EXCEPT ![ch.row] = Routed(Idle(ch.row), ch.in, ch.out)]
         /\ LaidSplit(C \cup {ch}) = [LaidSplit(C) EXCEPT ![ch.row] = ch.split]
<1>1. On(C, ch.row) = {} /\ On(C \cup {ch}, ch.row) = {ch}
  BY DEF On
<1>2. \A r : r # ch.row => On(C \cup {ch}, r) = On(C, r)
  BY DEF On
<1>3. TheOne({ch}) = ch
  BY DEF TheOne
<1>4. ch.row \in Rows
  BY DEF Chain
<1>5. LaidRoute(C)[ch.row] = Idle(ch.row) /\ LaidSplit(C)[ch.row] = None
  BY <1>1, <1>4 DEF LaidRoute, LaidSplit
<1>6. PICK R : R = Routed(Idle(ch.row), ch.in, ch.out)
  OBVIOUS
<1>7. LaidRoute(C \cup {ch}) = [LaidRoute(C) EXCEPT ![ch.row] = R]
  <2>1. \A r \in Rows : LaidRoute(C \cup {ch})[r] = IF r = ch.row THEN R ELSE LaidRoute(C)[r]
    BY <1>1, <1>2, <1>3, <1>6 DEF LaidRoute
  <2> QED
    BY <1>4, <2>1 DEF LaidRoute
<1>8. LaidSplit(C \cup {ch}) = [LaidSplit(C) EXCEPT ![ch.row] = ch.split]
  <2>1. \A r \in Rows : LaidSplit(C \cup {ch})[r] = IF r = ch.row THEN ch.split ELSE LaidSplit(C)[r]
    BY <1>1, <1>2, <1>3 DEF LaidSplit
  <2> QED
    BY <1>4, <2>1 DEF LaidSplit
<1> QED
  BY <1>5, <1>6, <1>7, <1>8

\* Both are messages.
LEMMA RoutingIsSeq ==
  ASSUME NEW ch \in Chain, NEW tool
  PROVE  Routing(ch) \in Seq(Steps(tool)) /\ Splitting(ch) \in Seq(Steps(tool))
<1>1. /\ ch.row \in Rows /\ ch.in \in Nat \cup {None} /\ ch.out \in Nat \cup {None}
      /\ ch.split \in Points \cup {None}
  BY DEF Chain
<1>2. \A c \in Commands : Sent(c) \in Steps(tool)
  BY StepsThere
<1>3. /\ QcSetRouting(ch.row, ch.in, ch.out) \in Seq(Steps(tool))
      /\ QcSetSplit(ch.row, ch.split) \in Seq(Steps(tool))
  BY <1>1, <1>2, EditTyped
<1>4. <<>> \in Seq(Steps(tool))
  OBVIOUS
<1> QED
  BY <1>3, <1>4 DEF Routing, Splitting

\* The way of a chain's routing and split.
LEMMA ChainHeadWay ==
  ASSUME NEW u \in Units, Settled(u), NEW C \in SUBSET Chain, NEW B \in SUBSET BlockAt,
         NEW ch \in Chain, \A x \in C : x.row # ch.row, NEW tool
  PROVE  /\ Way(Laid(u, C, B), Routing(ch) \o Splitting(ch), Laid(u, C \cup {ch}, B))
         /\ Routing(ch) \o Splitting(ch) \in Seq(Steps(tool))
<1>0. /\ LaidRoute(C)[ch.row] = Idle(ch.row) /\ LaidSplit(C)[ch.row] = None
      /\ LaidRoute(C \cup {ch}) = [LaidRoute(C) EXCEPT ![ch.row] = Routed(Idle(ch.row), ch.in, ch.out)]
      /\ LaidSplit(C \cup {ch}) = [LaidSplit(C) EXCEPT ![ch.row] = ch.split]
  BY ChainAdded, Zenon
<1>1. /\ ch.row \in Rows /\ ch.in \in Nat \cup {None} /\ ch.out \in Nat \cup {None}
      /\ ch.split \in Points \cup {None}
  BY DEF Chain
<1>2. PICK t : /\ t = Laid(u, C, B) /\ Tidy(t) /\ Settled(t) /\ t \in Units
               /\ Holds(t, u, LaidBlocks(B), LaidValue(B), {}, {}, LaidRoute(C), LaidSplit(C))
  BY LaidTyped
<1>3. /\ t.blocks = LaidBlocks(B) /\ t.value = LaidValue(B) /\ t.scened = {} /\ t.expr = {}
      /\ t.route = LaidRoute(C) /\ t.split = LaidSplit(C)
  BY <1>2 DEF Holds
<1>4. t = Put(u, LaidBlocks(B), LaidValue(B), {}, {}, LaidRoute(C), LaidSplit(C))
  BY <1>2, LaidIs
<1>5. PICK port : port = Routed(Idle(ch.row), ch.in, ch.out)
  OBVIOUS
<1>6. PICK x : x = Put(t, t.blocks, t.value, t.scened, t.expr, [t.route EXCEPT ![ch.row] = port], t.split)
  OBVIOUS
<1>7. t.route[ch.row] = Idle(ch.row)
  BY <1>0, <1>3
<1>8. Way(t, Routing(ch), x) /\ Tidy(x)
  <2>1. CASE ch.in = None /\ ch.out = None
    <3>1. port = Idle(ch.row)
      BY <1>5, <2>1 DEF Routed, Idle
    <3>2. [t.route EXCEPT ![ch.row] = port] = t.route
      <4>1. t.route \in [Rows -> Ports]
        BY <1>2 DEF Units
      <4> QED
        BY <1>1, <1>7, <3>1, <4>1
    <3>3. x = t
      BY <1>2, <1>6, <3>2, PutSame
    <3> QED
      BY <1>2, <2>1, <3>3, WayNothing DEF Routing
  <2>2. CASE ~(ch.in = None /\ ch.out = None)
    <3>1. Routed(t.route[ch.row], ch.in, ch.out) = port
      BY <1>5, <1>7
    <3>2. x = Put(t, t.blocks, t.value, t.scened, t.expr,
                  [t.route EXCEPT ![ch.row] = Routed(t.route[ch.row], ch.in, ch.out)], t.split)
      BY <1>6, <3>1
    <3>3. Way(t, QcSetRouting(ch.row, ch.in, ch.out), x) /\ Tidy(x)
      BY <1>1, <1>2, <3>2, RouteWay, ZenonT(60)
    <3> QED
      BY <2>2, <3>3 DEF Routing
  <2> QED
    BY <2>1, <2>2
<1>9. PICK R : R = LaidRoute(C \cup {ch}) /\ R = [t.route EXCEPT ![ch.row] = port]
  BY <1>0, <1>3, <1>5
<1>10. /\ x.blocks = t.blocks /\ x.value = t.value /\ x.scened = {} /\ x.expr = {}
       /\ x.route = R /\ x.split = LaidSplit(C) /\ x.scene = t.scene /\ x.next = t.next
       /\ x \in Units
  <2>1. x \in Units
    BY <1>8, WayTyped, RoutingIsSeq
  <2>2. /\ x.blocks = t.blocks /\ x.value = t.value /\ x.scened = t.scened /\ x.expr = t.expr
        /\ x.route = R /\ x.split = t.split /\ x.scene = t.scene /\ x.next = t.next
    BY <1>2, <1>6, <1>9 DEF Put, Units
  <2> QED
    BY <1>3, <2>1, <2>2
<1>11. PICK y : y = Put(x, x.blocks, x.value, x.scened, x.expr, x.route, [x.split EXCEPT ![ch.row] = ch.split])
  OBVIOUS
<1>12. Settled(x)
  BY <1>2, <1>10 DEF Settled
<1>13. Way(x, Splitting(ch), y)
  <2>1. CASE ch.split = None
    <3>1. [x.split EXCEPT ![ch.row] = ch.split] = x.split
      <4>1. x.split \in [Rows -> Points \cup {None}]
        BY <1>10 DEF Units
      <4>2. x.split[ch.row] = ch.split
        BY <1>0, <1>10, <2>1
      <4> QED
        BY <1>1, <4>1, <4>2
    <3>2. y = x
      BY <1>10, <1>11, <3>1, PutSame
    <3> QED
      BY <1>10, <2>1, <3>2, WayNothing DEF Splitting
  <2>2. CASE ch.split # None
    <3>1. Way(x, QcSetSplit(ch.row, ch.split), y)
      BY <1>1, <1>8, <1>10, <1>11, <1>12, SplitWay
    <3> QED
      BY <2>2, <3>1 DEF Splitting
  <2> QED
    BY <2>1, <2>2
<1>14. y = Laid(u, C \cup {ch}, B)
  <2>1. [x.split EXCEPT ![ch.row] = ch.split] = LaidSplit(C \cup {ch})
    BY <1>0, <1>10
  <2>2. x = Put(u, t.blocks, t.value, t.scened, t.expr, R, t.split)
    BY <1>4, <1>6, <1>9, PutTwice
  <2>3. y = Put(u, LaidBlocks(B), LaidValue(B), {}, {}, R, LaidSplit(C \cup {ch}))
    BY <1>3, <1>10, <1>11, <2>1, <2>2, PutTwice
  <2> QED
    BY <1>9, <2>3, LaidIs
<1>15. Routing(ch) \in Seq(Steps(tool)) /\ Splitting(ch) \in Seq(Steps(tool))
  BY RoutingIsSeq
<1>16. Way(t, Routing(ch) \o Splitting(ch), y)
  BY <1>8, <1>13, <1>15, WayJoin
<1>17. Routing(ch) \o Splitting(ch) \in Seq(Steps(tool))
  BY <1>15, Joined
<1> QED
  BY <1>2, <1>14, <1>16, <1>17

\* The grid with one more block, at a cell of its own.
LEMMA BlockAdded ==
  ASSUME NEW B \in SUBSET BlockAt, NEW b \in BlockAt, At(B, b.cell) = {}
  PROVE  /\ LaidBlocks(B \cup {b}) = [LaidBlocks(B) EXCEPT ![b.cell] = b.device]
         /\ LaidValue(B \cup {b}) = [LaidValue(B) EXCEPT ![b.cell] = SpecValue(b.params)]
<1>1. At(B \cup {b}, b.cell) = {b}
  BY DEF At
<1>2. \A c : c # b.cell => At(B \cup {b}, c) = At(B, c)
  BY DEF At
<1>3. TheOne({b}) = b
  BY DEF TheOne
<1>4. b.cell \in Cells
  BY DEF BlockAt
<1>5. LaidBlocks(B \cup {b}) = [LaidBlocks(B) EXCEPT ![b.cell] = b.device]
  <2>1. \A c \in Cells : LaidBlocks(B \cup {b})[c] = IF c = b.cell THEN b.device ELSE LaidBlocks(B)[c]
    BY <1>1, <1>2, <1>3 DEF LaidBlocks
  <2> QED
    BY <1>4, <2>1 DEF LaidBlocks
<1>6. LaidValue(B \cup {b}) = [LaidValue(B) EXCEPT ![b.cell] = SpecValue(b.params)]
  <2>1. \A c \in Cells : LaidValue(B \cup {b})[c] = IF c = b.cell THEN SpecValue(b.params)
                                                    ELSE LaidValue(B)[c]
    BY <1>1, <1>2, <1>3 DEF LaidValue
  <2> QED
    BY <1>4, <2>1 DEF LaidValue
<1> QED
  BY <1>5, <1>6

\* The unit while the parameters of a cell are written.
Valuing(t, cell, values) == [t EXCEPT !.value[cell] = values]

\* Parameter by parameter, a block no parameter of which is assigned to scenes.
LEMMA ParamsWay ==
  ASSUME NEW t \in Units, Tidy(t), Settled(t), NEW cell \in Cells, t.blocks[cell] # None,
         t.scened = {}, t.value[cell] = Fresh, NEW params \in Seq(Params \X Values),
         \A i, j \in 1 .. Len(params) : params[i][1] = params[j][1] => i = j, NEW tool
  PROVE  /\ Way(t, QcSetParams(cell, params), Valuing(t, cell, SpecValue(params)))
         /\ QcSetParams(cell, params) \in Seq(Steps(tool))
<1>1. PICK n \in Nat : n = Len(params)
  BY LenProperties
<1> DEFINE f == [i \in 1 .. n |-> QcSetParam(cell, params[i][1], params[i][2])]
           g == [i \in 0 .. n |-> Valuing(t, cell, Partial(params, i))]
<1>2. ASSUME NEW i \in 0 .. n
      PROVE  /\ Partial(params, i) \in [Params -> [Scenes -> Values]]
             /\ Valuing(t, cell, Partial(params, i)) \in Units
             /\ Tidy(Valuing(t, cell, Partial(params, i)))
  <2>1. PICK h \in [Params -> [Scenes -> Values]] : h = Partial(params, i)
    BY <1>1, PartialIs
  <2>2. [t EXCEPT !.value[cell] = h] \in Units /\ Tidy([t EXCEPT !.value[cell] = h])
    BY LoadedTyped
  <2> QED
    BY <2>1, <2>2 DEF Valuing
<1>3. ASSUME NEW i \in 1 .. n
      PROVE  f[i] \in Seq(Steps(tool)) /\ Way(g[i - 1], f[i], g[i])
  <2>1. i - 1 \in 0 .. n /\ i \in 0 .. n /\ i \in 1 .. Len(params)
    BY <1>1
  <2>2. /\ params[i][1] \in Params /\ params[i][2] \in Values
        /\ Partial(params, i) =
             [Partial(params, i - 1) EXCEPT ![params[i][1]] = [s \in Scenes |-> params[i][2]]]
    BY <2>1, PartialNext
  <2>3. PICK p \in Params, z \in Values : p = params[i][1] /\ z = params[i][2]
    BY <2>2
  <2>4. PICK h \in [Params -> [Scenes -> Values]] : h = Partial(params, i - 1)
    BY <1>2, <2>1
  <2>5. PICK all : all = [s \in Scenes |-> z]
    OBVIOUS
  <2>6. Partial(params, i) = [h EXCEPT ![p] = all]
    BY <2>2, <2>3, <2>4, <2>5
  <2>7. PICK x : x = Valuing(t, cell, h) /\ x \in Units /\ Tidy(x)
    BY <1>2, <2>1, <2>4
  <2>8. /\ x = [t EXCEPT !.value[cell] = h]
        /\ x.blocks = t.blocks /\ x.scened = {} /\ x.scene = t.scene /\ x.next = t.next
        /\ x.value = [t.value EXCEPT ![cell] = h]
    BY <2>7 DEF Valuing, Units
  <2>9. Settled(x) /\ x.blocks[cell] # None
    BY <2>8 DEF Settled
  <2>10. Way(x, QcSetParam(cell, p, z), Written(x, cell, p, z))
    BY <2>7, <2>9, ParamWay
  <2>11. Written(x, cell, p, z) = Valuing(t, cell, [h EXCEPT ![p] = all])
    <3>1. \A s : <<cell, p>> \notin x.scened
      BY <2>8
    <3>2. Written(x, cell, p, z) = [x EXCEPT !.value[cell][p] = all]
      BY <2>5, <3>1 DEF Written
    <3>3. x.value[cell] = h
      BY <2>8 DEF Units
    <3>4. [x EXCEPT !.value[cell][p] = all] = [x EXCEPT !.value[cell] = [h EXCEPT ![p] = all]]
      BY <3>3
    <3>5. PICK k : k = [h EXCEPT ![p] = all]
      OBVIOUS
    <3>6. [x EXCEPT !.value[cell] = k] = [t EXCEPT !.value[cell] = k]
      BY <2>8, ZenonT(60) DEF Units
    <3> QED
      BY <3>2, <3>4, <3>5, <3>6 DEF Valuing
  <2>12. f[i] = QcSetParam(cell, p, z)
    BY <2>3
  <2>13. QcSetParam(cell, p, z) \in Seq(Steps(tool))
    <3>1. \A c \in Commands : Sent(c) \in Steps(tool)
      BY StepsThere
    <3> QED
      BY <3>1, EditTyped
  <2>14. g[i - 1] = x
    BY <2>1, <2>4, <2>7
  <2>15. g[i] = Valuing(t, cell, [h EXCEPT ![p] = all])
    BY <2>1, <2>6
  <2> QED
    BY <2>10, <2>11, <2>12, <2>13, <2>14, <2>15
<1>4. f \in [1 .. n -> Seq(Steps(tool))] /\ g \in [0 .. n -> Units]
  <2>1. g \in [0 .. n -> Units]
    BY <1>2
  <2>2. f \in [1 .. n -> Seq(Steps(tool))]
    BY <1>3
  <2> QED
    BY <2>1, <2>2
<1>5. \A k \in 1 .. n : Way(g[k - 1], f[k], g[k])
  BY <1>3
<1>6. g[0] = t /\ g[n] = Valuing(t, cell, SpecValue(params))
  <2>1. 0 \in 0 .. n /\ n \in 0 .. n
    OBVIOUS
  <2>2. Partial(params, 0) = t.value[cell] /\ Partial(params, n) = SpecValue(params)
    BY <1>1, PartialIs
  <2>3. Valuing(t, cell, t.value[cell]) = t
    BY DEF Valuing, Units
  <2> QED
    BY <2>1, <2>2, <2>3
<1>7. PICK F : F = f
  OBVIOUS
<1>8. PICK G : G = g
  OBVIOUS
<1>9. Way(G[0], FlattenSeq(F), G[n]) /\ FlattenSeq(F) \in Seq(Steps(tool))
  BY <1>4, <1>5, <1>7, <1>8, WayFlatten, AllJoined
<1>10. QcSetParams(cell, params) = FlattenSeq(F)
  BY <1>1, <1>7 DEF QcSetParams
<1> QED
  BY <1>6, <1>8, <1>9, <1>10

\* A block with its parameters.
Blocking(b) == QcAddBlock(b.cell, b.device) \o QcSetParams(b.cell, b.params)

\* The way of a block, at a cell of its own.
LEMMA BlockWay ==
  ASSUME NEW u \in Units, Settled(u), NEW C \in SUBSET Chain, NEW B \in SUBSET BlockAt,
         NEW b \in BlockAt, At(B, b.cell) = {},
         \A i, j \in 1 .. Len(b.params) : b.params[i][1] = b.params[j][1] => i = j, NEW tool
  PROVE  /\ Way(Laid(u, C, B), Blocking(b), Laid(u, C, B \cup {b}))
         /\ Blocking(b) \in Seq(Steps(tool))
<1>0. /\ LaidBlocks(B \cup {b}) = [LaidBlocks(B) EXCEPT ![b.cell] = b.device]
      /\ LaidValue(B \cup {b}) = [LaidValue(B) EXCEPT ![b.cell] = SpecValue(b.params)]
  BY BlockAdded, Zenon
<1>1. PICK cell \in Cells, d \in Devices, params \in Seq(Params \X Values) :
        cell = b.cell /\ d = b.device /\ params = b.params
  BY DEF BlockAt
<1>2. PICK t : /\ t = Laid(u, C, B) /\ Tidy(t) /\ Settled(t) /\ t \in Units
               /\ Holds(t, u, LaidBlocks(B), LaidValue(B), {}, {}, LaidRoute(C), LaidSplit(C))
  BY LaidTyped
<1>3. /\ t.blocks = LaidBlocks(B) /\ t.value = LaidValue(B) /\ t.scened = {} /\ t.expr = {}
      /\ t.route = LaidRoute(C) /\ t.split = LaidSplit(C)
  BY <1>2 DEF Holds
<1>4. t = Put(u, LaidBlocks(B), LaidValue(B), {}, {}, LaidRoute(C), LaidSplit(C))
  BY <1>2, LaidIs
<1>5. PICK K : K = [t.blocks EXCEPT ![cell] = d]
  OBVIOUS
<1>6. PICK V : V = [t.value EXCEPT ![cell] = Fresh]
  OBVIOUS
<1>7. PICK x : x = Put(t, K, V, {}, {}, t.route, t.split)
  OBVIOUS
<1>8. Way(t, QcAddBlock(cell, d), x) /\ Tidy(x)
  <2>1. Elsewhere({}, {cell}) = {}
    BY DEF Elsewhere
  <2>2. Cleared(t, cell, d) = x
    <3>1. Cleared(t, cell, d) =
            Put(t, [t.blocks EXCEPT ![cell] = d], [t.value EXCEPT ![cell] = Fresh],
                Elsewhere(t.scened, {cell}), Elsewhere(t.expr, {cell}), t.route, t.split)
      BY <1>2, ClearedIs
    <3>2. Elsewhere(t.scened, {cell}) = {} /\ Elsewhere(t.expr, {cell}) = {}
      BY <1>3, <2>1
    <3> QED
      BY <1>5, <1>6, <1>7, <3>1, <3>2
  <2>3. Way(t, QcAddBlock(cell, d), Cleared(t, cell, d)) /\ Tidy(Cleared(t, cell, d))
    BY <1>2, AddWay
  <2> QED
    BY <2>2, <2>3
<1>9. QcAddBlock(cell, d) \in Seq(Steps(tool))
  <2>1. \A c \in Commands : Sent(c) \in Steps(tool)
    BY StepsThere
  <2> QED
    BY <2>1, EditTyped
<1>10. x \in Units
  BY <1>8, <1>9, WayTyped
<1>11. /\ x.blocks = K /\ x.value = V /\ x.scened = {} /\ x.expr = {}
       /\ x.route = t.route /\ x.split = t.split /\ x.scene = t.scene /\ x.next = t.next
  BY <1>2, <1>7 DEF Put, Units
<1>12. x.blocks[cell] # None /\ x.value[cell] = Fresh /\ Settled(x)
  <2>1. None \notin Devices
    BY UnitAssumption DEF UnitAssumption
  <2>2. t.blocks \in Blocks /\ t.value \in [Cells -> [Params -> [Scenes -> Values]]]
    BY <1>2 DEF Units
  <2>3. K[cell] = d /\ V[cell] = Fresh
    BY <1>5, <1>6, <2>2 DEF Blocks
  <2> QED
    BY <1>2, <1>11, <2>1, <2>3 DEF Settled
<1>13. PICK y : y = Valuing(x, cell, SpecValue(params))
  OBVIOUS
<1>14. Way(x, QcSetParams(cell, params), y) /\ QcSetParams(cell, params) \in Seq(Steps(tool))
  <2>1. \A i, j \in 1 .. Len(params) : params[i][1] = params[j][1] => i = j
    BY <1>1
  <2> QED
    BY <1>8, <1>10, <1>11, <1>12, <1>13, <2>1, ParamsWay
<1>15. PICK W : W = [V EXCEPT ![cell] = SpecValue(params)]
  OBVIOUS
<1>16. y = Put(x, x.blocks, W, x.scened, x.expr, x.route, x.split)
  <2>1. y = [x EXCEPT !.value = W]
    BY <1>11, <1>13, <1>15 DEF Valuing
  <2> QED
    BY <1>10, <2>1 DEF Put, Units
<1>17. W = LaidValue(B \cup {b}) /\ K = LaidBlocks(B \cup {b})
  <2>1. W = [t.value EXCEPT ![cell] = SpecValue(params)]
    BY <1>6, <1>15
  <2> QED
    BY <1>0, <1>1, <1>3, <1>5, <2>1
<1>18. y = Laid(u, C, B \cup {b})
  <2>1. x = Put(u, K, V, {}, {}, t.route, t.split)
    BY <1>4, <1>7, PutTwice
  <2>2. y = Put(u, K, W, {}, {}, t.route, t.split)
    BY <1>11, <1>16, <2>1, PutTwice
  <2>3. y = Put(u, LaidBlocks(B \cup {b}), LaidValue(B \cup {b}), {}, {}, LaidRoute(C), LaidSplit(C))
    BY <1>3, <1>17, <2>2
  <2> QED
    BY <2>3, LaidIs
<1>19. Way(t, QcAddBlock(cell, d) \o QcSetParams(cell, params), y)
       /\ QcAddBlock(cell, d) \o QcSetParams(cell, params) \in Seq(Steps(tool))
  BY <1>8, <1>9, <1>14, WayJoin, Joined
<1>20. Blocking(b) = QcAddBlock(cell, d) \o QcSetParams(cell, params)
  BY <1>1 DEF Blocking
<1> QED
  BY <1>2, <1>18, <1>19, <1>20

\* The block at a place of a chain, and those at the first k places.
BlockOf(ch, i) ==
  [cell |-> <<ch.row, ch.blocks[i].col>>, device |-> ch.blocks[i].device, params |-> ch.blocks[i].params]
FirstOf(ch, k) == {BlockOf(ch, i) : i \in 1 .. k}

\* They are blocks of the chain's row, and in the end all of them.
LEMMA FirstOfIs ==
  ASSUME NEW ch \in Chain
  PROVE  /\ \A i \in 1 .. Len(ch.blocks) : BlockOf(ch, i) \in BlockAt /\ BlockOf(ch, i).cell[1] = ch.row
         /\ \A k \in 0 .. Len(ch.blocks) : FirstOf(ch, k) \in SUBSET BlockAt
         /\ \A k \in 1 .. Len(ch.blocks) : FirstOf(ch, k) = FirstOf(ch, k - 1) \cup {BlockOf(ch, k)}
         /\ FirstOf(ch, 0) = {} /\ FirstOf(ch, Len(ch.blocks)) = Placed(ch)
<1>1. PICK n \in Nat : n = Len(ch.blocks)
  BY LenProperties DEF Chain
<1>2. ASSUME NEW i \in 1 .. n PROVE BlockOf(ch, i) \in BlockAt /\ BlockOf(ch, i).cell[1] = ch.row
  <2>1. ch.blocks[i] \in BlockSpec
    BY <1>1, ElementOfSeq DEF Chain
  <2>2. <<ch.row, ch.blocks[i].col>> \in Cells
    BY <2>1, GridCounted DEF Chain, BlockSpec
  <2>3. ch.blocks[i].device \in Devices /\ ch.blocks[i].params \in Seq(Params \X Values)
    BY <2>1 DEF BlockSpec
  <2> QED
    BY <2>2, <2>3 DEF BlockOf, BlockAt
<1>3. \A k \in 0 .. n : FirstOf(ch, k) \in SUBSET BlockAt
  BY <1>2 DEF FirstOf
<1>4. \A k \in 1 .. n : FirstOf(ch, k) = FirstOf(ch, k - 1) \cup {BlockOf(ch, k)}
  <2> TAKE k \in 1 .. n
  <2>1. \A i : i \in 1 .. k <=> i \in 1 .. k - 1 \/ i = k
    OBVIOUS
  <2> QED
    BY <2>1, Zenon DEF FirstOf
<1>5. FirstOf(ch, 0) = {}
  BY DEF FirstOf
<1>6. FirstOf(ch, n) = Placed(ch)
  <2>1. ch.blocks \in Seq(BlockSpec)
    BY DEF Chain
  <2>2. DOMAIN ch.blocks = 1 .. n
    BY <1>1, <2>1, LenProperties
  <2>3. ToSet(ch.blocks) = {ch.blocks[i] : i \in 1 .. n}
    BY <2>2 DEF ToSet
  <2>4. \A b : b \in Placed(ch) <=> \E i \in 1 .. n : b = BlockOf(ch, i)
    BY <2>3, Zenon DEF Placed, BlockOf
  <2>5. \A b : b \in FirstOf(ch, n) <=> \E i \in 1 .. n : b = BlockOf(ch, i)
    BY Zenon DEF FirstOf
  <2> QED
    BY <2>4, <2>5, Zenon
<1> QED
  BY <1>1, <1>2, <1>3, <1>4, <1>5, <1>6

\* A chain that names each cell and each parameter once.
Apart(ch) ==
  /\ \A j, k \in 1 .. Len(ch.blocks) : ch.blocks[j].col = ch.blocks[k].col => j = k
  /\ \A l \in 1 .. Len(ch.blocks) : \A j, k \in 1 .. Len(ch.blocks[l].params) :
       ch.blocks[l].params[j][1] = ch.blocks[l].params[k][1] => j = k

\* The way of a chain, on a row of its own.
LEMMA ChainWay ==
  ASSUME NEW u \in Units, Settled(u), NEW C \in SUBSET Chain, NEW B \in SUBSET BlockAt,
         NEW ch \in Chain, \A x \in C : x.row # ch.row, \A b \in B : b.cell[1] # ch.row,
         Apart(ch), NEW tool
  PROVE  /\ Way(Laid(u, C, B), BuildChain(ch), Laid(u, C \cup {ch}, B \cup Placed(ch)))
         /\ BuildChain(ch) \in Seq(Steps(tool))
<1>1. PICK n \in Nat : n = Len(ch.blocks)
  BY LenProperties DEF Chain
<1>2. PICK D : D = C \cup {ch} /\ D \in SUBSET Chain
  OBVIOUS
<1>3. PICK a : /\ a = Routing(ch) \o Splitting(ch)
               /\ Way(Laid(u, C, B), a, Laid(u, D, B)) /\ a \in Seq(Steps(tool))
  BY <1>2, ChainHeadWay
<1>4. /\ \A i \in 1 .. n : BlockOf(ch, i) \in BlockAt /\ BlockOf(ch, i).cell[1] = ch.row
      /\ \A k \in 0 .. n : FirstOf(ch, k) \in SUBSET BlockAt
      /\ \A k \in 1 .. n : FirstOf(ch, k) = FirstOf(ch, k - 1) \cup {BlockOf(ch, k)}
      /\ FirstOf(ch, 0) = {} /\ FirstOf(ch, n) = Placed(ch)
  BY <1>1, FirstOfIs
<1> DEFINE f == [i \in 1 .. n |-> Blocking(BlockOf(ch, i))]
           g == [i \in 0 .. n |-> Laid(u, D, B \cup FirstOf(ch, i))]
<1>5. ASSUME NEW k \in 1 .. n
      PROVE  f[k] \in Seq(Steps(tool)) /\ Way(g[k - 1], f[k], g[k])
  <2>1. k - 1 \in 0 .. n /\ k \in 0 .. n
    OBVIOUS
  <2>2. PICK F \in SUBSET BlockAt : F = B \cup FirstOf(ch, k - 1)
    BY <1>4, <2>1
  <2>3. PICK b \in BlockAt : b = BlockOf(ch, k)
    BY <1>4
  <2>4. b.cell = <<ch.row, ch.blocks[k].col>> /\ b.params = ch.blocks[k].params
    BY <2>3 DEF BlockOf
  <2>5. At(F, b.cell) = {}
    <3>1. \A y \in B : y.cell # b.cell
      BY <2>4
    <3>2. \A i \in 1 .. k - 1 : BlockOf(ch, i).cell # b.cell
      <4> TAKE i \in 1 .. k - 1
      <4>1. i \in 1 .. n /\ i # k
        OBVIOUS
      <4>2. ch.blocks[i].col # ch.blocks[k].col
        BY <1>1, <4>1 DEF Apart
      <4>3. BlockOf(ch, i).cell = <<ch.row, ch.blocks[i].col>>
        BY DEF BlockOf
      <4> QED
        BY <2>4, <4>2, <4>3
    <3>3. \A y \in FirstOf(ch, k - 1) : y.cell # b.cell
      BY <3>2 DEF FirstOf
    <3> QED
      BY <2>2, <3>1, <3>3 DEF At
  <2>6. \A i, j \in 1 .. Len(b.params) : b.params[i][1] = b.params[j][1] => i = j
    BY <1>1, <2>4 DEF Apart
  <2>7. Way(Laid(u, D, F), Blocking(b), Laid(u, D, F \cup {b})) /\ Blocking(b) \in Seq(Steps(tool))
    BY <1>2, <2>5, <2>6, BlockWay
  <2>8. F \cup {b} = B \cup FirstOf(ch, k)
    BY <1>4, <2>2, <2>3
  <2>9. g[k - 1] = Laid(u, D, F) /\ g[k] = Laid(u, D, F \cup {b}) /\ f[k] = Blocking(b)
    BY <2>1, <2>2, <2>3, <2>8
  <2> QED
    BY <2>7, <2>9
<1>6. f \in [1 .. n -> Seq(Steps(tool))] /\ g \in [0 .. n -> Units]
  <2>1. \A k \in 0 .. n : Laid(u, D, B \cup FirstOf(ch, k)) \in Units
    <3> TAKE k \in 0 .. n
    <3>1. PICK F \in SUBSET BlockAt : F = B \cup FirstOf(ch, k)
      BY <1>4
    <3> QED
      BY <1>2, <3>1, LaidTyped
  <2>2. g \in [0 .. n -> Units]
    BY <2>1
  <2>3. f \in [1 .. n -> Seq(Steps(tool))]
    BY <1>5
  <2> QED
    BY <2>2, <2>3
<1>7. \A k \in 1 .. n : Way(g[k - 1], f[k], g[k])
  BY <1>5
<1>8. g[0] = Laid(u, D, B) /\ g[n] = Laid(u, D, B \cup Placed(ch))
  <2>1. 0 \in 0 .. n /\ n \in 0 .. n
    OBVIOUS
  <2>2. B \cup FirstOf(ch, 0) = B
    BY <1>4
  <2> QED
    BY <1>4, <2>1, <2>2
<1>9. PICK F : F = f
  OBVIOUS
<1>10. PICK G : G = g
  OBVIOUS
<1>11. Way(G[0], FlattenSeq(F), G[n]) /\ FlattenSeq(F) \in Seq(Steps(tool))
  BY <1>6, <1>7, <1>9, <1>10, WayFlatten, AllJoined
<1>12. BuildChain(ch) = a \o FlattenSeq(F)
  <2>1. f = [i \in 1 .. Len(ch.blocks) |->
               QcAddBlock(<<ch.row, ch.blocks[i].col>>, ch.blocks[i].device)
               \o QcSetParams(<<ch.row, ch.blocks[i].col>>, ch.blocks[i].params)]
    BY <1>1 DEF Blocking, BlockOf
  <2> QED
    BY <1>3, <1>9, <2>1 DEF BuildChain, Routing, Splitting
<1>13. Way(Laid(u, C, B), a \o FlattenSeq(F), Laid(u, D, B \cup Placed(ch)))
  BY <1>3, <1>8, <1>10, <1>11, WayJoin
<1>14. a \o FlattenSeq(F) \in Seq(Steps(tool))
  BY <1>3, <1>11, Joined
<1> QED
  BY <1>2, <1>12, <1>13, <1>14

\* A chain's blocks are on its row.
LEMMA PlacedIs ==
  ASSUME NEW ch \in Chain
  PROVE  Placed(ch) \in SUBSET BlockAt /\ \A b \in Placed(ch) : b.cell[1] = ch.row
<1>1. PICK n \in Nat : n = Len(ch.blocks)
  BY LenProperties DEF Chain
<1>2. /\ \A i \in 1 .. n : BlockOf(ch, i) \in BlockAt /\ BlockOf(ch, i).cell[1] = ch.row
      /\ FirstOf(ch, n) = Placed(ch)
  BY <1>1, FirstOfIs
<1>3. \A b \in Placed(ch) : \E i \in 1 .. n : b = BlockOf(ch, i)
  BY <1>2 DEF FirstOf
<1> QED
  BY <1>2, <1>3

\* The first k chains, and their blocks.
ChainsTo(spec, k) == {spec[i] : i \in 1 .. k}
BlocksTo(spec, k) == UNION {Placed(spec[i]) : i \in 1 .. k}

\* In the end all of them.
LEMMA ChainsToIs ==
  ASSUME NEW spec \in Seq(Chain)
  PROVE  /\ \A k \in 0 .. Len(spec) : ChainsTo(spec, k) \in SUBSET Chain
                                      /\ BlocksTo(spec, k) \in SUBSET BlockAt
         /\ \A k \in 1 .. Len(spec) : /\ ChainsTo(spec, k) = ChainsTo(spec, k - 1) \cup {spec[k]}
                                      /\ BlocksTo(spec, k) = BlocksTo(spec, k - 1) \cup Placed(spec[k])
         /\ ChainsTo(spec, 0) = {} /\ BlocksTo(spec, 0) = {}
         /\ ChainsTo(spec, Len(spec)) = ToSet(spec) /\ BlocksTo(spec, Len(spec)) = BlockSpecs(spec)
<1>1. PICK n \in Nat : n = Len(spec)
  BY LenProperties
<1>2. \A i \in 1 .. n : spec[i] \in Chain
  BY <1>1, ElementOfSeq
<1>3. \A i \in 1 .. n : Placed(spec[i]) \in SUBSET BlockAt
  BY <1>2, PlacedIs
<1>4. \A k \in 0 .. n : ChainsTo(spec, k) \in SUBSET Chain /\ BlocksTo(spec, k) \in SUBSET BlockAt
  <2> TAKE k \in 0 .. n
  <2>1. \A i \in 1 .. k : i \in 1 .. n
    OBVIOUS
  <2> QED
    BY <1>2, <1>3, <2>1 DEF ChainsTo, BlocksTo
<1>5. \A k \in 1 .. n : /\ ChainsTo(spec, k) = ChainsTo(spec, k - 1) \cup {spec[k]}
                        /\ BlocksTo(spec, k) = BlocksTo(spec, k - 1) \cup Placed(spec[k])
  <2> TAKE k \in 1 .. n
  <2>1. \A i : i \in 1 .. k <=> i \in 1 .. k - 1 \/ i = k
    OBVIOUS
  <2>2. ChainsTo(spec, k) = ChainsTo(spec, k - 1) \cup {spec[k]}
    BY <2>1, Zenon DEF ChainsTo
  <2>3. \A b : b \in BlocksTo(spec, k) <=> \E i \in 1 .. k : b \in Placed(spec[i])
    BY Zenon DEF BlocksTo
  <2>4. \A b : b \in BlocksTo(spec, k - 1) <=> \E i \in 1 .. k - 1 : b \in Placed(spec[i])
    BY Zenon DEF BlocksTo
  <2>5. BlocksTo(spec, k) = BlocksTo(spec, k - 1) \cup Placed(spec[k])
    BY <2>1, <2>3, <2>4, Zenon
  <2> QED
    BY <2>2, <2>5
<1>6. ChainsTo(spec, 0) = {} /\ BlocksTo(spec, 0) = {}
  BY DEF ChainsTo, BlocksTo
<1>7. DOMAIN spec = 1 .. n
  BY <1>1, LenProperties
<1>8. ChainsTo(spec, n) = ToSet(spec)
  BY <1>7, Zenon DEF ChainsTo, ToSet
<1>9. BlocksTo(spec, n) = BlockSpecs(spec)
  <2>1. \A b : b \in BlocksTo(spec, n) <=> \E i \in 1 .. n : b \in Placed(spec[i])
    BY Zenon DEF BlocksTo
  <2>2. \A b : b \in BlockSpecs(spec) <=> \E ch \in ToSet(spec) : b \in Placed(ch)
    BY Zenon DEF BlockSpecs
  <2>3. \A ch : ch \in ToSet(spec) <=> \E i \in 1 .. n : ch = spec[i]
    BY <1>7, Zenon DEF ToSet
  <2> QED
    BY <2>1, <2>2, <2>3, Zenon
<1> QED
  BY <1>1, <1>4, <1>5, <1>6, <1>8, <1>9

\* The way of a spec.
LEMMA SpecWay ==
  ASSUME NEW u \in Units, Settled(u), NEW spec \in Seq(Chain), Plain(spec), NEW tool
  PROVE  /\ Way(Laid(u, {}, {}), FlattenSeq([i \in 1 .. Len(spec) |-> BuildChain(spec[i])]),
                Built(u, spec))
         /\ FlattenSeq([i \in 1 .. Len(spec) |-> BuildChain(spec[i])]) \in Seq(Steps(tool))
<1>1. PICK n \in Nat : n = Len(spec)
  BY LenProperties
<1>2. \A i \in 1 .. n : spec[i] \in Chain
  BY <1>1, ElementOfSeq
<1>3. /\ \A k \in 0 .. n : ChainsTo(spec, k) \in SUBSET Chain /\ BlocksTo(spec, k) \in SUBSET BlockAt
      /\ \A k \in 1 .. n : /\ ChainsTo(spec, k) = ChainsTo(spec, k - 1) \cup {spec[k]}
                           /\ BlocksTo(spec, k) = BlocksTo(spec, k - 1) \cup Placed(spec[k])
      /\ ChainsTo(spec, 0) = {} /\ BlocksTo(spec, 0) = {}
      /\ ChainsTo(spec, n) = ToSet(spec) /\ BlocksTo(spec, n) = BlockSpecs(spec)
  BY <1>1, ChainsToIs
<1> DEFINE f == [i \in 1 .. n |-> BuildChain(spec[i])]
           g == [i \in 0 .. n |-> Laid(u, ChainsTo(spec, i), BlocksTo(spec, i))]
<1>4. ASSUME NEW k \in 1 .. n
      PROVE  f[k] \in Seq(Steps(tool)) /\ Way(g[k - 1], f[k], g[k])
  <2>1. k - 1 \in 0 .. n /\ k \in 0 .. n
    OBVIOUS
  <2>2. PICK C \in SUBSET Chain : C = ChainsTo(spec, k - 1)
    BY <1>3, <2>1
  <2>3. PICK B \in SUBSET BlockAt : B = BlocksTo(spec, k - 1)
    BY <1>3, <2>1
  <2>4. PICK ch \in Chain : ch = spec[k]
    BY <1>2
  <2>5. \A i \in 1 .. k - 1 : i \in 1 .. n /\ spec[i].row # ch.row
    BY <1>1, <2>4 DEF Plain
  <2>6. \A x \in C : x.row # ch.row
    BY <2>2, <2>5 DEF ChainsTo
  <2>7. \A b \in B : b.cell[1] # ch.row
    <3>1. \A i \in 1 .. k - 1 : \A b \in Placed(spec[i]) : b.cell[1] = spec[i].row
      BY <1>2, <2>5, PlacedIs
    <3>2. \A b \in B : \E i \in 1 .. k - 1 : b \in Placed(spec[i])
      BY <2>3, Zenon DEF BlocksTo
    <3> QED
      BY <2>5, <3>1, <3>2
  <2>8. Apart(ch)
    BY <1>1, <2>4 DEF Plain, Apart
  <2>9. /\ Way(Laid(u, C, B), BuildChain(ch), Laid(u, C \cup {ch}, B \cup Placed(ch)))
        /\ BuildChain(ch) \in Seq(Steps(tool))
    BY <2>6, <2>7, <2>8, ChainWay
  <2>10. C \cup {ch} = ChainsTo(spec, k) /\ B \cup Placed(ch) = BlocksTo(spec, k)
    BY <1>3, <2>2, <2>3, <2>4
  <2>11. /\ g[k - 1] = Laid(u, C, B) /\ g[k] = Laid(u, C \cup {ch}, B \cup Placed(ch))
         /\ f[k] = BuildChain(ch)
    BY <2>1, <2>2, <2>3, <2>4, <2>10
  <2> QED
    BY <2>9, <2>11
<1>5. f \in [1 .. n -> Seq(Steps(tool))] /\ g \in [0 .. n -> Units]
  <2>1. \A k \in 0 .. n : Laid(u, ChainsTo(spec, k), BlocksTo(spec, k)) \in Units
    BY <1>3, LaidTyped
  <2>2. g \in [0 .. n -> Units]
    BY <2>1
  <2>3. f \in [1 .. n -> Seq(Steps(tool))]
    BY <1>4
  <2> QED
    BY <2>2, <2>3
<1>6. \A k \in 1 .. n : Way(g[k - 1], f[k], g[k])
  BY <1>4
<1>7. g[0] = Laid(u, {}, {}) /\ g[n] = Built(u, spec)
  <2>1. 0 \in 0 .. n /\ n \in 0 .. n
    OBVIOUS
  <2> QED
    BY <1>3, <2>1 DEF Built
<1>8. PICK F : F = f
  OBVIOUS
<1>9. PICK G : G = g
  OBVIOUS
<1>10. Way(G[0], FlattenSeq(F), G[n]) /\ FlattenSeq(F) \in Seq(Steps(tool))
  BY <1>5, <1>6, <1>8, <1>9, WayFlatten, AllJoined
<1>11. [i \in 1 .. Len(spec) |-> BuildChain(spec[i])] = F
  BY <1>1, <1>8
<1> QED
  BY <1>7, <1>9, <1>10, <1>11

-----------------------------------------------------------------------------
(* The tools that read first *)

\* What comes after the read in the scripts of these tools.
Chaining(c) == FlattenSeq([i \in 1 .. Len(c.spec) |-> BuildChain(c.spec[i])])
Afterwards(c) == IF c.tool = "build_preset" THEN Chaining(c) \o <<Read("preset", "show")>> ELSE <<>>

\* The script begins with the read.
LEMMA ScriptOpens ==
  ASSUME NEW c \in Calls, NEW u, Promises(c, u), c.tool # "set_parameter_scenes"
  PROVE  Script(c) = <<Opening(c)>> \o Afterwards(c) /\ Afterwards(c) \in Seq(Steps(c.tool))
<1>1. c.tool \in Promising
  BY DEF Promises
<1>2. PICK S : S = Steps(c.tool)
  OBVIOUS
<1>3. PICK step : step = Opening(c) /\ step \in S
  BY <1>1, <1>2, OpeningIs
<1>4. <<step>> \in Seq(S) /\ <<>> \in Seq(S) /\ <<step>> \o <<>> = <<step>>
  <2>1. <<step>> \in Seq(S)
    BY <1>3, OneIsSeq
  <2> QED
    BY <2>1, ConcatEmptySeq, EmptySeq
<1>5. CASE c.tool = "build_preset"
  <2>1. c.clear /\ c.spec \in Seq(Chain)
    BY <1>5 DEF Promises, Calls
  <2>2. step = Read("preset", "clear")
    BY <1>3, <1>5 DEF Opening
  <2>3. PICK chains \in Seq(S) : chains = Chaining(c)
    <3>1. \A y \in Commands : Sent(y) \in S
      BY <1>2, StepsThere
    <3> QED
      BY <2>1, <3>1, ChainsTyped DEF Chaining
  <2>4. PICK show \in Seq(S) : show = <<Read("preset", "show")>>
    BY <1>2, ReadsThere DEF Topics
  <2>5. Script(c) = (<<step>> \o chains) \o show
    BY <1>5, <2>1, <2>2, <2>3, <2>4 DEF Script, BuildPreset, Chaining
  <2>6. (<<step>> \o chains) \o show = <<step>> \o (chains \o show)
    <3>1. PICK a \in Seq(S) : a = <<step>>
      BY <1>4
    <3>2. (a \o chains) \o show = a \o (chains \o show)
      BY <2>3, <2>4, ConcatAssociative
    <3> QED
      BY <3>1, <3>2
  <2>7. Afterwards(c) = chains \o show /\ chains \o show \in Seq(S)
    BY <1>5, <2>3, <2>4, Joined DEF Afterwards
  <2> QED
    BY <1>2, <1>3, <2>5, <2>6, <2>7
<1>6. CASE c.tool # "build_preset"
  <2>1. Afterwards(c) = <<>>
    BY <1>6 DEF Afterwards
  <2>2. c.tool = "set_block_bypass" => c.scenes # <<>>
    BY DEF Promises
  <2>3. Script(c) = <<step>>
    <3>1. CASE c.tool = "clear_grid"
      BY <1>3, <3>1 DEF Opening, Script, ClearGrid
    <3>2. CASE c.tool = "set_block_bypass"
      BY <1>3, <2>2, <3>2 DEF Opening, Script, SetBlockBypass
    <3>3. CASE c.tool = "assign_stomp"
      BY <1>3, <3>3 DEF Opening, Script, AssignStomp
    <3>4. CASE c.tool = "save_device_preset"
      BY <1>3, <3>4 DEF Opening, Script, SaveDevicePreset
    <3>5. CASE c.tool = "switch_mode"
      BY <1>3, <3>5 DEF Opening, Script, SwitchMode
    <3> QED
      BY <1>1, <1>6, <3>1, <3>2, <3>3, <3>4, <3>5 DEF Promising
  <2> QED
    BY <1>2, <1>3, <1>4, <2>1, <2>3
<1> QED
  BY <1>5, <1>6

\* build_preset() clears the grid it found, and lays out the spec.
LEMMA BuildDecided ==
  ASSUME NEW w, NEW c \in Calls, NEW u \in Units, Tidy(u), Settled(u), Promises(c, u),
         c.tool = "build_preset"
  PROVE  Way(u, AfterRead(w, "clear", Told(u, "preset"), Afterwards(c)), Promised(c, u))
<1>1. c.clear /\ c.spec \in Seq(Chain) /\ Plain(c.spec)
  BY DEF Promises, Calls
<1>2. PICK S : S = Steps(c.tool)
  OBVIOUS
<1>3. PICK x : x = Told(u, "preset") /\ x # None /\ x.blocks = u.blocks
  <2>1. Told(u, "preset") # None
    BY BlockIs
  <2>2. Told(u, "preset") = [blocks |-> u.blocks]
    BY DEF Told
  <2> QED
    BY <2>1, <2>2
<1>4. PICK t : t = Laid(u, {}, {})
  OBVIOUS
<1>5. PICK a \in Seq(S) : a = QcClearGrid(u.blocks) /\ Way(u, a, t)
  BY <1>2, <1>4, ClearWay
<1>6. PICK b \in Seq(S) : b = Chaining(c) /\ Way(t, b, Built(u, c.spec))
  BY <1>1, <1>2, <1>4, SpecWay DEF Chaining
<1>7. PICK show \in Seq(S) : show = <<Read("preset", "show")>>
  BY <1>2, ReadsThere DEF Topics
<1>8. PICK v \in Units : v = Built(u, c.spec)
  BY <1>6, WayTyped
<1>9. Way(v, show, v)
  BY <1>7, <1>8, ReadWay DEF Topics, Passive
<1>10. Way(t, b \o show, v) /\ b \o show \in Seq(S)
  BY <1>6, <1>8, <1>9, WayJoin, Joined
<1>11. Way(u, a \o (b \o show), v)
  BY <1>5, <1>10, WayJoin
<1>12. Afterwards(c) = b \o show
  BY <1>6, <1>7 DEF Afterwards
<1>13. AfterRead(w, "clear", x, b \o show) = a \o (b \o show)
  BY <1>3, <1>5 DEF AfterRead
<1>14. Promised(c, u) = v
  BY <1>8 DEF Promised
<1> QED
  BY <1>3, <1>11, <1>12, <1>13, <1>14

\* clear_grid() clears the grid it found.
LEMMA ClearDecided ==
  ASSUME NEW w, NEW c \in Calls, NEW u \in Units, Tidy(u), Settled(u), c.tool = "clear_grid"
  PROVE  Way(u, AfterRead(w, "clear", Told(u, "preset"), <<>>), Promised(c, u))
<1>1. PICK S : S = Steps(c.tool)
  OBVIOUS
<1>2. PICK x : x = Told(u, "preset") /\ x # None /\ x.blocks = u.blocks
  <2>1. Told(u, "preset") # None
    BY BlockIs
  <2>2. Told(u, "preset") = [blocks |-> u.blocks]
    BY DEF Told
  <2> QED
    BY <2>1, <2>2
<1>3. PICK a \in Seq(S) : a = QcClearGrid(u.blocks) /\ Way(u, a, Laid(u, {}, {}))
  BY <1>1, ClearWay
<1>4. AfterRead(w, "clear", x, <<>>) = a
  <2>1. AfterRead(w, "clear", x, <<>>) = a \o <<>>
    BY <1>2, <1>3 DEF AfterRead
  <2> QED
    BY <1>3, <2>1, ConcatEmptySeq
<1>5. Promised(c, u) = Laid(u, {}, {})
  <2>1. Promised(c, u) = Built(u, <<>>)
    BY DEF Promised
  <2>2. ToSet(<<>>) = {}
    BY DEF ToSet
  <2>3. BlockSpecs(<<>>) = {}
    BY <2>2 DEF BlockSpecs
  <2> QED
    BY <2>1, <2>2, <2>3 DEF Built
<1> QED
  BY <1>2, <1>3, <1>4, <1>5

\* What each of these tools decides on what it read comes to its promise.
LEMMA DecidedWay ==
  ASSUME NEW w, NEW c \in Calls, c = call[w], NEW u \in Units, Tidy(u), Settled(u), Promises(c, u),
         c.tool # "set_parameter_scenes"
  PROVE  Way(u, AfterRead(w, Opening(c).then, Told(u, Opening(c).of), Afterwards(c)), Promised(c, u))
<1>1. c.tool \in Promising
  BY DEF Promises
<1>2. \A of, then : Read(of, then).of = of /\ Read(of, then).then = then
  BY DEF Read
<1>3. CASE c.tool = "build_preset"
  <2>1. Opening(c) = Read("preset", "clear")
    BY <1>3 DEF Opening
  <2> QED
    BY <1>2, <1>3, <2>1, BuildDecided
<1>4. CASE c.tool = "clear_grid"
  <2>1. Opening(c) = Read("preset", "clear") /\ Afterwards(c) = <<>>
    BY <1>4 DEF Opening, Afterwards
  <2> QED
    BY <1>2, <1>4, <2>1, ClearDecided
<1>5. CASE c.tool = "set_block_bypass"
  <2>1. Opening(c) = Read("preset", "bypass")
    BY <1>5 DEF Opening
  <2> QED
    BY <1>2, <1>5, <2>1, BypassDecided
<1>6. CASE c.tool = "assign_stomp"
  <2>1. Opening(c) = Read("preset", "stomp")
    BY <1>6 DEF Opening
  <2> QED
    BY <1>2, <1>6, <2>1, StompDecided
<1>7. CASE c.tool = "save_device_preset"
  <2>1. Opening(c) = Read("preset", "save")
    BY <1>7 DEF Opening
  <2> QED
    BY <1>2, <1>7, <2>1, SaveDecided
<1>8. CASE c.tool = "switch_mode"
  <2>1. Opening(c) = Read("mode", "mode")
    BY <1>8 DEF Opening
  <2> QED
    BY <1>2, <1>8, <2>1, ModeDecided
<1> QED
  BY <1>1, <1>3, <1>4, <1>5, <1>6, <1>7, <1>8 DEF Promising

-----------------------------------------------------------------------------
(* What is promised is kept *)

\* Nothing is promised to whom something happened.
LEMMA HeldUnclean ==
  ASSUME NEW w, ~clean'[w]
  PROVE  Held(w)'
  BY DEF Held

\* Where nothing is left of its call and before it reads, a worker has its promise
\* as long as nobody else acts, and so has a worker who is asked less of.
LEMMA HeldKept ==
  ASSUME Typed, Typed', NEW v \in Workers, Held(v), unit' = unit, call'[v] = call[v],
         before'[v] = before[v], todo'[v] = todo[v], clean'[v] => clean[v],
         Len(queue') = Len(queue), \A i \in 1 .. Len(queue) : queue'[i].cmd = queue[i].cmd,
         \A i \in Questions(queue', v) : i \in Questions(queue, v), Fewer(pending', pending, v)
  PROVE  Held(v)'
<1>1. Asked(v) = Questions(queue, v) /\ Mine(v) = For(pending, v)
  BY AskedIs
<1>2. Asked(v)' = Questions(queue', v) /\ Mine(v)' = For(pending', v)
  BY DEF Asked, Mine, Questions, For
<1>3. queue \in Seq(Messages) /\ queue' \in Seq(Messages)
  BY DEF Typed
<1>4. \A i \in Mine(v)' : \E j \in Mine(v) : pending'[i].of = pending[j].of /\ pending'[i].is = pending[j].is
  BY <1>1, <1>2 DEF Fewer
<1>5. ASSUME Alone(v) PROVE Alone(v)'
  <2>1. \A i \in Asked(v)' : i = Len(queue')
    BY <1>1, <1>2, <1>5 DEF Alone
  <2>2. Mine(v)' # {} => queue' = <<>>
    <3>1. ASSUME Mine(v)' # {} PROVE queue' = <<>>
      <4>1. queue = <<>>
        BY <1>4, <1>5, <3>1 DEF Alone
      <4>2. Len(queue') = 0
        BY <1>3, <4>1, EmptySeq
      <4> QED
        BY <1>3, <4>2, EmptySeq
    <3> QED
      BY <3>1
  <2>3. \A i \in Mine(v)' : pending'[i].of = "scene" /\ pending'[i].is = unit'.next => Settled(unit')
    BY <1>4, <1>5 DEF Alone
  <2>4. before'[v] \in Units /\ Tidy(before'[v]) /\ Settled(before'[v])
    BY <1>5 DEF Alone
  <2> QED
    BY <2>1, <2>2, <2>3, <2>4 DEF Alone
<1>6. ASSUME Deciding(v) PROVE Deciding(v)'
  <2>1. PICK step : step = Opening(call[v]) /\ step = Opening(call'[v])
    OBVIOUS
  <2>2. \A i \in 1 .. Len(queue') : queue'[i].cmd = None
    BY <1>6 DEF Deciding
  <2>3. \A i \in Mine(v)' : pending'[i].is = Told(before'[v], step.of)
    BY <1>4, <1>6, <2>1 DEF Deciding
  <2>4. \E rest \in Seq(Steps(call'[v].tool)) :
          /\ Script(call'[v]) = <<step>> \o rest
          /\ todo'[v] = <<step>> \o rest \/ todo'[v] = <<Waiting(step)>> \o rest
    BY <1>6, <2>1 DEF Deciding
  <2>5. call'[v].tool # "set_parameter_scenes" /\ unit' = before'[v]
    BY <1>6 DEF Deciding
  <2> QED
    BY <2>1, <2>2, <2>3, <2>4, <2>5 DEF Deciding
<1>7. ASSUME OnTheWay(v) PROVE OnTheWay(v)'
  <2>1. PICK x \in Units : Way(unit, queue, x) /\ Way(x, todo[v], Promised(call[v], before[v]))
    BY <1>7 DEF OnTheWay
  <2>2. Way(unit', queue', x)
    BY <1>3, <2>1, WayAlike
  <2>3. Way(x, todo'[v], Promised(call'[v], before'[v]))
    BY <2>1
  <2> QED
    BY <2>2, <2>3 DEF OnTheWay
<1>8. Promises(call'[v], before'[v]) => Promises(call[v], before[v])
  OBVIOUS
<1> QED
  BY <1>5, <1>6, <1>7, <1>8, Zenon DEF Held

\* Who has asked for nothing, and is answered nothing, is alone.
LEMMA AloneWhen ==
  ASSUME NEW w, Asked(w)' = {}, Mine(w)' = {},
         before'[w] \in Units, Tidy(before'[w]), Settled(before'[w])
  PROVE  Alone(w)'
  BY DEF Alone

\* A call begins on a unit at rest, or it is promised nothing.
LEMMA CallHeld ==
  ASSUME Sound, before = [v \in Workers |-> before[v]], NEW w \in Workers, Call(w)
  PROVE  Held(w)'
<1>1. SUFFICES ASSUME clean'[w] PROVE Held(w)'
  BY HeldUnclean
<1>2. PICK c \in Jobs[w] : call' = [call EXCEPT ![w] = c] /\ todo' = [todo EXCEPT ![w] = Script(c)]
  BY DEF Call
<1>3. c \in Calls
  BY <1>2, PresetToolsAssumption
<1>4. PICK t : t = todo /\ t = [v \in Workers |-> t[v]]
  BY DEF Sound, Typed
<1>5. todo'[w] = Script(c)
  BY <1>2, <1>4
<1>6. call'[w] = c
  BY <1>2 DEF Sound, Typed
<1>7. before'[w] = unit
  <2>1. before' = [before EXCEPT ![w] = unit]
    BY DEF Call
  <2> QED
    BY <2>1
<1>8. queue = <<>> /\ Settled(unit)
  <2>1. PICK b : b = (queue = <<>> /\ Settled(unit) /\ \A u \in Workers : todo[u] = <<>>)
    OBVIOUS
  <2>2. clean' = [clean EXCEPT ![w] = b]
    BY <2>1 DEF Call
  <2>3. clean'[w] = b
    BY <2>2 DEF Sound, Typed
  <2>4. b
    BY <1>1, <2>3, Zenon
  <2> QED
    BY <2>1, <2>4, Zenon
<1>9. unit' = unit /\ queue' = <<>> /\ pending' = pending
  BY <1>8 DEF Call
<1>10. unit \in Units /\ Tidy(unit)
  BY DEF Sound, Typed
<1>11. Asked(w)' = {} /\ Mine(w)' = {}
  <2>1. Asked(w) = {} /\ Mine(w) = {}
    BY NothingAsked DEF Sound, Call, Doing
  <2> QED
    BY <1>8, <1>9, <2>1 DEF Asked, Mine
<1>12. Alone(w)'
  BY <1>7, <1>8, <1>10, <1>11, AloneWhen
<1>13. ASSUME Promises(c, unit), c.tool # "set_parameter_scenes"
       PROVE  Deciding(w)'
  <2>1. PICK rest \in Seq(Steps(c.tool)) : Script(c) = <<Opening(c)>> \o rest
    BY <1>3, <1>13, ScriptOpens
  <2>2. \A i \in 1 .. Len(queue') : queue'[i].cmd = None
    <3>1. Len(queue') = 0
      BY <1>9, EmptySeq
    <3> QED
      BY <3>1
  <2>3. \A i \in Mine(w)' : pending'[i].is = Told(before'[w], Opening(c).of)
    BY <1>11
  <2>4. call'[w].tool # "set_parameter_scenes" /\ unit' = before'[w]
    BY <1>6, <1>7, <1>9, <1>13
  <2> QED
    BY <1>5, <1>6, <2>1, <2>2, <2>3, <2>4 DEF Deciding
<1>14. ASSUME Promises(c, unit), c.tool = "set_parameter_scenes"
       PROVE  OnTheWay(w)'
  <2>1. Way(unit, Script(c), Promised(c, unit))
    BY <1>3, <1>8, <1>10, <1>14, ScenesWay
  <2>2. Way(unit, <<>>, unit)
    BY <1>10, WayNothing
  <2> QED
    BY <1>5, <1>6, <1>7, <1>9, <1>10, <2>1, <2>2 DEF OnTheWay
<1>15. Promises(call'[w], before'[w]) => Promises(c, unit)
  BY <1>6, <1>7
<1> QED
  BY <1>12, <1>13, <1>14, <1>15, Zenon DEF Held

\* A worker that has its promise decides, or is on the way.
LEMMA HeldIs ==
  ASSUME NEW w, Held(w), clean[w]
  PROVE  Alone(w) /\ (Promises(call[w], before[w]) => Deciding(w) \/ OnTheWay(w))
  BY Zenon DEF Held

\* What a worker that decides does next.
LEMMA DecidingIs ==
  ASSUME Typed, NEW w \in Workers, Deciding(w), Promises(call[w], before[w])
  PROVE  /\ unit = before[w] /\ call[w] \in Calls /\ todo[w] # <<>>
         /\ Tail(todo[w]) = Afterwards(call[w]) /\ Afterwards(call[w]) \in Seq(Steps(call[w].tool))
         /\ Script(call[w]) = <<Opening(call[w])>> \o Afterwards(call[w])
         /\ \/ todo[w] = <<Opening(call[w])>> \o Afterwards(call[w]) /\ Head(todo[w]) = Opening(call[w])
            \/ /\ todo[w] = <<Waiting(Opening(call[w]))>> \o Afterwards(call[w])
               /\ Head(todo[w]) = Waiting(Opening(call[w]))
<1>1. PICK c : c = call[w]
  OBVIOUS
<1>2. PICK step : step = Opening(c)
  OBVIOUS
<1>3. PICK rest \in Seq(Steps(c.tool)) :
        /\ Script(c) = <<step>> \o rest
        /\ todo[w] = <<step>> \o rest \/ todo[w] = <<Waiting(step)>> \o rest
  BY <1>1, <1>2 DEF Deciding
<1>4. todo[w] # <<>>
  BY <1>3, FrontIs
<1>5. c \in Calls
  BY <1>1, <1>4 DEF Typed
<1>6. Script(c) = <<step>> \o Afterwards(c) /\ Afterwards(c) \in Seq(Steps(c.tool))
  <2>1. c.tool # "set_parameter_scenes"
    BY <1>1 DEF Deciding
  <2> QED
    BY <1>1, <1>2, <1>5, <2>1, ScriptOpens
<1>7. rest = Afterwards(c)
  <2>1. Tail(<<step>> \o rest) = rest
    BY FrontIs
  <2>2. Tail(<<step>> \o Afterwards(c)) = Afterwards(c)
    BY <1>6, FrontIs
  <2> QED
    BY <1>3, <1>6, <2>1, <2>2
<1>8. /\ Head(<<step>> \o rest) = step /\ Tail(<<step>> \o rest) = rest
      /\ Head(<<Waiting(step)>> \o rest) = Waiting(step) /\ Tail(<<Waiting(step)>> \o rest) = rest
  BY FrontIs
<1>9. unit = before[w]
  BY DEF Deciding
<1> QED
  BY <1>1, <1>2, <1>3, <1>4, <1>5, <1>6, <1>7, <1>8, <1>9

\* What is sent is on its way.
LEMMA SendHeld ==
  ASSUME Sound, NEW w \in Workers, Held(w), Send(w)
  PROVE  Held(w)'
<1>1. SUFFICES ASSUME clean'[w] PROVE Held(w)'
  BY HeldUnclean
<1>2. Typed /\ Waited(w)
  BY DEF Sound
<1>3. PICK c \in Commands, rest \in Seq(Steps(call[w].tool)) :
        /\ todo[w] = <<Sent(c)>> \o rest /\ todo' = [todo EXCEPT ![w] = rest]
        /\ queue' = Append(queue, [by |-> w, cmd |-> c, read |-> None])
        /\ [by |-> w, cmd |-> c, read |-> None] \in Messages
        /\ call[w] \in Calls /\ ~Doing(w, "wait")
  BY <1>2, SendIs
<1>4. PICK m \in Messages : m = [by |-> w, cmd |-> c, read |-> None]
  BY <1>3
<1>5. clean[w]
  <2>1. clean' = Disturbed(w)
    BY DEF Send
  <2> QED
    BY <1>1, <1>2, <2>1, DisturbedIs
<1>6. /\ unit' = unit /\ call' = call /\ before' = before /\ pending' = pending
      /\ queue' = Append(queue, m) /\ queue \in Seq(Messages) /\ todo'[w] = rest
  <2>1. todo'[w] = rest
    BY <1>2, <1>3 DEF Typed
  <2> QED
    BY <1>2, <1>3, <1>4, <2>1 DEF Send, Typed
<1>7. Alone(w) /\ (Promises(call[w], before[w]) => Deciding(w) \/ OnTheWay(w))
  BY <1>5, HeldIs
<1>8. Alone(w)'
  <2>1. Asked(w) = {} /\ Mine(w) = {}
    BY <1>2, <1>3, NothingAsked
  <2>2. Questions(Append(queue, m), w) = Questions(queue, w)
    <3>1. m.read = None
      BY <1>4
    <3> QED
      BY <1>6, <3>1, LessAppend
  <2>3. Asked(w)' = {} /\ Mine(w)' = {}
    BY <1>6, <2>1, <2>2 DEF Asked, Questions, Mine
  <2>4. before'[w] \in Units /\ Tidy(before'[w]) /\ Settled(before'[w])
    BY <1>6, <1>7 DEF Alone
  <2> QED
    BY <2>3, <2>4, AloneWhen
<1>9. ASSUME Promises(call[w], before[w]) PROVE OnTheWay(w)'
  <2>1. Head(todo[w]) = Sent(c)
    BY <1>3, FrontIs
  <2>2. ~Deciding(w)
    <3>1. SUFFICES ASSUME Deciding(w) PROVE FALSE
      OBVIOUS
    <3>2. \/ Head(todo[w]) = Opening(call[w])
          \/ Head(todo[w]) = Waiting(Opening(call[w]))
      BY <1>2, <1>9, <3>1, DecidingIs
    <3>3. Opening(call[w]).do = "read"
      <4>1. call[w].tool \in Promising /\ call[w].tool # "set_parameter_scenes"
        BY <1>9, <3>1 DEF Promises, Deciding
      <4> QED
        BY <4>1, OpeningIs
    <3>4. Waiting(Opening(call[w])).do = "wait" /\ Sent(c).do = "send"
      BY DEF Waiting, Sent
    <3> QED
      BY <2>1, <3>2, <3>3, <3>4
  <2>3. PICK x \in Units : Way(unit, queue, x) /\ Way(x, todo[w], Promised(call[w], before[w]))
    BY <1>7, <1>9, <2>2 DEF OnTheWay
  <2>4. PICK y \in Units : Effect(x, Sent(c), y) /\ Way(y, rest, Promised(call[w], before[w]))
    BY <1>3, <2>3, WayFirst
  <2>5. Effect(x, m, y)
    <3>1. Sent(c) \in Sends /\ Sent(c).cmd = c /\ m.cmd = c
      BY <1>4 DEF Sent, Sends
    <3> QED
      BY <2>4, <3>1, EffectOf
  <2>6. Way(unit, Append(queue, m), y)
    BY <1>6, <2>3, <2>5, WayAppend
  <2> QED
    BY <1>6, <2>4, <2>6 DEF OnTheWay
<1>10. Promises(call'[w], before'[w]) => Promises(call[w], before[w])
  BY <1>6
<1> QED
  BY <1>8, <1>9, <1>10, Zenon DEF Held

\* What is asked is on its way, and its answer decides.
LEMMA AskHeld ==
  ASSUME Sound, NEW w \in Workers, Held(w), Ask(w)
  PROVE  Held(w)'
<1>1. SUFFICES ASSUME clean'[w] PROVE Held(w)'
  BY HeldUnclean
<1>2. Typed /\ Waited(w)
  BY DEF Sound
<1>3. PICK step \in Asks(call[w].tool), rest \in Seq(Steps(call[w].tool)) :
        /\ todo[w] = <<step>> \o rest
        /\ todo' = [todo EXCEPT ![w] = <<Waiting(step)>> \o rest]
        /\ queue' = Append(queue, [by |-> w, cmd |-> step.cmd, read |-> step.of])
        /\ [by |-> w, cmd |-> step.cmd, read |-> step.of] \in Messages
        /\ Waiting(step) \in Pauses(call[w].tool) /\ step.of \in Topics
        /\ call[w] \in Calls /\ ~Doing(w, "wait")
  BY <1>2, AskIs
<1>4. PICK m \in Messages : m = [by |-> w, cmd |-> step.cmd, read |-> step.of]
  BY <1>3
<1>5. clean[w]
  <2>1. clean' = Disturbed(w)
    BY DEF Ask
  <2> QED
    BY <1>1, <1>2, <2>1, DisturbedIs
<1>6. /\ unit' = unit /\ call' = call /\ before' = before /\ pending' = pending
      /\ queue' = Append(queue, m) /\ queue \in Seq(Messages)
      /\ todo'[w] = <<Waiting(step)>> \o rest
  <2>1. todo'[w] = <<Waiting(step)>> \o rest
    BY <1>2, <1>3 DEF Typed
  <2> QED
    BY <1>2, <1>3, <1>4, <2>1 DEF Ask, Typed
<1>7. Alone(w) /\ (Promises(call[w], before[w]) => Deciding(w) \/ OnTheWay(w))
  BY <1>5, HeldIs
<1>8. Asked(w) = {} /\ Mine(w) = {} /\ Mine(w)' = {}
  <2>1. Asked(w) = {} /\ Mine(w) = {}
    BY <1>2, <1>3, NothingAsked
  <2> QED
    BY <1>6, <2>1 DEF Mine
<1>9. Alone(w)'
  <2>1. PICK n \in Nat : n = Len(queue)
    BY <1>6, LenProperties
  <2>2. Len(queue') = n + 1 /\ \A i \in 1 .. n : queue'[i] = queue[i]
    BY <1>6, <2>1, AppendProperties
  <2>3. \A i \in Asked(w)' : i = Len(queue')
    <3>1. \A i \in 1 .. n : ~(queue'[i].by = w /\ queue'[i].read # None)
      BY <1>8, <2>1, <2>2 DEF Asked
    <3> QED
      BY <2>2, <3>1 DEF Asked
  <2>4. before'[w] \in Units /\ Tidy(before'[w]) /\ Settled(before'[w])
    BY <1>6, <1>7 DEF Alone
  <2> QED
    BY <1>8, <2>3, <2>4 DEF Alone
<1>10. ASSUME Promises(call[w], before[w]), Deciding(w) PROVE Deciding(w)'
  <2>1. /\ call[w].tool \in Promising /\ call[w].tool # "set_parameter_scenes"
    BY <1>10 DEF Promises, Deciding
  <2>2. /\ unit = before[w] /\ Script(call[w]) = <<Opening(call[w])>> \o Afterwards(call[w])
        /\ Afterwards(call[w]) \in Seq(Steps(call[w].tool)) /\ Tail(todo[w]) = Afterwards(call[w])
        /\ Head(todo[w]) = Opening(call[w]) \/ Head(todo[w]) = Waiting(Opening(call[w]))
    BY <1>2, <1>10, DecidingIs
  <2>3. Head(todo[w]) = step /\ Tail(todo[w]) = rest
    BY <1>3, FrontIs
  <2>4. step = Opening(call[w])
    <3>1. Waiting(Opening(call[w])).do = "wait"
      BY DEF Waiting
    <3>2. step.do # "wait"
      BY DEF Asks, Reads, Awaits
    <3> QED
      BY <2>2, <2>3, <3>1, <3>2
  <2>5. m.cmd = None
    BY <1>4, <2>1, <2>4, OpeningIs
  <2>6. \A i \in 1 .. Len(queue') : queue'[i].cmd = None
    <3>1. PICK n \in Nat : n = Len(queue)
      BY <1>6, LenProperties
    <3>2. Len(queue') = n + 1 /\ queue'[n + 1] = m /\ \A i \in 1 .. n : queue'[i] = queue[i]
      BY <1>6, <3>1, AppendProperties
    <3>3. \A i \in 1 .. n : queue[i].cmd = None
      BY <1>10, <3>1 DEF Deciding
    <3> QED
      BY <2>5, <3>2, <3>3
  <2>7. \A i \in Mine(w)' : pending'[i].is = Told(before'[w], Opening(call'[w]).of)
    BY <1>8
  <2>8. todo'[w] = <<Waiting(Opening(call'[w]))>> \o Afterwards(call[w])
    BY <1>6, <2>2, <2>3, <2>4
  <2> QED
    BY <1>6, <2>1, <2>2, <2>6, <2>7, <2>8 DEF Deciding
<1>11. ASSUME Promises(call[w], before[w]), OnTheWay(w) PROVE OnTheWay(w)'
  <2>1. PICK x \in Units : Way(unit, queue, x) /\ Way(x, todo[w], Promised(call[w], before[w]))
    BY <1>11 DEF OnTheWay
  <2>2. PICK y \in Units : Effect(x, step, y) /\ Way(y, rest, Promised(call[w], before[w]))
    BY <1>3, <2>1, WayFirst
  <2>3. step \in Asks("") /\ Waiting(step) \in Pauses("")
    BY <1>3, <2>2, EffectPassive
  <2>4. PICK z \in Units : Effect(x, m, z) /\ Effect(z, Waiting(step), y)
    <3>1. m.cmd = step.cmd
      BY <1>4
    <3> QED
      BY <2>2, <2>3, <3>1, EffectOfAsking
  <2>5. Way(unit, Append(queue, m), z)
    BY <1>6, <2>1, <2>4, WayAppend
  <2>6. Way(z, <<Waiting(step)>> \o rest, Promised(call[w], before[w]))
    BY <2>2, <2>4, WayFront
  <2> QED
    BY <1>6, <2>5, <2>6 DEF OnTheWay
<1>12. Promises(call'[w], before'[w]) => Promises(call[w], before[w])
  BY <1>6
<1> QED
  BY <1>7, <1>9, <1>10, <1>11, <1>12, Zenon DEF Held

\* After a read that decides nothing a call goes on as it would have.
LEMMA PassiveOn ==
  ASSUME NEW w, NEW step \in Reads(""), NEW x, NEW rest
  PROVE  Onward(w, step, x, rest) = rest
<1>1. step.do = "read" /\ step.then \in {"go on", "show"}
  <2>1. step.do = "read" /\ (step.then \in Passive \/ <<step.of, step.then>> \in Decides(""))
    BY DEF Reads
  <2>2. Decides("") = {}
    BY DEF Decides
  <2> QED
    BY <2>1, <2>2 DEF Passive
<1>2. AfterRead(w, step.then, x, rest) = rest
  BY <1>1 DEF AfterRead
<1> QED
  BY <1>1, <1>2 DEF Onward

\* An await goes on when it sees its scene, and else asks again.
LEMMA AwaitOn ==
  ASSUME NEW w, NEW step \in Awaits, NEW x, x = step.scene \/ step.left > 1, NEW rest
  PROVE  \/ x = step.scene /\ Onward(w, step, x, rest) = rest
         \/ \E again \in Awaits : /\ again.scene = step.scene
                                  /\ Onward(w, step, x, rest) = <<again>> \o rest
<1>1. step.do = "await" /\ step.left \in 1 .. Rounds /\ step.scene \in Scenes
  BY DEF Awaits
<1>2. CASE x = step.scene
  BY <1>1, <1>2 DEF Onward
<1>3. CASE x # step.scene
  <2>1. step.left > 1
    BY <1>3
  <2>2. PICK again : again = [step EXCEPT !.left = @ - 1]
    OBVIOUS
  <2>3. again \in Awaits /\ again.scene = step.scene
    <3>1. step.left - 1 \in 1 .. Rounds
      BY <1>1, <2>1, PresetToolsAssumption
    <3> QED
      BY <2>2, <3>1 DEF Awaits
  <2>4. Onward(w, step, x, rest) = <<again>> \o rest
    BY <1>1, <1>3, <2>1, <2>2 DEF Onward
  <2> QED
    BY <2>3, <2>4
<1> QED
  BY <1>2, <1>3

\* The way goes on after an answer, when nothing is left in the queue.
LEMMA OnwardHeld ==
  ASSUME Sound, NEW w \in Workers, Held(w), clean[w], Promises(call[w], before[w]), queue = <<>>,
         NEW step \in Asks(call[w].tool), NEW rest \in Seq(Steps(call[w].tool)),
         todo[w] = <<Waiting(step)>> \o rest, call[w] \in Calls, step.of \in Topics,
         NEW i \in Mine(w), pending[i].of = step.of,
         NEW x, Deciding(w) => x = pending[i].is, step.do = "await" => x = pending[i].is,
         step.do = "await" => x = step.scene \/ step.left > 1
  PROVE  Way(unit, Onward(w, step, x, rest), Promised(call[w], before[w]))
<1>1. Typed
  BY DEF Sound
<1>2. unit \in Units /\ Tidy(unit)
  BY <1>1 DEF Typed
<1>3. Alone(w) /\ (Deciding(w) \/ OnTheWay(w))
  BY HeldIs
<1>4. Head(todo[w]) = Waiting(step) /\ Tail(todo[w]) = rest
  BY FrontIs
<1>5. CASE Deciding(w)
  <2>1. /\ call[w].tool \in Promising /\ call[w].tool # "set_parameter_scenes"
    BY <1>5 DEF Promises, Deciding
  <2>2. /\ unit = before[w] /\ Tail(todo[w]) = Afterwards(call[w])
        /\ Head(todo[w]) = Opening(call[w]) \/ Head(todo[w]) = Waiting(Opening(call[w]))
    BY <1>1, <1>5, DecidingIs
  <2>3. Opening(call[w]).do = "read"
    BY <2>1, OpeningIs
  <2>4. step = Opening(call[w])
    <3>1. Waiting(step).do = "wait" /\ Waiting(step).for = step
          /\ Waiting(Opening(call[w])).for = Opening(call[w])
      BY DEF Waiting
    <3> QED
      BY <1>4, <2>2, <2>3, <3>1
  <2>5. x = Told(unit, step.of)
    BY <1>5, <2>2, <2>4 DEF Deciding
  <2>6. Onward(w, step, x, rest) = AfterRead(w, step.then, x, rest)
    BY <2>3, <2>4 DEF Onward
  <2>7. rest = Afterwards(call[w])
    BY <1>4, <2>2
  <2>8. Settled(unit)
    BY <1>3, <2>2 DEF Alone
  <2>9. PICK c \in Calls : c = call[w]
    OBVIOUS
  <2>10. Promises(c, unit) /\ c.tool # "set_parameter_scenes"
    BY <2>1, <2>2, <2>9
  <2>11. Way(unit, AfterRead(w, Opening(c).then, Told(unit, Opening(c).of), Afterwards(c)), Promised(c, unit))
    BY <1>2, <2>8, <2>9, <2>10, DecidedWay
  <2> QED
    BY <2>2, <2>4, <2>5, <2>6, <2>7, <2>9, <2>11
<1>6. CASE OnTheWay(w)
  <2>1. PICK z \in Units : Way(unit, queue, z) /\ Way(z, todo[w], Promised(call[w], before[w]))
    BY <1>6 DEF OnTheWay
  <2>2. z = unit
    BY <1>2, <2>1, WayNothing
  <2>3. PICK P : P = Promised(call[w], before[w])
    OBVIOUS
  <2>4. PICK y \in Units : Effect(unit, Waiting(step), y) /\ Way(y, rest, P)
    BY <2>1, <2>2, <2>3, WayFirst
  <2>5. step \in Asks("") /\ Waiting(step) \in Pauses("")
    BY <2>4, EffectPassive
  <2>6. CASE step \in Reads("")
    <3>1. y = unit
      BY <2>4, <2>5, <2>6, EffectOfWaiting
    <3>2. Onward(w, step, x, rest) = rest
      <4>1. \A s \in Reads("") : \A a, b : Onward(w, s, a, b) = b
        BY PassiveOn, Zenon
      <4> QED
        BY <2>6, <4>1, Zenon
    <3> QED
      BY <2>3, <2>4, <3>1, <3>2
  <2>7. CASE step \in Awaits
    <3>1. step.do = "await" /\ step.of = "scene"
      BY <2>7 DEF Awaits
    <3>2. Seen(unit, step.scene, y)
      BY <2>4, <2>5, <2>7, EffectOfWaiting
    <3>3. CASE x = step.scene /\ Onward(w, step, x, rest) = rest
      <4>1. Settled(unit)
        BY <1>3, <3>1, <3>2, <3>3 DEF Alone, Seen
      <4>2. y = unit
        <5>1. Done(unit) = unit
          BY <1>2, <4>1 DEF Done, Settled, Units
        <5> QED
          BY <3>2, <5>1 DEF Seen
      <4> QED
        BY <2>3, <2>4, <3>3, <4>2
    <3>4. CASE \E again \in Awaits : /\ again.scene = step.scene
                                     /\ Onward(w, step, x, rest) = <<again>> \o rest
      <4>1. PICK again \in Awaits : /\ again.scene = step.scene
                                    /\ Onward(w, step, x, rest) = <<again>> \o rest
        BY <3>4
      <4>2. Effect(unit, again, y)
        BY <3>2, <4>1, EffectOf
      <4>3. Way(unit, <<again>> \o rest, P)
        BY <1>2, <2>4, <4>2, WayFront
      <4> QED
        BY <2>3, <4>1, <4>3
    <3>5. x = step.scene \/ step.left > 1
      BY <3>1
    <3>6. \/ x = step.scene /\ Onward(w, step, x, rest) = rest
          \/ \E again \in Awaits : /\ again.scene = step.scene
                                   /\ Onward(w, step, x, rest) = <<again>> \o rest
      BY <2>7, <3>5, AwaitOn, ZenonT(60)
    <3> QED
      BY <3>3, <3>4, <3>6, Zenon
  <2> QED
    BY <2>5, <2>6, <2>7 DEF Asks
<1> QED
  BY <1>3, <1>5, <1>6

\* An answer is what was promised, or what it takes.
LEMMA AnsweredHeld ==
  ASSUME Sound, NEW w \in Workers, Held(w), Answered(w)
  PROVE  Held(w)'
<1>1. SUFFICES ASSUME clean'[w] PROVE Held(w)'
  BY HeldUnclean
<1>2. Typed /\ Waited(w)
  BY DEF Sound
<1>3. PICK step \in Asks(call[w].tool), rest \in Seq(Steps(call[w].tool)), i \in Mine(w) :
        /\ todo[w] = <<Waiting(step)>> \o rest /\ call[w] \in Calls /\ step.of \in Topics
        /\ pending[i].of = step.of /\ pending[i].is \in TellsOf(step.of)
        /\ todo' = [todo EXCEPT ![w] = Onward(w, step, pending[i].is, rest)]
        /\ Onward(w, step, pending[i].is, rest) \in Seq(Steps(call[w].tool))
        /\ Thinned(pending', pending) /\ For(pending', w) = {}
        /\ clean' = [clean EXCEPT ![w] =
                       @ /\ (step.do = "await" => pending[i].is = step.scene \/ step.left > 1)]
  BY AnsweredIs
<1>4. PICK x : x = pending[i].is
  OBVIOUS
<1>5. clean[w] /\ (step.do = "await" => x = step.scene \/ step.left > 1)
  <2>1. PICK b : b = (clean[w] /\ (step.do = "await" => x = step.scene \/ step.left > 1))
    OBVIOUS
  <2>2. clean' = [clean EXCEPT ![w] = b]
    BY <1>3, <1>4, <2>1
  <2>3. clean'[w] = b
    BY <1>2, <2>2 DEF Typed
  <2>4. b
    BY <1>1, <2>3, Zenon
  <2> QED
    BY <2>1, <2>4, Zenon
<1>6. unit' = unit /\ call' = call /\ before' = before /\ queue' = queue
      /\ todo'[w] = Onward(w, step, x, rest)
  <2>1. todo'[w] = Onward(w, step, x, rest)
    BY <1>2, <1>3, <1>4 DEF Typed
  <2> QED
    BY <2>1 DEF Answered
<1>7. Alone(w)
  BY <1>5, HeldIs
<1>8. queue = <<>>
  BY <1>3, <1>7 DEF Alone
<1>9. Alone(w)'
  <2>1. Mine(w)' = {}
    BY <1>3 DEF Mine, For
  <2>2. Asked(w)' = {}
    <3>1. Asked(w) = {}
      BY <1>2, <1>3 DEF Waited
    <3> QED
      BY <1>6, <3>1 DEF Asked
  <2>3. before'[w] \in Units /\ Tidy(before'[w]) /\ Settled(before'[w])
    BY <1>6, <1>7 DEF Alone
  <2> QED
    BY <2>1, <2>2, <2>3, AloneWhen
<1>10. ASSUME Promises(call[w], before[w]) PROVE OnTheWay(w)'
  <2>1. Way(unit, Onward(w, step, x, rest), Promised(call[w], before[w]))
    BY <1>3, <1>4, <1>5, <1>8, <1>10, OnwardHeld
  <2>2. unit \in Units
    BY <1>2 DEF Typed
  <2>3. Way(unit, <<>>, unit)
    BY <2>2, WayNothing
  <2> QED
    BY <1>6, <1>8, <2>1, <2>2, <2>3 DEF OnTheWay
<1>11. Promises(call'[w], before'[w]) => Promises(call[w], before[w])
  BY <1>6
<1> QED
  BY <1>9, <1>10, <1>11, Zenon DEF Held

\* What it takes for an answer is its own answer, or it is promised nothing.
LEMMA TakeFirstHeld ==
  ASSUME Sound, NEW w \in Workers, Held(w), TakeFirst(w)
  PROVE  Held(w)'
<1>1. SUFFICES ASSUME clean'[w] PROVE Held(w)'
  BY HeldUnclean
<1>2. Typed /\ Waited(w)
  BY DEF Sound
<1>3. Quit(w)
  BY TakeFirstIs
<1>4. PICK step \in Asks(call[w].tool), rest \in Seq(Steps(call[w].tool)), i \in 1 .. Len(pending) :
        /\ todo[w] = <<Waiting(step)>> \o rest /\ step.of = "io" /\ pending[i].of = "io"
        /\ todo' = [todo EXCEPT ![w] = Onward(w, step, pending[i].is, rest)]
        /\ clean' = [clean EXCEPT ![w] = @ /\ pending[i].to = w]
  BY TakeFirstIs
<1>5. PICK x : x = pending[i].is
  OBVIOUS
<1>6. clean[w] /\ pending[i].to = w
  <2>1. PICK b : b = (clean[w] /\ pending[i].to = w)
    OBVIOUS
  <2>2. clean' = [clean EXCEPT ![w] = b]
    BY <1>4, <2>1
  <2>3. clean'[w] = b
    BY <1>2, <2>2 DEF Typed
  <2>4. b
    BY <1>1, <2>3, Zenon
  <2> QED
    BY <2>1, <2>4, Zenon
<1>7. i \in Mine(w)
  BY <1>4, <1>6 DEF Mine
<1>8. Alone(w)
  BY <1>6, HeldIs
<1>9. queue = <<>>
  BY <1>7, <1>8 DEF Alone
<1>10. queue' = <<>> /\ For(pending', w) = {} /\ call[w] \in Calls
  <2>1. queue \in Seq(Messages) /\ w # None
    BY <1>2, PresetToolsAssumption DEF Typed
  <2>2. NotBy(w) \in Seq(Messages) /\ Len(NotBy(w)) = Len(queue)
    BY <2>1, NotByIs
  <2>3. Len(NotBy(w)) = 0
    BY <1>9, <2>2, EmptySeq
  <2>4. NotBy(w) = <<>>
    BY <2>2, <2>3, EmptySeq
  <2> QED
    BY <1>3, <2>4 DEF Quit
<1>11. unit' = unit /\ call' = call /\ before' = before /\ todo'[w] = Onward(w, step, x, rest)
  <2>1. todo'[w] = Onward(w, step, x, rest)
    BY <1>2, <1>4, <1>5 DEF Typed
  <2> QED
    BY <2>1 DEF TakeFirst
<1>12. Alone(w)'
  <2>1. Mine(w)' = {}
    BY <1>10 DEF Mine, For
  <2>2. Asked(w)' = {}
    <3>1. Len(queue') = 0
      BY <1>10, EmptySeq
    <3> QED
      BY <3>1 DEF Asked
  <2>3. before'[w] \in Units /\ Tidy(before'[w]) /\ Settled(before'[w])
    BY <1>8, <1>11 DEF Alone
  <2> QED
    BY <2>1, <2>2, <2>3, AloneWhen
<1>13. ASSUME Promises(call[w], before[w]) PROVE OnTheWay(w)'
  <2>1. step.do # "await" /\ step.of \in Topics
    BY <1>4 DEF Asks, Reads, Awaits, Topics
  <2>2. Way(unit, Onward(w, step, x, rest), Promised(call[w], before[w]))
    BY <1>4, <1>5, <1>6, <1>7, <1>9, <1>10, <1>13, <2>1, OnwardHeld
  <2>3. unit \in Units
    BY <1>2 DEF Typed
  <2>4. Way(unit, <<>>, unit)
    BY <2>3, WayNothing
  <2> QED
    BY <1>10, <1>11, <2>2, <2>3, <2>4 DEF OnTheWay
<1>14. Promises(call'[w], before'[w]) => Promises(call[w], before[w])
  BY <1>11
<1> QED
  BY <1>12, <1>13, <1>14, Zenon DEF Held

\* Others do not notice that a worker takes an answer, or gives up.
LEMMA QuitHeld ==
  ASSUME Sound, Sound', NEW w \in Workers, Quit(w), NEW v \in Workers, v # w, Held(v),
         unit' = unit, call' = call, before' = before, clean'[v] => clean[v]
  PROVE  Held(v)'
<1>1. Typed /\ Typed'
  BY DEF Sound
<1>2. queue \in Seq(Messages) /\ pending \in Seq(Answers) /\ w # None /\ v # None
  BY <1>1, PresetToolsAssumption DEF Typed
<1>3. queue' = NotBy(w) /\ Thinned(pending', pending) /\ todo'[v] = todo[v]
  <2>1. PICK s : todo' = [todo EXCEPT ![w] = s]
    BY DEF Quit
  <2>2. todo'[v] = todo[v]
    BY <1>1, <2>1 DEF Typed
  <2> QED
    BY <2>2 DEF Quit
<1>4. /\ Len(NotBy(w)) = Len(queue)
      /\ \A i \in 1 .. Len(queue) :
           /\ NotBy(w)[i].cmd = queue[i].cmd /\ NotBy(w)[i].read = queue[i].read
           /\ NotBy(w)[i].by \in {queue[i].by, None}
  BY <1>2, NotByIs
<1>5. Len(queue') = Len(queue) /\ \A i \in 1 .. Len(queue) : queue'[i].cmd = queue[i].cmd
  BY <1>3, <1>4
<1>6. \A i \in Questions(queue', v) : i \in Questions(queue, v)
  BY <1>2, <1>3, <1>4 DEF Questions
<1>7. Fewer(pending', pending, v)
  BY <1>2, <1>3, FewerThinned
<1> QED
  BY <1>1, <1>3, <1>5, <1>6, <1>7, HeldKept

\* The same for an answer, which leaves the queue as it is.
LEMMA AnsweredElse ==
  ASSUME Sound, Sound', NEW w \in Workers, Answered(w), NEW v \in Workers, v # w, Held(v)
  PROVE  Held(v)'
<1>1. Typed /\ Typed' /\ v # None /\ pending \in Seq(Answers)
  BY PresetToolsAssumption DEF Sound, Typed
<1>2. PICK s, b : /\ todo' = [todo EXCEPT ![w] = s] /\ clean' = [clean EXCEPT ![w] = b]
                  /\ Thinned(pending', pending)
  <2>1. PICK step \in Asks(call[w].tool), rest \in Seq(Steps(call[w].tool)), i \in Mine(w) :
          /\ todo' = [todo EXCEPT ![w] = Onward(w, step, pending[i].is, rest)]
          /\ Thinned(pending', pending)
          /\ clean' = [clean EXCEPT ![w] =
                         @ /\ (step.do = "await" => pending[i].is = step.scene \/ step.left > 1)]
    BY AnsweredIs
  <2>2. PICK s : s = Onward(w, step, pending[i].is, rest)
    OBVIOUS
  <2>3. PICK b : b = (clean[w] /\ (step.do = "await" => pending[i].is = step.scene \/ step.left > 1))
    OBVIOUS
  <2>4. clean' = [clean EXCEPT ![w] = b]
    BY <2>1, <2>3
  <2> QED
    BY <2>1, <2>2, <2>4
<1>3. todo'[v] = todo[v] /\ clean'[v] = clean[v]
  BY <1>1, <1>2 DEF Typed
<1>4. unit' = unit /\ call' = call /\ before' = before /\ queue' = queue
  BY DEF Answered
<1>5. Fewer(pending', pending, v)
  BY <1>1, <1>2, FewerThinned
<1> QED
  BY <1>1, <1>3, <1>4, <1>5, HeldKept

\* And for a call that begins.
LEMMA CallElse ==
  ASSUME Sound, Sound', before = [x \in Workers |-> before[x]], NEW w \in Workers, Call(w),
         NEW v \in Workers, v # w, Held(v)
  PROVE  Held(v)'
<1>1. Typed /\ Typed'
  BY DEF Sound
<1>2. PICK c, s, b : /\ call' = [call EXCEPT ![w] = c] /\ todo' = [todo EXCEPT ![w] = s]
                     /\ clean' = [clean EXCEPT ![w] = b]
  BY DEF Call
<1>3. todo'[v] = todo[v] /\ clean'[v] = clean[v] /\ call'[v] = call[v]
  BY <1>1, <1>2 DEF Typed
<1>4. before'[v] = before[v]
  BY DEF Call
<1>5. unit' = unit /\ queue' = queue /\ pending' = pending
  BY DEF Call
<1>6. Fewer(pending', pending, v)
  BY <1>5, NoMore
<1> QED
  BY <1>1, <1>3, <1>4, <1>5, <1>6, HeldKept

\* A course is a sequence of steps and pauses.
LEMMA CourseIsSeq ==
  ASSUME NEW tool, NEW s, Course(tool, s)
  PROVE  s \in Seq(Steps(tool) \cup Pauses(tool))
<1>1. PICK T : T = Steps(tool) \cup Pauses(tool)
  OBVIOUS
<1>2. CASE s \in Seq(Steps(tool))
  BY <1>1, <1>2, SeqMonotonic
<1>3. CASE \E p \in Pauses(tool), rest \in Seq(Steps(tool)) : s = <<p>> \o rest
  <2>1. PICK p \in Pauses(tool), rest \in Seq(Steps(tool)) : s = <<p>> \o rest
    BY <1>3
  <2>2. <<p>> \in Seq(T) /\ rest \in Seq(T)
    BY <1>1, <2>1, SeqMonotonic, OneIsSeq
  <2> QED
    BY <1>1, <2>1, <2>2, Joined
<1> QED
  BY <1>2, <1>3 DEF Course

\* The unit takes one message.
LEMMA UnitStepHeld ==
  ASSUME Sound, Sound', NEW w \in Workers, Held(w), UnitStep
  PROVE  Held(w)'
<1>1. SUFFICES ASSUME clean'[w] PROVE Held(w)'
  BY HeldUnclean
<1>2. Typed /\ Waited(w) /\ Waited(w)'
  BY DEF Sound
<1>3. todo' = todo /\ call' = call /\ before' = before /\ clean[w]
  BY <1>1 DEF UnitStep
<1>4. PICK m \in Messages :
        /\ m = Head(queue) /\ queue # <<>> /\ queue' = Tail(queue) /\ queue' \in Seq(Messages)
        /\ unit' = (IF m.cmd = None THEN unit ELSE Apply(unit, m.cmd))
        /\ unit' \in Units /\ Tidy(unit')
        /\ m.read # None /\ m.by # None =>
             \E a \in Answers : /\ a.of = m.read /\ a.is = Told(unit', m.read) /\ a.to = m.by
                                /\ pending' = Append(pending, a)
        /\ m.read = None \/ m.by = None =>
             \/ pending' = pending
             \/ \E a \in Answers : pending' = Append(pending, a) /\ a.to = None
  BY <1>2, UnitStepIs
<1>5. queue \in Seq(Messages) /\ pending \in Seq(Answers) /\ w # None /\ unit \in Units
  BY <1>2, PresetToolsAssumption DEF Typed
<1>6. PICK n \in Nat : /\ Len(queue) = n + 1 /\ Len(queue') = n /\ queue[1] = m
                       /\ \A i \in 1 .. n : queue'[i] = queue[i + 1]
  <2>1. PICK n \in Nat : n = Len(queue) - 1 /\ Len(queue) = n + 1
    <3>1. PICK l \in Nat : l = Len(queue)
      BY <1>5, LenProperties
    <3>2. l # 0
      BY <1>4, <1>5, <3>1, EmptySeq
    <3> QED
      BY <3>1, <3>2
  <2>2. Len(queue') = n /\ \A i \in 1 .. n : queue'[i] = queue[i + 1]
    BY <1>4, <1>5, <2>1, HeadTailProperties
  <2>3. queue[1] = m
    BY <1>4 DEF Head
  <2> QED
    BY <2>1, <2>2, <2>3
<1>7. Alone(w) /\ (Promises(call[w], before[w]) => Deciding(w) \/ OnTheWay(w))
  BY <1>3, HeldIs
<1>8. Mine(w) = {}
  BY <1>4, <1>7 DEF Alone
<1>9. ASSUME NEW i \in Mine(w)'
      PROVE  n = 0 /\ pending'[i].of = m.read /\ pending'[i].is = Told(unit', m.read)
  <2>1. m.read # None /\ m.by = w
    <3>1. SUFFICES ASSUME ~(m.read # None /\ m.by = w) PROVE FALSE
      OBVIOUS
    <3>2. \/ pending' = pending
          \/ \E a \in Answers : pending' = Append(pending, a) /\ a.to # w
      BY <1>4, <1>5, <3>1
    <3>3. For(pending', w) = For(pending, w)
      <4>1. ASSUME NEW a \in Answers, a.to # w PROVE For(Append(pending, a), w) = For(pending, w)
        BY <1>5, <4>1, FewerAppend
      <4>2. CASE pending' = pending
        BY <4>2
      <4>3. CASE \E a \in Answers : pending' = Append(pending, a) /\ a.to # w
        <5>1. PICK a \in Answers : pending' = Append(pending, a) /\ a.to # w
          BY <4>3
        <5>2. For(Append(pending, a), w) = For(pending, w)
          BY <4>1, <5>1
        <5> QED
          BY <5>1, <5>2
      <4> QED
        BY <3>2, <4>2, <4>3
    <3> QED
      BY <1>8, <1>9, <3>3 DEF Mine, For
  <2>2. PICK a \in Answers : /\ a.of = m.read /\ a.is = Told(unit', m.read) /\ a.to = w
                             /\ pending' = Append(pending, a)
    BY <1>4, <1>5, <2>1
  <2>3. PICK l \in Nat : l = Len(pending)
    BY <1>5, LenProperties
  <2>4. Len(pending') = l + 1 /\ pending'[l + 1] = a /\ \A j \in 1 .. l : pending'[j] = pending[j]
    BY <1>5, <2>2, <2>3, AppendProperties
  <2>5. i = l + 1
    <3>1. i \in 1 .. l + 1 /\ pending'[i].to = w
      BY <1>9, <2>4 DEF Mine
    <3>2. \A j \in 1 .. l : pending[j].to # w
      BY <1>8, <2>3 DEF Mine
    <3> QED
      BY <2>4, <3>1, <3>2
  <2>6. n = 0
    <3>1. 1 \in Asked(w)
      BY <1>6, <2>1 DEF Asked
    <3> QED
      BY <1>6, <1>7, <3>1 DEF Alone
  <2> QED
    BY <2>2, <2>4, <2>5, <2>6
<1>10. Alone(w)'
  <2>1. \A i \in Asked(w)' : i = Len(queue')
    <3> SUFFICES ASSUME NEW i \in Asked(w)' PROVE i = n
      BY <1>6
    <3>1. i \in 1 .. n /\ queue'[i].by = w /\ queue'[i].read # None
      BY <1>6 DEF Asked
    <3>2. i + 1 \in Asked(w)
      BY <1>6, <3>1 DEF Asked
    <3> QED
      BY <1>6, <1>7, <3>1, <3>2 DEF Alone
  <2>2. Mine(w)' # {} => queue' = <<>>
    BY <1>4, <1>6, <1>9, EmptySeq
  <2>3. \A i \in Mine(w)' : pending'[i].of = "scene" /\ pending'[i].is = unit'.next => Settled(unit')
    <3>1. Told(unit', "scene") = unit'.scene
      BY DEF Told
    <3> QED
      BY <1>9, <3>1 DEF Settled
  <2>4. before'[w] \in Units /\ Tidy(before'[w]) /\ Settled(before'[w])
    BY <1>3, <1>7 DEF Alone
  <2> QED
    BY <2>1, <2>2, <2>3, <2>4 DEF Alone
<1>11. ASSUME Promises(call[w], before[w]), Deciding(w) PROVE Deciding(w)'
  <2>1. m.cmd = None
    <3>1. 1 \in 1 .. Len(queue)
      BY <1>6
    <3> QED
      BY <1>6, <1>11, <3>1 DEF Deciding
  <2>2. unit' = unit
    BY <1>4, <2>1
  <2>3. \A i \in 1 .. Len(queue') : queue'[i].cmd = None
    <3> TAKE i \in 1 .. Len(queue')
    <3>1. i + 1 \in 1 .. Len(queue) /\ queue'[i] = queue[i + 1]
      BY <1>6
    <3> QED
      BY <1>11, <3>1 DEF Deciding
  <2>4. Head(todo[w]) = Opening(call[w]) \/ Head(todo[w]) = Waiting(Opening(call[w]))
    BY <1>2, <1>11, DecidingIs
  <2>5. \A i \in Mine(w)' : pending'[i].is = Told(before'[w], Opening(call'[w]).of)
    <3> TAKE i \in Mine(w)'
    <3>1. pending'[i].of = Head(todo[w]).of
      BY <1>2, <1>3 DEF Waited
    <3>2. Waiting(Opening(call[w])).of = Opening(call[w]).of
      BY DEF Waiting
    <3>3. pending'[i].of = Opening(call[w]).of
      BY <2>4, <3>1, <3>2
    <3>4. unit = before'[w]
      BY <1>3, <1>11 DEF Deciding
    <3> QED
      BY <1>3, <1>9, <2>2, <3>3, <3>4
  <2> QED
    BY <1>3, <1>11, <2>2, <2>3, <2>5 DEF Deciding
<1>12. ASSUME Promises(call[w], before[w]), OnTheWay(w) PROVE OnTheWay(w)'
  <2>1. PICK x \in Units : Way(unit, queue, x) /\ Way(x, todo[w], Promised(call[w], before[w]))
    BY <1>12 DEF OnTheWay
  <2>2. queue = <<m>> \o queue'
    BY <1>4, <1>5, FrontBack
  <2>3. PICK y \in Units : Effect(unit, m, y) /\ Way(y, queue', x)
    BY <1>4, <2>1, <2>2, WayFirst
  <2>4. y = unit'
    <3>1. Taken(unit, m.cmd, y)
      BY <2>3, EffectOf
    <3> QED
      BY <1>4, <3>1 DEF Taken
  <2> QED
    BY <1>3, <2>1, <2>3, <2>4 DEF OnTheWay
<1>13. Promises(call'[w], before'[w]) => Promises(call[w], before[w])
  BY <1>3
<1> QED
  BY <1>7, <1>10, <1>11, <1>12, <1>13, Zenon DEF Held

\* The switch of scenes comes to its end.
LEMMA SettleHeld ==
  ASSUME Sound, Sound', NEW w \in Workers, Held(w), Settle
  PROVE  Held(w)'
<1>1. SUFFICES ASSUME clean'[w] PROVE Held(w)'
  BY HeldUnclean
<1>2. Typed
  BY DEF Sound
<1>3. /\ queue' = queue /\ todo' = todo /\ call' = call /\ before' = before /\ clean[w]
      /\ ~Settled(unit)
  BY <1>1 DEF Settle
<1>4. unit' = Done(unit) /\ unit \in Units /\ unit' \in Units /\ Settled(unit')
  <2>1. unit \in Units
    BY <1>2 DEF Typed
  <2>2. Done(unit) \in Units /\ Settled(Done(unit))
    BY <2>1, ZenonT(60) DEF Done, Units, Settled
  <2> QED
    BY <2>1, <2>2 DEF Settle, Done
<1>5. Alone(w) /\ (Promises(call[w], before[w]) => Deciding(w) \/ OnTheWay(w))
  BY <1>3, HeldIs
<1>6. Mine(w)' = Mine(w)
  <2>1. PICK a : a = [of |-> "scene", is |-> unit.next, to |-> None] /\ a \in Answers
    <3>1. unit.next \in TellsOf("scene") /\ "scene" \in Topics
      BY <1>4 DEF Units, TellsOf, Topics
    <3> QED
      BY <3>1, AnswerTyped
  <2>2. pending' = Append(pending, a) /\ pending \in Seq(Answers) /\ w # None
    BY <1>2, <2>1, PresetToolsAssumption DEF Settle, Push, Typed
  <2>3. For(Append(pending, a), w) = For(pending, w)
    BY <2>1, <2>2, FewerAppend
  <2> QED
    BY <2>2, <2>3 DEF Mine, For
<1>7. Alone(w)'
  <2>1. \A i \in Asked(w)' : i = Len(queue')
    BY <1>3, <1>5 DEF Alone, Asked
  <2>2. Mine(w)' # {} => queue' = <<>>
    BY <1>3, <1>5, <1>6 DEF Alone
  <2>3. before'[w] \in Units /\ Tidy(before'[w]) /\ Settled(before'[w])
    BY <1>3, <1>5 DEF Alone
  <2> QED
    BY <1>4, <2>1, <2>2, <2>3 DEF Alone
<1>8. ASSUME Promises(call[w], before[w]) PROVE OnTheWay(w)'
  <2>1. Settled(before[w]) /\ before[w] \in Units
    BY <1>5 DEF Alone
  <2>2. ~Deciding(w)
    BY <1>3, <2>1 DEF Deciding
  <2>3. PICK P : P = Promised(call[w], before[w]) /\ Settled(P)
    BY <1>8, <2>1, PromisedSettled DEF Promises
  <2>4. PICK x \in Units : Way(unit, queue, x) /\ Way(x, todo[w], P)
    BY <1>5, <1>8, <2>2, <2>3 DEF OnTheWay
  <2>5. queue \in Seq(Messages)
    BY <1>2 DEF Typed
  <2>6. \/ Way(unit', queue, x)
        \/ x = unit /\ Way(unit', queue, unit')
    BY <1>3, <1>4, <2>4, <2>5, WaySettled
  <2>7. CASE Way(unit', queue, x)
    BY <1>3, <2>3, <2>4, <2>7 DEF OnTheWay
  <2>8. CASE x = unit /\ Way(unit', queue, unit')
    <3>1. PICK T : todo[w] \in Seq(T)
      BY <1>2, CourseIsSeq DEF Typed
    <3>2. \/ Way(unit', todo[w], P)
          \/ P = unit
      BY <1>3, <1>4, <2>4, <2>8, <3>1, WaySettled
    <3>3. Way(unit', todo[w], P)
      BY <1>3, <2>3, <3>2
    <3> QED
      BY <1>3, <1>4, <2>3, <2>8, <3>3 DEF OnTheWay
  <2> QED
    BY <2>6, <2>7, <2>8
<1>9. Promises(call'[w], before'[w]) => Promises(call[w], before[w])
  BY <1>3
<1> QED
  BY <1>7, <1>8, <1>9, Zenon DEF Held

\* In the beginning nobody has a promise.
LEMMA InitHeld ==
  ASSUME Init
  PROVE  before = [w \in Workers |-> before[w]] /\ \A w \in Workers : Held(w)
<1>1. \A w \in Workers : ~clean[w]
  BY DEF Init
<1>2. before = [w \in Workers |-> before[w]]
  BY DEF Init
<1> QED
  BY <1>1, <1>2 DEF Held

\* Every step keeps what is promised to everybody.
LEMMA StepHeld ==
  ASSUME IInv, [Next]_vars
  PROVE  IInv'
<1>1. Sound /\ before = [w \in Workers |-> before[w]] /\ \A w \in Workers : Held(w)
  BY DEF IInv
<1>2. Sound'
  BY <1>1, StepSound
<1>3. ASSUME before' = before \/ \E w, u : before' = [before EXCEPT ![w] = u]
      PROVE  before' = [w \in Workers |-> before'[w]]
  BY <1>1, <1>3
<1>4. ASSUME UnitStep PROVE before' = before /\ \A w \in Workers : Held(w)'
  BY <1>1, <1>2, <1>4, UnitStepHeld DEF UnitStep
<1>5. ASSUME Settle PROVE before' = before /\ \A w \in Workers : Held(w)'
  BY <1>1, <1>2, <1>5, SettleHeld DEF Settle
<1>6. ASSUME Player PROVE before' = before /\ \A w \in Workers : Held(w)'
  <2>1. \A w \in Workers : ~clean'[w]
    BY <1>6 DEF Player
  <2> QED
    BY <1>6, <2>1, HeldUnclean DEF Player
<1>7. ASSUME NEW w \in Workers, Call(w)
      PROVE  (\E u : before' = [before EXCEPT ![w] = u]) /\ \A v \in Workers : Held(v)'
  <2>1. before' = [before EXCEPT ![w] = unit]
    BY <1>7 DEF Call
  <2>2. Held(w)'
    BY <1>1, <1>7, CallHeld
  <2>3. \A v \in Workers : v # w => Held(v)'
    BY <1>1, <1>2, <1>7, CallElse
  <2> QED
    BY <2>1, <2>2, <2>3
<1>8. ASSUME NEW w \in Workers, Send(w) PROVE before' = before /\ \A v \in Workers : Held(v)'
  <2>1. \A v \in Workers : v # w => ~clean'[v]
    BY <1>8, Zenon DEF Send, Disturbed
  <2>2. Held(w)'
    BY <1>1, <1>8, SendHeld
  <2> QED
    BY <1>8, <2>1, <2>2, HeldUnclean DEF Send
<1>9. ASSUME NEW w \in Workers, Ask(w) PROVE before' = before /\ \A v \in Workers : Held(v)'
  <2>1. \A v \in Workers : v # w => ~clean'[v]
    BY <1>9, Zenon DEF Ask, Disturbed
  <2>2. Held(w)'
    BY <1>1, <1>9, AskHeld
  <2> QED
    BY <1>9, <2>1, <2>2, HeldUnclean DEF Ask
<1>10. ASSUME NEW w \in Workers, Answered(w) PROVE before' = before /\ \A v \in Workers : Held(v)'
  <2>1. Held(w)'
    BY <1>1, <1>10, AnsweredHeld
  <2>2. \A v \in Workers : v # w => Held(v)'
    BY <1>1, <1>2, <1>10, AnsweredElse
  <2> QED
    BY <1>10, <2>1, <2>2 DEF Answered
<1>11. ASSUME NEW w \in Workers, TakeFirst(w) PROVE before' = before /\ \A v \in Workers : Held(v)'
  <2>1. Held(w)'
    BY <1>1, <1>11, TakeFirstHeld
  <2>2. PICK b : clean' = [clean EXCEPT ![w] = b]
    BY <1>11 DEF TakeFirst
  <2>3. \A v \in Workers : v # w => clean'[v] = clean[v]
    BY <1>1, <2>2 DEF Sound, Typed
  <2>4. Quit(w)
    BY <1>1, <1>11, TakeFirstIs
  <2>5. unit' = unit /\ call' = call /\ before' = before
    BY <1>11 DEF TakeFirst
  <2>6. \A v \in Workers : v # w => Held(v)'
    BY <1>1, <1>2, <2>3, <2>4, <2>5, QuitHeld
  <2> QED
    BY <2>1, <2>5, <2>6
<1>12. ASSUME NEW w \in Workers, TimeOut(w) PROVE before' = before /\ \A v \in Workers : Held(v)'
  <2>1. Quit(w) /\ clean' = [clean EXCEPT ![w] = FALSE]
    BY <1>1, <1>12, TimeOutIs
  <2>2. ~clean'[w] /\ \A v \in Workers : v # w => clean'[v] = clean[v]
    BY <1>1, <2>1 DEF Sound, Typed
  <2>3. unit' = unit /\ call' = call /\ before' = before
    BY <1>12 DEF TimeOut
  <2>4. \A v \in Workers : v # w => Held(v)'
    BY <1>1, <1>2, <2>1, <2>2, <2>3, QuitHeld
  <2>5. Held(w)'
    BY <2>2, HeldUnclean
  <2> QED
    BY <2>3, <2>4, <2>5
<1>13. ASSUME UNCHANGED vars PROVE before' = before /\ \A w \in Workers : Held(w)'
  <2>1. /\ unit' = unit /\ queue' = queue /\ pending' = pending /\ todo' = todo /\ call' = call
        /\ before' = before /\ clean' = clean
    BY <1>13 DEF vars
  <2>2. \A w \in Workers : Fewer(pending', pending, w)
    BY <2>1, NoMore
  <2>3. Typed /\ Typed'
    BY <1>1, <1>2 DEF Sound
  <2> QED
    BY <1>1, <2>1, <2>2, <2>3, HeldKept
<1>14. (before' = before \/ \E w, u : before' = [before EXCEPT ![w] = u]) /\ \A w \in Workers : Held(w)'
  BY <1>4, <1>5, <1>6, <1>7, <1>8, <1>9, <1>10, <1>11, <1>12, <1>13 DEF Next, Step
<1> QED
  BY <1>2, <1>3, <1>14 DEF IInv

\* What is kept is kept in the end.
LEMMA HeldEnds ==
  ASSUME IInv
  PROVE  EndsAsAsked
<1> SUFFICES ASSUME NEW w \in Workers, clean[w], todo[w] = <<>>, queue = <<>>, Settled(unit),
                    Promises(call[w], before[w])
             PROVE  unit = Promised(call[w], before[w])
  BY DEF EndsAsAsked
<1>1. Typed /\ Held(w)
  BY DEF IInv, Sound
<1>2. Deciding(w) \/ OnTheWay(w)
  BY <1>1, HeldIs
<1>3. ~Deciding(w)
  BY <1>1, DecidingIs
<1>4. PICK x \in Units : Way(unit, queue, x) /\ Way(x, todo[w], Promised(call[w], before[w]))
  BY <1>2, <1>3 DEF OnTheWay
<1>5. unit \in Units
  BY <1>1 DEF Typed
<1>6. x = unit
  BY <1>4, <1>5, WayNothing
<1>7. Promised(call[w], before[w]) = x
  BY <1>4, WayNothing
<1> QED
  BY <1>6, <1>7

\* A call of many messages comes to what its tool promises, for every grid, spec
\* and number of threads, if nobody else wrote and every read was answered: what
\* Walk, QcClearGrid and BuildChain of transport.py and server.py send, one
\* message after another, adds up to the unit asked for.
THEOREM CallsEndAsAsked == Spec => []EndsAsAsked
<1>1. Init => IInv
  BY InitSound, InitHeld DEF IInv
<1>2. IInv /\ [Next]_vars => IInv'
  BY StepHeld
<1>3. IInv => EndsAsAsked
  BY HeldEnds
<1> QED
  BY <1>1, <1>2, <1>3, PTL DEF Spec
=============================================================================
