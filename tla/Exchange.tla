------------------------------ MODULE Exchange ------------------------------
(***************************************************************************)
(* Questions and answers over a device that tells everybody everything     *)
(* (transport.py).  Several clients share the Quad Cortex: MCP servers     *)
(* behind the daemon, or one beside Cortex Control.  The device answers a  *)
(* question by echoing its request_id, and every client gets a copy of     *)
(* every answer and of every unsolicited message.  A QuadCortex puts its   *)
(* copies into _pending, which its threads share, and an exchange looks    *)
(* for its own answer there: request() for its request_id, falling back to *)
(* the command when the deadline passes; _read_preset_once() for its       *)
(* request_id alone; read_message() for the command alone; and             *)
(* latest_broadcast() for all that comes while it listens.  server.py's    *)
(* switch_preset() and cpu_load() go through _pending without the lock.    *)
(***************************************************************************)
EXTENDS Integers, Sequences, SequencesExt

CONSTANTS
  Threads,   \* everything that may ask
  ClientOf,  \* the client, hence the QuadCortex, a thread belongs to
  Kinds,     \* per thread: the ways it asks
  Commands,  \* what can be asked for
  MaxAsks,   \* bound: how many questions each client asks; none listens after
  MaxPushes, \* bound: changes made at the device itself
  Free       \* nobody holds a client's _io_lock

Asks      == {"request", "match", "first"}
Streams   == {"stream", "load"}              \* nothing is asked
Locked    == Asks \cup {"stream"}            \* the methods under @_serialized
AllKinds  == Locked \cup Streams \cup {"drain"}

ASSUME ExchangeAssumption ==
  /\ Kinds \in [Threads -> SUBSET AllKinds]
  /\ MaxAsks \in [{ClientOf[t] : t \in Threads} -> Nat] /\ MaxPushes \in Nat
  /\ Free \notin Threads

VARIABLES
  asked,    \* the device's input: questions it has not answered yet
  wire,     \* per client: messages that have arrived and were not read yet
  pending,  \* per client: _pending
  ioLock,   \* per client: the thread inside _io_lock
  drawn,    \* per client: next_request_id()
  version,  \* how often the device's state has changed
  op,       \* per thread: the exchange it is in
  arrived   \* history, per thread: its answer has been put into _pending, and no
            \* call that goes past the lock has taken it out (Robbed)

vars == <<asked, wire, pending, ioLock, drawn, version, op, arrived>>

Clients == {ClientOf[t] : t \in Threads}
Rid     == [client : Clients, nr : Nat]
NoRid   == [client |-> Free, nr |-> 0]  \* request_id 0: nobody asked
Question == [cmd : Commands, rid : Rid]
Message == [cmd : Commands, rid : Rid \cup {NoRid}, ver : Nat]

\* What a thread is about: found holds what it has taken for its answer so far.
Idle == [kind |-> "none"]
Exchanges ==
  [kind : AllKinds, cmd : Commands, rid : Rid, sent : Nat, at : {"collect", "sift"}, found : Seq(Message)]
Asking(kind, cmd, rid) ==
  [kind |-> kind, cmd |-> cmd, rid |-> rid, sent |-> version, at |-> "collect", found |-> <<>>]

Init ==
  /\ asked = <<>> /\ version = 0
  /\ wire = [c \in Clients |-> <<>>]
  /\ pending = [c \in Clients |-> <<>>]
  /\ ioLock = [c \in Clients |-> Free]
  /\ drawn = [c \in Clients |-> 0]
  /\ op = [t \in Threads |-> Idle]
  /\ arrived = [t \in Threads |-> FALSE]

-----------------------------------------------------------------------------
(* The device *)

Tell(m) == wire' = [c \in Clients |-> Append(wire[c], m)]

Answer ==
  /\ asked # <<>>
  /\ Tell([cmd |-> Head(asked).cmd, rid |-> Head(asked).rid, ver |-> version])
  /\ asked' = Tail(asked)
  /\ UNCHANGED <<pending, ioLock, drawn, version, op, arrived>>

\* Not every question is answered: one may never have reached the device.
Ignore ==
  /\ asked # <<>>
  /\ asked' = Tail(asked)
  /\ UNCHANGED <<wire, pending, ioLock, drawn, version, op, arrived>>

\* Somebody turns a knob; the device says so unasked.
Push ==
  /\ version < MaxPushes
  /\ version' = version + 1
  /\ \E cmd \in Commands : Tell([cmd |-> cmd, rid |-> NoRid, ver |-> version + 1])
  /\ UNCHANGED <<asked, pending, ioLock, drawn, op, arrived>>

-----------------------------------------------------------------------------
(* One exchange *)

\* What a pass over _pending takes out for its command, and what it leaves.
Of(p, cmd) == FlattenSeq([i \in 1 .. Len(p) |-> IF p[i].cmd = cmd THEN <<p[i]>> ELSE <<>>])
Without(p, cmd) == FlattenSeq([i \in 1 .. Len(p) |-> IF p[i].cmd = cmd THEN <<>> ELSE <<p[i]>>])

\* The message with our request_id is taken out of _pending by a tuple made for
\* the purpose, which is no object of that list: request() takes nothing out,
\* and puts the unrelated messages it has passed in front once more.
RequestKept(p, i, cmd) == Without(SubSeq(p, 1, i - 1), cmd) \o p

MatchesCommand(o, m) == m.cmd = o.cmd  \* mutant: no request_id

\* Which message ends an exchange at once.
Matches(o, m) == m.cmd = o.cmd /\ (o.kind = "first" \/ m.rid = o.rid)

Hits(o, p) == {i \in 1 .. Len(p) : Matches(o, p[i])}

Ask(t, kind, cmd) ==
  LET c   == ClientOf[t]
      rid == [client |-> c, nr |-> drawn[c] + 1]
  IN /\ op[t] = Idle /\ drawn[c] < MaxAsks[c]
     /\ drawn' = [drawn EXCEPT ![c] = @ + 1]
     /\ asked' = Append(asked, [cmd |-> cmd, rid |-> rid])
     /\ op' = [op EXCEPT ![t] = Asking(kind, cmd, rid)]
     /\ UNCHANGED <<wire, version>>

\* Whose answer is not among p, which a call of t's without the lock leaves of
\* _pending: switch_preset and cpu_load do not ask who else is waiting there.
Robbed(t, p) ==
  {u \in Threads \ {t} : /\ ClientOf[u] = ClientOf[t] /\ op[u].kind \in Asks
                         /\ \A m \in ToSet(p) : m.rid # op[u].rid}

BeginUnserialized(t, kind, cmd) ==  \* mutant: the methods without @_serialized
  /\ kind \in Asks
  /\ Ask(t, kind, cmd)
  /\ arrived' = [arrived EXCEPT ![t] = FALSE]
  /\ UNCHANGED <<pending, ioLock>>

\* @_serialized, next_request_id() and send().
Begin(t, kind, cmd) ==
  /\ kind \in Asks
  /\ ioLock[ClientOf[t]] = Free
  /\ ioLock' = [ioLock EXCEPT ![ClientOf[t]] = t]
  /\ Ask(t, kind, cmd)
  /\ arrived' = [arrived EXCEPT ![t] = FALSE]
  /\ UNCHANGED pending

\* switch_preset: empty _pending, then ask; all of it outside the lock.
BeginDrain(t, cmd) ==
  /\ Ask(t, "drain", cmd)
  /\ pending' = [pending EXCEPT ![ClientOf[t]] = <<>>]
  /\ arrived' = [u \in Threads |-> arrived[u] /\ u \notin Robbed(t, <<>>) \cup {t}]
  /\ UNCHANGED ioLock

\* What came of the command is stale: latest_broadcast() drops it under the lock,
\* cpu_load() without.
BeginStream(t, kind, cmd) ==
  LET c    == ClientOf[t]
      left == Without(pending[c], cmd)
  IN /\ op[t] = Idle /\ kind \in Streams /\ drawn[c] < MaxAsks[c]
     /\ \/ /\ kind = "stream"
           /\ ioLock[c] = Free /\ ioLock' = [ioLock EXCEPT ![c] = t]
           /\ arrived' = [arrived EXCEPT ![t] = FALSE]
        \/ /\ kind = "load"
           /\ arrived' = [u \in Threads |-> arrived[u] /\ u \notin Robbed(t, left) \cup {t}]
           /\ UNCHANGED ioLock
     /\ pending' = [pending EXCEPT ![c] = left]
     /\ op' = [op EXCEPT ![t] = Asking(kind, cmd, [client |-> c, nr |-> 0])]
     /\ UNCHANGED <<asked, wire, drawn, version>>

Collected(c) == pending[c] \o wire[c]

\* _collect(), itself under the lock, which is re-entrant.
Collect(t) ==
  LET c == ClientOf[t]
  IN /\ op[t] # Idle /\ op[t].at = "collect"
     /\ ioLock[c] \in {t, Free}
     /\ pending' = [pending EXCEPT ![c] = Collected(c)]
     /\ wire' = [wire EXCEPT ![c] = <<>>]
     /\ op' = [op EXCEPT ![t].at = "sift"]
     /\ arrived' = [u \in Threads |->
          arrived[u] \/ (ClientOf[u] = c /\ op[u] # Idle
                         /\ \E i \in 1 .. Len(wire[c]) : wire[c][i].rid = op[u].rid)]
     /\ UNCHANGED <<asked, ioLock, drawn, version>>

FinishHolding(t) ==  \* mutant: the lock is not released on the way out
  /\ op' = [op EXCEPT ![t] = Idle]
  /\ UNCHANGED ioLock

Finish(t) ==
  /\ op' = [op EXCEPT ![t] = Idle]
  /\ ioLock' = [ioLock EXCEPT ![ClientOf[t]] = IF @ = t THEN Free ELSE @]

\* The answer is there.
Found(t) ==
  LET c == ClientOf[t]
      o == op[t]
      p == pending[c]
  IN /\ o # Idle /\ o.kind \in Asks /\ o.at = "sift"
     /\ Hits(o, p) # {}
     /\ LET i == Min(Hits(o, p))
        IN pending' = [pending EXCEPT ![c] =
             IF o.kind = "request" THEN RequestKept(p, i, o.cmd) ELSE RemoveAt(p, i)]
     /\ Finish(t)
     /\ UNCHANGED <<asked, wire, drawn, version, arrived>>

\* It is not: go round again.  request() drops what carries its command, and
\* remembers the first of it as what to fall back to.
NotYet(t) ==
  LET c == ClientOf[t]
      o == op[t]
      p == pending[c]
      same == Of(p, o.cmd)
  IN /\ o # Idle /\ o.kind \in Asks /\ o.at = "sift"
     /\ Hits(o, p) = {}
     /\ IF o.kind = "request"
        THEN /\ pending' = [pending EXCEPT ![c] = Without(p, o.cmd)]
             /\ op' = [op EXCEPT ![t].at = "collect",
                                 ![t].found = IF @ = <<>> /\ same # <<>> THEN <<same[1]>> ELSE @]
        ELSE /\ op' = [op EXCEPT ![t].at = "collect"]
             /\ UNCHANGED pending
     /\ UNCHANGED <<asked, wire, ioLock, drawn, version, arrived>>

\* switch_preset takes everything out, its preset or not.
Drain(t) ==
  LET c == ClientOf[t]
  IN /\ op[t] # Idle /\ op[t].kind = "drain" /\ op[t].at = "sift"
     /\ pending' = [pending EXCEPT ![c] = <<>>]
     /\ arrived' = [u \in Threads |-> arrived[u] /\ u \notin Robbed(t, <<>>)]
     /\ \/ Finish(t)
        \/ op' = [op EXCEPT ![t].at = "collect"] /\ UNCHANGED ioLock
     /\ UNCHANGED <<asked, wire, drawn, version>>

\* Everything of the command is taken; cpu_load() is content with the first lot.
Gather(t) ==
  LET c == ClientOf[t]
      o == op[t]
      got  == Of(pending[c], o.cmd)
      left == Without(pending[c], o.cmd)
  IN /\ o # Idle /\ o.kind \in Streams /\ o.at = "sift"
     /\ pending' = [pending EXCEPT ![c] = left]
     /\ arrived' = [u \in Threads |->
          arrived[u] /\ ~(o.kind = "load" /\ u \in Robbed(t, left))]
     /\ IF o.kind = "load" /\ got # <<>>
        THEN Finish(t)
        ELSE op' = [op EXCEPT ![t].at = "collect"] /\ UNCHANGED ioLock
     /\ UNCHANGED <<asked, wire, drawn, version>>

\* The deadline passes, checked before each round.
TimeOut(t) ==
  /\ op[t] # Idle /\ op[t].at = "collect"
  /\ Finish(t)
  /\ UNCHANGED <<asked, wire, pending, drawn, version, arrived>>

Next ==
  \/ Answer \/ Ignore \/ Push
  \/ \E t \in Threads :
       \/ \E cmd \in Commands :
            \/ \E kind \in Kinds[t] : Begin(t, kind, cmd) \/ BeginStream(t, kind, cmd)
            \/ "drain" \in Kinds[t] /\ BeginDrain(t, cmd)
       \/ Collect(t) \/ Found(t) \/ NotYet(t) \/ Drain(t) \/ Gather(t) \/ TimeOut(t)

Spec == Init /\ [][Next]_vars

-----------------------------------------------------------------------------
(* Properties *)

TypeOK ==
  /\ asked \in Seq(Question)
  /\ wire \in [Clients -> Seq(Message)] /\ pending \in [Clients -> Seq(Message)]
  /\ ioLock \in [Clients -> Threads \cup {Free}]
  /\ \A c \in Clients : ioLock[c] = Free \/ op[ioLock[c]].kind \in Locked
  /\ drawn \in [Clients -> Nat] /\ version \in Nat
  /\ op \in [Threads -> {Idle} \cup Exchanges]
  /\ arrived \in [Threads -> BOOLEAN]

\* An exchange whose answer has come in does not end without it: of all that
\* reads _pending beside it, nothing takes it away but the two calls of
\* server.py that do not take the lock (transport._serialized, "two interleaved
\* exchanges eat each other's replies and both come back empty").
AnsweredIsFound ==
  [][\A t \in Threads :
       op[t] # Idle /\ op[t].kind \in Asks /\ TimeOut(t) => ~arrived[t]]_vars

\* Before its deadline request(), and always _read_preset_once(), returns the
\* answer to its own question and no older one, whatever else is in _pending:
\* late answers, other clients' and the application's traffic (transport.py
\* 436-438, 517-518).
ReturnsOwnAnswer ==
  [][\A t \in Threads :
       op[t] # Idle /\ op[t].kind \in {"request", "match"} /\ Found(t)
         => LET m == pending[ClientOf[t]][Min(Hits(op[t], pending[ClientOf[t]]))]
            IN m.rid = op[t].rid /\ m.ver >= op[t].sent]_vars
=============================================================================
