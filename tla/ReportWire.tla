----------------------------- MODULE ReportWire -----------------------------
(***************************************************************************)
(* One direction of the USB-HID link: messages cut into reports by their   *)
(* senders (protocol.message_to_reports), written one report at a time     *)
(* (QuadCortex.send, Daemon._handle "write"), and put together again at    *)
(* the other end (protocol.Reassembler).                                   *)
(*                                                                         *)
(* A thread belongs to a process.  The threads of one process send through *)
(* one QuadCortex, whose _send_lock is held for a whole message: tool      *)
(* calls, the leveling bench's player thread and the KeepAlive heartbeat.  *)
(* Across processes only the write of a single report is atomic: clients   *)
(* of the daemon (its _write_lock covers one "write" call), the daemon's   *)
(* own heartbeat (which takes no _write_lock), and on Windows a second     *)
(* handle beside the vendor's application.                                 *)
(***************************************************************************)
EXTENDS Integers, Sequences, SequencesExt

CONSTANTS
  Threads,      \* everything that sends
  ProcessOf,    \* which process, hence which _send_lock, a thread belongs to
  ChunkMax,     \* CHUNK_MAX: payload units one report carries
  MessageLens,  \* bound: per thread, the lengths of the messages it sends
  MaxSent       \* bound: messages one thread sends

ASSUME WireAssumption ==
  /\ ChunkMax \in Nat \ {0}
  /\ MessageLens \in [Threads -> SUBSET (Nat \ {0})]
  /\ MaxSent \in Nat

VARIABLES
  holder,  \* per process: the thread inside _send_lock, or Free
  todo,    \* per thread: reports of its message not yet written
  sent,    \* per thread: messages it has begun
  buf,     \* Reassembler._buf at the receiving end
  heard,   \* the message the last report to arrive completed, or <<>>
  dropped  \* history: messages (sender and number) with a report that was
           \* refused by the endpoint, as counted in write_errors

vars == <<holder, todo, sent, buf, heard, dropped>>

Processes == {ProcessOf[t] : t \in Threads}
CONSTANT Free
ASSUME FreeAssumption == Free \notin Threads

\* A message is its payload units, each tagged with who sent it, which of the
\* sender's messages it is and where it stands; the length is in every unit, as
\* the trailer's command and the protobuf body are only whole together.
Unit == [from : Threads, nr : Nat, at : Nat, of : Nat]
Message(t, n, len) == [i \in 1 .. len |-> [from |-> t, nr |-> n, at |-> i, of |-> len]]
IsMessage(m) ==
  /\ m # <<>>
  /\ m = Message(m[1].from, m[1].nr, m[1].of)

\* FLAG_FIRST and FLAG_LAST of the k-th of n reports; FLAG_SINGLE is both.
HasFirst(k, n) == k = 1
HasLast(k, n)  == k = n

ReportCountOver(len) == len \div ChunkMax + 1  \* mutant: an empty last report

ReportCountShort(len) == len \div ChunkMax  \* mutant: the tail is dropped

ReportCount(len) == (len + ChunkMax - 1) \div ChunkMax

\* message_to_reports
Cut(m) ==
  LET n == ReportCount(Len(m))
  IN [k \in 1 .. n |->
       [first |-> HasFirst(k, n), last |-> HasLast(k, n),
        part |-> SubSeq(m, (k - 1) * ChunkMax + 1,
                           IF k * ChunkMax < Len(m) THEN k * ChunkMax ELSE Len(m))]]

FedNoReset(b, r) ==  \* mutant: FIRST does not start a new message
  LET joined == b \o r.part
  IN IF r.last THEN [buf |-> <<>>, out |-> joined] ELSE [buf |-> joined, out |-> <<>>]

\* Reassembler.feed: what is left in the buffer, and the message that came out.
Fed(b, r) ==
  LET joined == (IF r.first THEN <<>> ELSE b) \o r.part
  IN IF r.last THEN [buf |-> <<>>, out |-> joined] ELSE [buf |-> joined, out |-> <<>>]

Init ==
  /\ holder = [p \in Processes |-> Free]
  /\ todo = [t \in Threads |-> <<>>]
  /\ sent = [t \in Threads |-> 0]
  /\ buf = <<>> /\ heard = <<>> /\ dropped = {}

BeginUnlocked(t, len) ==  \* mutant: send() without _send_lock
  /\ sent[t] < MaxSent /\ todo[t] = <<>>
  /\ holder' = [holder EXCEPT ![ProcessOf[t]] = t]
  /\ sent' = [sent EXCEPT ![t] = @ + 1]
  /\ todo' = [todo EXCEPT ![t] = Cut(Message(t, sent[t] + 1, len))]
  /\ UNCHANGED <<buf, heard, dropped>>

\* send(): cut the message, take the process's _send_lock.
Begin(t, len) ==
  /\ sent[t] < MaxSent /\ todo[t] = <<>>
  /\ holder[ProcessOf[t]] = Free
  /\ holder' = [holder EXCEPT ![ProcessOf[t]] = t]
  /\ sent' = [sent EXCEPT ![t] = @ + 1]
  /\ todo' = [todo EXCEPT ![t] = Cut(Message(t, sent[t] + 1, len))]
  /\ UNCHANGED <<buf, heard, dropped>>

Advance(t) ==
  /\ todo[t] # <<>>
  /\ todo' = [todo EXCEPT ![t] = Tail(@)]
  /\ holder' = IF Len(todo[t]) = 1 THEN [holder EXCEPT ![ProcessOf[t]] = Free] ELSE holder
  /\ UNCHANGED sent

\* set_report: one report reaches the other end, after every one written before.
WriteReport(t) ==
  /\ Advance(t)
  /\ LET f == Fed(buf, Head(todo[t]))
     IN buf' = f.buf /\ heard' = f.out
  /\ UNCHANGED dropped

\* set_report returns a code that is not benign: the report may never have left,
\* send() counts it and goes on with the next one.
WriteRefused(t) ==
  /\ Advance(t)
  /\ dropped' = dropped \cup {<<t, sent[t]>>}
  /\ UNCHANGED <<buf, heard>>

\* set_report raises (an endpoint gone, a timeout): send() leaves the lock and
\* the rest of the message is never written.
WriteFails(t) ==
  /\ todo[t] # <<>>
  /\ todo' = [todo EXCEPT ![t] = <<>>]
  /\ holder' = [holder EXCEPT ![ProcessOf[t]] = Free]
  /\ UNCHANGED <<sent, buf, heard, dropped>>

Next ==
  \E t \in Threads :
    \/ \E len \in MessageLens[t] : Begin(t, len)
    \/ WriteReport(t) \/ WriteRefused(t) \/ WriteFails(t)

Spec == Init /\ [][Next]_vars

-----------------------------------------------------------------------------
(* Properties *)

TypeOK ==
  /\ holder \in [Processes -> Threads \cup {Free}]
  /\ \A t \in Threads : \A k \in 1 .. Len(todo[t]) :
       /\ todo[t][k] \in [first : BOOLEAN, last : BOOLEAN, part : Seq(Unit)]
       /\ Len(todo[t][k].part) \in 1 .. ChunkMax
  /\ sent \in [Threads -> Nat]
  /\ buf \in Seq(Unit) /\ heard \in Seq(Unit)
  /\ dropped \subseteq Threads \X Nat

Sender(m) == <<m[Len(m)].from, m[Len(m)].nr>>

\* What comes out at the receiving end is always one message as it was sent,
\* whole, even next to sends that failed half way; only a message that had a
\* report refused can come out torn.  With all senders in one process this is
\* what _send_lock gives (transport.py 372-374); with senders in several
\* processes it is what "one writer at a time on the device" (daemon.py 157,
\* 246-247) would have to give.
OnlyWholeMessages ==
  heard # <<>> => IsMessage(heard) \/ Sender(heard) \in dropped

\* A message written to its end, no report of it refused, has been heard by
\* then: message_to_reports loses no part of it at any length, and nothing
\* another sender did before or meanwhile can swallow it.
WrittenIsHeard ==
  [][\A t \in Threads :
       /\ Len(todo[t]) = 1 /\ WriteReport(t)
       /\ <<t, sent[t]>> \notin dropped
       => IsMessage(heard') /\ Sender(heard') = <<t, sent[t]>>]_vars
=============================================================================
