----------------------------- MODULE Broadcast ------------------------------
(***************************************************************************)
(* What sharing one device session promises an attached client: from the   *)
(* moment it joins it is told every report the device produces, in the     *)
(* order the device produced them and never twice; a report is missing     *)
(* only when a loss on that client's own path has been recorded.           *)
(***************************************************************************)
EXTENDS Integers, Sequences

CONSTANT Clients

VARIABLES
  log,    \* how many reports the device has produced
  start,  \* per client: what had been produced before it joined, or Absent
  seen,   \* per client: the numbers of the reports it has been told
  lossy   \* per client: something it was owed has been discarded

bvars  == <<log, start, seen, lossy>>
Absent == -1

Last(c) == IF seen[c] = <<>> THEN start[c] ELSE seen[c][Len(seen[c])]
Block(lo, hi) == [i \in 1 .. hi - lo |-> lo + i]

Init ==
  /\ log = 0
  /\ start = [c \in Clients |-> Absent]
  /\ seen = [c \in Clients |-> <<>>]
  /\ lossy = [c \in Clients |-> FALSE]

Produce ==
  /\ log' = log + 1
  /\ UNCHANGED <<start, seen, lossy>>

Join(c) ==
  /\ start[c] = Absent
  /\ \E n \in 0 .. log : start' = [start EXCEPT ![c] = n]
  /\ UNCHANGED <<log, seen, lossy>>

Lose(c) ==
  /\ start[c] # Absent /\ ~lossy[c]
  /\ lossy' = [lossy EXCEPT ![c] = TRUE]
  /\ UNCHANGED <<log, start, seen>>

\* A run of consecutive reports; it follows on the last one unless some were lost.
Tell(c) ==
  /\ start[c] # Absent
  /\ \E hi \in 1 .. log :
       \E lo \in Last(c) .. hi - 1 :
         /\ lossy[c] \/ lo = Last(c)
         /\ seen' = [seen EXCEPT ![c] = @ \o Block(lo, hi)]
  /\ UNCHANGED <<log, start, lossy>>

Next ==
  \/ Produce
  \/ \E c \in Clients : Join(c) \/ Lose(c) \/ Tell(c)

Spec == Init /\ [][Next]_bvars
=============================================================================
