-------------------------- MODULE SupervisorProofs --------------------------
(* Patchbay and the daemons it starts, for any number of daemons and calls. *)
EXTENDS Supervisor, TLAPS

\* One start is in flight, and one that still probes has no child to lose.
OneStart == \A b, c \in Starts : at[b] # "idle" /\ at[c] # "idle" => b = c
EmptyProbe == \A b \in Starts : at[b] = "probe" => child = None

\* A child is never there while Patchbay says "stopped".
ChildKnown == child # None => status # "stopped"

Begun == OneStart /\ EmptyProbe /\ ChildKnown /\ StartingIsAtWork
IInv  == TypeOK /\ Begun /\ NoOrphan

\* Stopping leaves Patchbay's own state well typed.
LEMMA StopTyped ==
  ASSUME TypeOK, StopNow
  PROVE  /\ child' = None /\ external' = FALSE /\ status' = "stopped"
         /\ live' \in BOOLEAN /\ winding' \in BOOLEAN
         /\ doomed' \in SUBSET Ours /\ told' \in SUBSET Procs
         /\ endpoint' \in Procs \cup {None}
         /\ left' \in [Ours -> {"no", "stopped", "strayed"}]
<1>1. child' = None /\ external' = FALSE /\ status' = "stopped"
  BY DEF StopNow, Forget
<1>2. live' \in BOOLEAN /\ winding' \in BOOLEAN
  <2>1. CASE StopChild
    BY <2>1, Zenon DEF StopChild, TypeOK
  <2>2. CASE StopAdopted
    BY <2>2, Zenon DEF StopAdopted, TypeOK
  <2>3. CASE StopNothing
    BY <2>3, Zenon DEF StopNothing, TypeOK
  <2> QED
    BY <2>1, <2>2, <2>3 DEF StopNow
<1>3. doomed' \in SUBSET Ours /\ told' \in SUBSET Procs /\ endpoint' \in Procs \cup {None}
  BY SupervisorAssumption
  DEF StopNow, StopChild, StopAdopted, StopNothing, Terminate, Owner, TypeOK, Procs
<1>4. left' \in [Ours -> {"no", "stopped", "strayed"}]
  BY DEF StopNow, StopChild, StopAdopted, StopNothing, TypeOK
<1> QED
  BY <1>1, <1>2, <1>3, <1>4

\* A call that returns leaves its locals well typed.
LEMMA ReturnTyped ==
  ASSUME TypeOK, NEW b \in Starts, NEW from, Returns(b, from)
  PROVE  /\ at' \in [Starts -> {"idle", "probe", "wait", "ask"}]
         /\ saw' \in [Starts -> BOOLEAN] /\ rounds' \in [Starts -> 0 .. MaxRounds - 1]
<1>1. 0 \in 0 .. MaxRounds - 1
  BY SupervisorAssumption
<1>2. at' \in [Starts -> {"idle", "probe", "wait", "ask"}] /\ saw' \in [Starts -> BOOLEAN]
  BY DEF Returns, Goes, TypeOK
<1>3. rounds' \in [Starts -> 0 .. MaxRounds - 1]
  BY <1>1, Zenon DEF Returns, TypeOK
<1> QED
  BY <1>2, <1>3

\* No step leaves the types.
LEMMA TypeKept ==
  ASSUME TypeOK, [Next]_vars
  PROVE  TypeOK'
<1> USE SupervisorAssumption DEF Procs

<1>1. ASSUME NEW p \in Procs, HandStart(p)
      PROVE  TypeOK'
  BY <1>1 DEF HandStart, To, patchbay, begins, TypeOK, Living
<1>2. ASSUME NEW p \in Procs, Check(p)
      PROVE  TypeOK'
  BY <1>2 DEF Check, To, patchbay, begins, TypeOK, Living
<1>3. ASSUME NEW p \in Procs, Look(p)
      PROVE  TypeOK'
  BY <1>3 DEF Look, To, patchbay, begins, TypeOK, Living
<1>4. ASSUME NEW p \in Procs, Write(p)
      PROVE  TypeOK'
  BY <1>4 DEF Write, To, patchbay, begins, TypeOK, Living
<1>5. ASSUME NEW p \in Procs, Settle(p)
      PROVE  TypeOK'
  BY <1>5 DEF Settle, To, patchbay, begins, TypeOK, Living
<1>6. ASSUME NEW p \in Procs, Listen(p)
      PROVE  TypeOK'
  BY <1>6 DEF Listen, To, patchbay, begins, TypeOK, Living
<1>7. ASSUME NEW p \in Procs, Release(p)
      PROVE  TypeOK'
  <2>1. PICK to \in Living : proc' = [proc EXCEPT ![p] = to]
    BY <1>7 DEF Release, To, Living
  <2>2. UNCHANGED <<patchbay, begins, told, endpoint, record>>
    BY <1>7 DEF Release
  <2> QED
    BY <2>1, <2>2 DEF patchbay, begins, TypeOK, Living
<1>8. ASSUME NEW p \in Procs, Drop(p)
      PROVE  TypeOK'
  BY <1>8 DEF Drop, To, Ends, patchbay, begins, TypeOK, Living
<1>9. ASSUME NEW p \in Procs, CloseOnce(p)
      PROVE  TypeOK'
  BY <1>9 DEF CloseOnce, To, patchbay, begins, TypeOK, Living
<1>10. ASSUME NEW p \in Procs, CloseAgain(p)
      PROVE  TypeOK'
  BY <1>10 DEF CloseAgain, To, patchbay, begins, TypeOK, Living
<1>11. ASSUME NEW p \in Procs, AcceptFails(p)
      PROVE  TypeOK'
  BY <1>11 DEF AcceptFails, To, patchbay, begins, TypeOK, Living
<1>12. ASSUME NEW p \in Procs, Die(p)
      PROVE  TypeOK'
  BY <1>12 DEF Die, Ends, patchbay, begins, TypeOK, Living
<1>13. ASSUME NEW p \in Procs, Interrupt(p)
      PROVE  TypeOK'
  BY <1>13 DEF Interrupt, patchbay, begins, TypeOK, Living
<1>14. ASSUME NEW b \in Starts, Start(b)
      PROVE  TypeOK'
  BY <1>14 DEF Start, Goes, EndpointUp, patchbay, system, TypeOK, Living
<1>15. ASSUME NEW b \in Starts, Adopt(b)
      PROVE  TypeOK'
  <2>1. /\ at' \in [Starts -> {"idle", "probe", "wait", "ask"}]
        /\ saw' \in [Starts -> BOOLEAN] /\ rounds' \in [Starts -> 0 .. MaxRounds - 1]
    BY <1>15, ReturnTyped DEF Adopt
  <2> QED
    BY <1>15, <2>1 DEF Adopt, system, TypeOK
<1>16. ASSUME NEW b \in Starts, NotInstalled(b)
      PROVE  TypeOK'
  <2>1. /\ at' \in [Starts -> {"idle", "probe", "wait", "ask"}]
        /\ saw' \in [Starts -> BOOLEAN] /\ rounds' \in [Starts -> 0 .. MaxRounds - 1]
    BY <1>16, ReturnTyped DEF NotInstalled
  <2> QED
    BY <1>16, <2>1 DEF NotInstalled, patchbay, system, TypeOK
<1>17. ASSUME NEW b \in Starts, Spawn(b)
      PROVE  TypeOK'
  BY <1>17 DEF Spawn, To, Goes, Unborn, TypeOK, Living
<1>18. ASSUME NEW b \in Starts, Ask(b)
      PROVE  TypeOK'
  BY <1>18 DEF Ask, Goes, EndpointUp, patchbay, system, TypeOK, Living
<1>19. ASSUME NEW b \in Starts, Gone(b)
      PROVE  TypeOK'
  <2>1. /\ at' \in [Starts -> {"idle", "probe", "wait", "ask"}]
        /\ saw' \in [Starts -> BOOLEAN] /\ rounds' \in [Starts -> 0 .. MaxRounds - 1]
    BY <1>19, ReturnTyped DEF Gone
  <2> QED
    BY <1>19, <2>1 DEF Gone, patchbay, system, TypeOK
<1>20. ASSUME NEW b \in Starts, Up(b)
      PROVE  TypeOK'
  <2>1. /\ at' \in [Starts -> {"idle", "probe", "wait", "ask"}]
        /\ saw' \in [Starts -> BOOLEAN] /\ rounds' \in [Starts -> 0 .. MaxRounds - 1]
    BY <1>20, ReturnTyped DEF Up
  <2> QED
    BY <1>20, <2>1 DEF Up, system, TypeOK
<1>21. ASSUME NEW b \in Starts, Again(b)
      PROVE  TypeOK'
  <2>1. rounds[b] \in 0 .. MaxRounds - 1 /\ rounds[b] + 1 < MaxRounds
    BY <1>21 DEF Again, TypeOK
  <2>2. rounds[b] + 1 \in 0 .. MaxRounds - 1
    BY <2>1, SupervisorAssumption
  <2>3. rounds' \in [Starts -> 0 .. MaxRounds - 1]
    BY <1>21, <2>2, Zenon DEF Again, TypeOK
  <2>4. at' \in [Starts -> {"idle", "probe", "wait", "ask"}]
    BY <1>21 DEF Again, Goes, TypeOK
  <2> QED
    BY <1>21, <2>3, <2>4 DEF Again, patchbay, system, TypeOK
<1>22. ASSUME NEW b \in Starts, GiveUp(b)
      PROVE  TypeOK'
  <2>1. /\ at' \in [Starts -> {"idle", "probe", "wait", "ask"}]
        /\ saw' \in [Starts -> BOOLEAN] /\ rounds' \in [Starts -> 0 .. MaxRounds - 1]
        /\ UNCHANGED <<proc, record>>
    BY <1>22 DEF GiveUp, Goes, Returns, StopNow, TypeOK
  <2> QED
    BY <1>22, <2>1, StopTyped, Zenon DEF GiveUp, TypeOK
<1>23. CASE Stop
  <2>1. UNCHANGED <<begins, proc, record>>
    BY <1>23 DEF Stop, StopNow
  <2> QED
    BY <1>23, <2>1, StopTyped, Zenon DEF Stop, begins, TypeOK
<1>24. CASE WindDown
  BY <1>24, Zenon DEF WindDown, begins, system, TypeOK
<1>25. ASSUME NEW p \in Ours, Kill(p)
      PROVE  TypeOK'
  BY <1>25 DEF Kill, Ends, begins, TypeOK, Living
<1>26. ASSUME NEW p \in Ours, ExitEvent(p)
      PROVE  TypeOK'
  BY <1>26 DEF ExitEvent, Strays, To, begins, TypeOK, Living
<1>27. CASE UNCHANGED vars
  BY <1>27 DEF vars, patchbay, begins, system, TypeOK, Living
<1> QED
  BY <1>1, <1>2, <1>3, <1>4, <1>5, <1>6, <1>7, <1>8, <1>9, <1>10, <1>11, <1>12, <1>13, <1>14,
     <1>15, <1>16, <1>17, <1>18, <1>19, <1>20, <1>21, <1>22, <1>23, <1>24, <1>25, <1>26, <1>27
  DEF Next, Serve, Begin

\* What a daemon does by itself changes nothing Patchbay holds, and makes no
\* process of Patchbay's alive, or untold, that was not.
LEMMA DaemonStep ==
  ASSUME TypeOK, NEW p \in Procs, Serve(p)
  PROVE  /\ UNCHANGED <<patchbay, begins>>
         /\ \A q \in Ours : Alive(q)' /\ q \notin told' => Alive(q) /\ q \notin told
<1> USE SupervisorAssumption DEF Procs
<1> DEFINE NoneNew ==
      \A q \in Ours : Alive(q)' /\ q \notin told' => Alive(q) /\ q \notin told
<1>1. CASE HandStart(p)
  <2>1. UNCHANGED <<patchbay, begins>>
    BY <1>1 DEF HandStart
  <2>2. NoneNew
    BY <1>1 DEF HandStart, To, TypeOK, Alive, Living
  <2> QED
    BY <2>1, <2>2
<1>2. CASE Check(p)
  <2>1. UNCHANGED <<patchbay, begins>>
    BY <1>2 DEF Check
  <2>2. NoneNew
    BY <1>2 DEF Check, To, TypeOK, Alive, Living
  <2> QED
    BY <2>1, <2>2
<1>3. CASE Look(p)
  <2>1. UNCHANGED <<patchbay, begins>>
    BY <1>3 DEF Look
  <2>2. NoneNew
    BY <1>3 DEF Look, To, TypeOK, Alive, Living
  <2> QED
    BY <2>1, <2>2
<1>4. CASE Write(p)
  <2>1. UNCHANGED <<patchbay, begins>>
    BY <1>4 DEF Write
  <2>2. NoneNew
    BY <1>4 DEF Write, To, TypeOK, Alive, Living
  <2> QED
    BY <2>1, <2>2
<1>5. CASE Settle(p)
  <2>1. UNCHANGED <<patchbay, begins>>
    BY <1>5 DEF Settle
  <2>2. NoneNew
    BY <1>5 DEF Settle, To, TypeOK, Alive, Living
  <2> QED
    BY <2>1, <2>2
<1>6. CASE Listen(p)
  <2>1. UNCHANGED <<patchbay, begins>>
    BY <1>6 DEF Listen
  <2>2. NoneNew
    BY <1>6 DEF Listen, To, TypeOK, Alive, Living
  <2> QED
    BY <2>1, <2>2
<1>7. CASE Release(p)
  <2>1. UNCHANGED <<patchbay, begins>>
    BY <1>7 DEF Release
  <2>2. NoneNew
    BY <1>7 DEF Release, To, TypeOK, Alive, Living
  <2> QED
    BY <2>1, <2>2
<1>8. CASE Drop(p)
  <2>1. UNCHANGED <<patchbay, begins>>
    BY <1>8 DEF Drop
  <2>2. NoneNew
    BY <1>8 DEF Drop, To, Ends, TypeOK, Alive, Living
  <2> QED
    BY <2>1, <2>2
<1>9. CASE CloseOnce(p)
  <2>1. UNCHANGED <<patchbay, begins>>
    BY <1>9 DEF CloseOnce
  <2>2. NoneNew
    BY <1>9 DEF CloseOnce, To, TypeOK, Alive, Living
  <2> QED
    BY <2>1, <2>2
<1>10. CASE CloseAgain(p)
  <2>1. UNCHANGED <<patchbay, begins>>
    BY <1>10 DEF CloseAgain
  <2>2. NoneNew
    BY <1>10 DEF CloseAgain, To, TypeOK, Alive, Living
  <2> QED
    BY <2>1, <2>2
<1>11. CASE AcceptFails(p)
  <2>1. UNCHANGED <<patchbay, begins>>
    BY <1>11 DEF AcceptFails
  <2>2. NoneNew
    BY <1>11 DEF AcceptFails, To, TypeOK, Alive, Living
  <2> QED
    BY <2>1, <2>2
<1>12. CASE Die(p)
  <2>1. UNCHANGED <<patchbay, begins>>
    BY <1>12 DEF Die
  <2>2. NoneNew
    BY <1>12 DEF Die, Ends, TypeOK, Alive, Living
  <2> QED
    BY <2>1, <2>2
<1>13. CASE Interrupt(p)
  <2>1. UNCHANGED <<patchbay, begins>>
    BY <1>13 DEF Interrupt
  <2>2. NoneNew
    BY <1>13 DEF Interrupt, TypeOK, Alive, Living
  <2> QED
    BY <2>1, <2>2
<1> QED
  BY <1>1, <1>2, <1>3, <1>4, <1>5, <1>6, <1>7, <1>8, <1>9, <1>10, <1>11, <1>12, <1>13 DEF Serve

\* One start at a time, and what it says of the child it waits for.
LEMMA BegunKept ==
  ASSUME TypeOK, Begun, [Next]_vars
  PROVE  Begun'
<1> USE SupervisorAssumption DEF Procs
<1>1. ASSUME NEW p \in Procs, Serve(p)
      PROVE  Begun'
  <2>1. UNCHANGED <<patchbay, begins>>
    BY <1>1, DaemonStep
  <2> QED
    BY <2>1 DEF patchbay, begins, Begun, OneStart, EmptyProbe, ChildKnown, StartingIsAtWork
<1>2. ASSUME NEW b \in Starts, Start(b)
      PROVE  Begun'
  BY <1>2
  DEF Start, Goes, patchbay, TypeOK, Begun, OneStart, EmptyProbe, ChildKnown, StartingIsAtWork
<1>3. ASSUME NEW b \in Starts, Adopt(b)
      PROVE  Begun'
  BY <1>3
  DEF Adopt, Goes, Returns, TypeOK, Begun, OneStart, EmptyProbe, ChildKnown, StartingIsAtWork
<1>4. ASSUME NEW b \in Starts, NotInstalled(b)
      PROVE  Begun'
  BY <1>4
  DEF NotInstalled, Goes, Returns, patchbay, TypeOK, Begun, OneStart, EmptyProbe, ChildKnown,
      StartingIsAtWork
<1>5. ASSUME NEW b \in Starts, Spawn(b)
      PROVE  Begun'
  BY <1>5
  DEF Spawn, To, Goes, Unborn, TypeOK, Begun, OneStart, EmptyProbe, ChildKnown,
      StartingIsAtWork
<1>6. ASSUME NEW b \in Starts, Ask(b)
      PROVE  Begun'
  BY <1>6
  DEF Ask, Goes, patchbay, TypeOK, Begun, OneStart, EmptyProbe, ChildKnown, StartingIsAtWork
<1>7. ASSUME NEW b \in Starts, Gone(b)
      PROVE  Begun'
  BY <1>7
  DEF Gone, Goes, Returns, patchbay, TypeOK, Begun, OneStart, EmptyProbe, ChildKnown,
      StartingIsAtWork
<1>8. ASSUME NEW b \in Starts, Up(b)
      PROVE  Begun'
  BY <1>8
  DEF Up, Goes, Returns, TypeOK, Begun, OneStart, EmptyProbe, ChildKnown, StartingIsAtWork
<1>9. ASSUME NEW b \in Starts, Again(b)
      PROVE  Begun'
  BY <1>9
  DEF Again, Goes, patchbay, TypeOK, Begun, OneStart, EmptyProbe, ChildKnown, StartingIsAtWork
<1>10. ASSUME NEW b \in Starts, GiveUp(b)
      PROVE  Begun'
  BY <1>10
  DEF GiveUp, Goes, Returns, StopNow, Forget, TypeOK, Begun, OneStart, EmptyProbe, ChildKnown,
      StartingIsAtWork
<1>11. CASE Stop
  BY <1>11
  DEF Stop, StopNow, Forget, begins, TypeOK, Begun, OneStart, EmptyProbe, ChildKnown,
      StartingIsAtWork
<1>12. CASE WindDown
  BY <1>12 DEF WindDown, begins, Begun, OneStart, EmptyProbe, ChildKnown, StartingIsAtWork
<1>13. ASSUME NEW p \in Ours, Kill(p)
      PROVE  Begun'
  BY <1>13 DEF Kill, begins, Begun, OneStart, EmptyProbe, ChildKnown, StartingIsAtWork
<1>14. ASSUME NEW p \in Ours, ExitEvent(p)
      PROVE  Begun'
  BY <1>14 DEF ExitEvent, begins, Begun, OneStart, EmptyProbe, ChildKnown, StartingIsAtWork
<1>15. CASE UNCHANGED vars
  BY <1>15 DEF vars, patchbay, begins, Begun, OneStart, EmptyProbe, ChildKnown, StartingIsAtWork
<1> QED
  BY <1>1, <1>2, <1>3, <1>4, <1>5, <1>6, <1>7, <1>8, <1>9, <1>10, <1>11, <1>12, <1>13, <1>14,
     <1>15
  DEF Next, Begin

\* A child is lost to nothing but a stop, which tells it, and the exit of another.
LEMMA OrphanKept ==
  ASSUME IInv, [Next]_vars
  PROVE  NoOrphan'
<1> USE SupervisorAssumption DEF Procs
<1>1. ASSUME NEW p \in Procs, Serve(p)
      PROVE  NoOrphan'
  <2>1. /\ UNCHANGED <<patchbay, begins>>
        /\ \A q \in Ours : Alive(q)' /\ q \notin told' => Alive(q) /\ q \notin told
    BY <1>1, DaemonStep DEF IInv
  <2> QED
    BY <2>1 DEF patchbay, IInv, NoOrphan
<1>2. ASSUME NEW b \in Starts, Start(b)
      PROVE  NoOrphan'
  BY <1>2 DEF Start, patchbay, system, IInv, NoOrphan, Alive
<1>3. ASSUME NEW b \in Starts, Adopt(b)
      PROVE  NoOrphan'
  BY <1>3 DEF Adopt, system, IInv, NoOrphan, Alive
<1>4. ASSUME NEW b \in Starts, NotInstalled(b)
      PROVE  NoOrphan'
  BY <1>4 DEF NotInstalled, patchbay, system, IInv, NoOrphan, Alive
<1>5. ASSUME NEW b \in Starts, Spawn(b)
      PROVE  NoOrphan'
  BY <1>5 DEF Spawn, To, Goes, Unborn, IInv, TypeOK, Begun, EmptyProbe, NoOrphan, Alive, Living
<1>6. ASSUME NEW b \in Starts, Ask(b)
      PROVE  NoOrphan'
  BY <1>6 DEF Ask, patchbay, system, IInv, NoOrphan, Alive
<1>7. ASSUME NEW b \in Starts, Gone(b)
      PROVE  NoOrphan'
  BY <1>7 DEF Gone, patchbay, system, IInv, NoOrphan, Alive
<1>8. ASSUME NEW b \in Starts, Up(b)
      PROVE  NoOrphan'
  BY <1>8 DEF Up, system, IInv, NoOrphan, Alive
<1>9. ASSUME NEW b \in Starts, Again(b)
      PROVE  NoOrphan'
  BY <1>9 DEF Again, patchbay, system, IInv, NoOrphan, Alive
<1>10. ASSUME NEW b \in Starts, GiveUp(b)
      PROVE  NoOrphan'
  BY <1>10
  DEF GiveUp, StopNow, StopChild, StopAdopted, StopNothing, Terminate, IInv, TypeOK, NoOrphan,
      Alive
<1>11. CASE Stop
  BY <1>11
  DEF Stop, StopNow, StopChild, StopAdopted, StopNothing, Terminate, IInv, TypeOK, NoOrphan,
      Alive
<1>12. CASE WindDown
  BY <1>12 DEF WindDown, system, IInv, NoOrphan, Alive
<1>13. ASSUME NEW p \in Ours, Kill(p)
      PROVE  NoOrphan'
  BY <1>13 DEF Kill, Ends, IInv, TypeOK, NoOrphan, Alive, Living
<1>14. ASSUME NEW p \in Ours, ExitEvent(p)
      PROVE  NoOrphan'
  BY <1>14 DEF ExitEvent, Strays, To, IInv, TypeOK, NoOrphan, Alive, Living
<1>15. CASE UNCHANGED vars
  BY <1>15 DEF vars, patchbay, system, IInv, NoOrphan, Alive
<1> QED
  BY <1>1, <1>2, <1>3, <1>4, <1>5, <1>6, <1>7, <1>8, <1>9, <1>10, <1>11, <1>12, <1>13, <1>14,
     <1>15
  DEF Next, Begin

\* The beginning: nothing runs, nothing is recorded.
LEMMA StartsWell == Init => IInv
<1> SUFFICES ASSUME Init
             PROVE  IInv
  OBVIOUS
<1>1. TypeOK
  <2>1. 0 \in 0 .. MaxRounds - 1
    BY SupervisorAssumption
  <2>2. /\ at \in [Starts -> {"idle", "probe", "wait", "ask"}]
        /\ saw \in [Starts -> BOOLEAN] /\ rounds \in [Starts -> 0 .. MaxRounds - 1]
        /\ proc \in [Procs -> Living \cup {"unborn", "exited", "reaped"}]
        /\ left \in [Ours -> {"no", "stopped", "strayed"}]
    BY <2>1, Zenon DEF Init
  <2> QED
    BY <2>2, Zenon DEF Init, TypeOK
<1>2. Begun
  BY DEF Init, Begun, OneStart, EmptyProbe, ChildKnown, StartingIsAtWork
<1>3. NoOrphan
  BY DEF Init, NoOrphan, Alive, Living, Procs
<1> QED
  BY <1>1, <1>2, <1>3 DEF IInv

LEMMA IInvHolds == Spec => []IInv
<1>1. IInv /\ [Next]_vars => IInv'
  BY TypeKept, BegunKept, OrphanKept DEF IInv
<1> QED
  BY <1>1, StartsWell, PTL DEF Spec

\* The types: in particular a wait never counts past its last round, and only
\* processes of Patchbay's own get the SIGKILL timer.
THEOREM SupervisorTyped == Spec => []TypeOK
<1>1. IInv => TypeOK
  BY DEF IInv
<1> QED
  BY <1>1, IInvHolds, PTL

\* A daemon of Patchbay's own that runs and was not told to stop is its child,
\* whatever overlaps with what, unless the exit of an earlier child has taken
\* it from Patchbay (daemon.ts 192-193).
THEOREM DaemonsSupervised == Spec => []NoOrphan
<1>1. IInv => NoOrphan
  BY DEF IInv
<1> QED
  BY <1>1, IInvHolds, PTL

\* Patchbay says "starting" only while a start is at work on a child it has,
\* whatever stops, exits and rivals come in between.
THEOREM NeverStartingForNothing == Spec => []StartingIsAtWork
<1>1. IInv => StartingIsAtWork
  BY DEF IInv, Begun
<1> QED
  BY <1>1, IInvHolds, PTL
=============================================================================
