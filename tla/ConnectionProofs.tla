-------------------------- MODULE ConnectionProofs --------------------------
(* The connections of a server, for any number of threads and calls. *)
EXTENDS Connection, TLAPS

\* Where a thread stands: outside the lock, opening under it, leaving under it.
Outdoors == {"idle", "connect", "launch", "await bridge", "shared?", "quit", "force",
             "lock", "confirm", "lock to leave"}
Opening  == {"open", "listen", "beat", "handshake", "version", "claim"}
Leaving  == {"silence", "goodbye", "close"}

Shaped ==
  /\ app \in {"down", "stock", "instrumented"} /\ session \in {"nobody's", "app", "ours"}
  /\ holder \in Workers \cup {None}
  /\ pc \in [Workers -> Outdoors \cup Opening \cup Leaving]
  /\ call \in [Workers -> Calls \cup {None}]
  /\ reply \in [Workers -> Modes \cup {"already", "which?", "error", "done", None}]

Built == qc \in Objects \cup {None} /\ new \in Objects \cup {None}

\* Only the holder of _lock has an object half made, or one half closed.
Locked(w) ==
  /\ pc[w] \in Opening => holder = w /\ qc = None /\ new # None
  /\ pc[w] \in Leaving => holder = w /\ qc # None /\ new = None

\* An object under the lock has somebody who opens it; a claimed one is open.
Kept ==
  /\ new # None => holder # None /\ pc[holder] \in Opening
  /\ qc # None => qc.opened /\ ~(qc.riding /\ qc.beats)

\* How far the object is that a thread opens.
Half(w) ==
  /\ pc[w] \in {"listen", "beat", "handshake", "version", "claim"} => new.opened
  /\ pc[w] \in {"open", "listen"} => ~new.beats
  /\ pc[w] \in {"open", "listen", "beat", "handshake"} => ~new.riding
  /\ pc[w] \in {"listen", "beat", "handshake"} => new.mode # "bridge"
  /\ pc[w] \in {"version", "claim"} /\ new.riding => ~new.beats /\ new.mode # "bridge"

\* Before a handshake, the app is down or without the unit, or the calm is over.
Polite(w) ==
  pc[w] \in {"beat", "handshake"} /\ calm => app = "down" \/ session = "nobody's"

\* A session of our own has an object that will say goodbye for it.
Owns(o) == o # None /\ o.mode # "bridge" /\ ~o.riding
Owned ==
  session = "ours" /\ ~left =>
    Owns(qc) \/ (Owns(new) /\ pc[holder] \in {"version", "claim"})

\* After the goodbye, or with nobody to say it, the session is over.
Gone(w) == pc[w] = "close" => session # "ours" \/ left

\* A call for direct mode that has the server to itself finds no connection, and
\* what it opens is direct.
Direct(w) == call[w].tool = "connect" /\ call[w].mode = "direct"
Apart(w) == alone[w] /\ pc[w] # "idle" => \A u \in Workers \ {w} : pc[u] = "idle"
Forced(w) ==
  alone[w] /\ (pc[w] # "idle" \/ reply[w] # None) /\ Direct(w) =>
    /\ pc[w] = "idle" /\ reply[w] \in Modes => reply[w] = "direct"
    /\ pc[w] \notin {"launch", "await bridge", "shared?", "lock to leave"} \cup Leaving
    /\ pc[w] \in {"quit", "force", "lock"} => qc = None
    /\ pc[w] = "lock" => forced /\ ~share
    /\ pc[w] \in Opening => new.mode = "direct"
    /\ pc[w] = "confirm" => qc # None /\ qc.mode = "direct"

Global == Shaped /\ Built /\ Kept /\ Owned /\ ~kicked
Worker(w) == Locked(w) /\ Half(w) /\ Polite(w) /\ Gone(w) /\ Apart(w) /\ Forced(w)
IInv == Global /\ \A w \in Workers : Worker(w)

\* No object is None, and a new one has done nothing yet.
LEMMA FreshObject ==
  ASSUME NEW m \in Modes
  PROVE  /\ Fresh(m) \in Objects /\ Fresh(m) # None
         /\ Fresh(m).mode = m /\ ~Fresh(m).beats /\ ~Fresh(m).riding
<1>1. Fresh(m) \in Objects
  BY DEF Objects, Fresh
<1>2. Fresh(m) # None
  BY <1>1, NoneAssumption
<1> QED
  BY <1>1, <1>2 DEF Fresh

\* What a change of one field of an object leaves as it was.
LEMMA Fields ==
  ASSUME NEW o \in Objects, NEW p
  PROVE  /\ o # None /\ o.mode \in Modes
         /\ p = [o EXCEPT !.opened = TRUE] =>
              /\ p \in Objects /\ p # None /\ p.opened
              /\ p.mode = o.mode /\ p.beats = o.beats /\ p.riding = o.riding
         /\ p = [o EXCEPT !.riding = TRUE] =>
              /\ p \in Objects /\ p # None /\ p.riding
              /\ p.mode = o.mode /\ p.beats = o.beats /\ p.opened = o.opened
         /\ p = [o EXCEPT !.riding = FALSE] =>
              /\ p \in Objects /\ p # None /\ ~p.riding
              /\ p.mode = o.mode /\ p.beats = o.beats /\ p.opened = o.opened
         /\ p = [o EXCEPT !.beats = TRUE] =>
              /\ p \in Objects /\ p # None /\ p.beats
              /\ p.mode = o.mode /\ p.riding = o.riding /\ p.opened = o.opened
         /\ p = [o EXCEPT !.beats = FALSE] =>
              /\ p \in Objects /\ p # None /\ ~p.beats
              /\ p.mode = o.mode /\ p.riding = o.riding /\ p.opened = o.opened
         /\ p = [o EXCEPT !.firmware = TRUE] =>
              /\ p \in Objects /\ p # None /\ p.riding = o.riding
              /\ p.mode = o.mode /\ p.beats = o.beats /\ p.opened = o.opened
  BY NoneAssumption DEF Objects

-----------------------------------------------------------------------------
(* What the steps do, with the objects spelled out *)

Ends(w) == \E r \in {"already", "which?", "error", "done"} : Say(w, r)

Connects(w) ==
  /\ pc[w] = "connect" /\ UNCHANGED <<Outside, share, qc, new, holder, calm>>
  /\ \/ Ends(w)
     \/ call[w].mode # "direct" /\ (Goto(w, "shared?") \/ Goto(w, "launch"))
     \/ qc = None /\ (Goto(w, "quit") \/ Goto(w, "force"))

\* connect() decides outside the lock which way to go, and touches no object.
LEMMA ConnectStep ==
  ASSUME NEW w \in Workers, Connect(w) PROVE Connects(w)
<1> USE DEF Connects, Connect, Ends
<1>1. CASE qc # None /\ Say(w, "already") /\ UNCHANGED env
  BY <1>1 DEF env
<1>2. CASE qc = None /\ Say(w, "which?") /\ UNCHANGED env
  BY <1>2 DEF env
<1>3. CASE /\ Mode(call[w]) = "bridge" /\ UNCHANGED share
           /\ Goto(w, IF BridgeRunning THEN "shared?" ELSE "launch")
  <2>1. call[w].mode # "direct"
    BY <1>3 DEF Mode
  <2> QED
    BY <1>3, <2>1
<1>4. CASE /\ qc = None /\ UNCHANGED env
           /\ IF call[w].quit THEN Goto(w, "quit") ELSE Say(w, "error")
  BY <1>4 DEF env
<1>5. CASE qc = None /\ Goto(w, "force") /\ UNCHANGED env
  BY <1>5 DEF env
<1> QED
  BY <1>1, <1>2, <1>3, <1>4, <1>5

Locks(w) ==
  /\ pc[w] = "lock" /\ holder = None /\ holder' = w /\ Goto(w, "open")
  /\ qc = None /\ UNCHANGED <<Outside, env, qc>>
  /\ new' \in Objects /\ new' # None /\ ~new'.beats /\ ~new'.riding
  /\ forced /\ ~share => new'.mode = "direct"

\* Where there is no connection, the lock is taken to make an object for one.
LEMMA LockStep ==
  ASSUME NEW w \in Workers, Lock(w), qc = None PROVE Locks(w)
<1>1. PICK m \in Modes : new' = Fresh(m) /\ (forced /\ ~share => m = "direct")
  BY DEF Lock, Modes
<1> QED
  BY <1>1, FreshObject DEF Lock, Locks

Opens(w) ==
  /\ pc[w] = "open" /\ UNCHANGED <<Outside, env, qc, calm>>
  /\ \/ /\ new' \in Objects /\ new' # None /\ new'.opened /\ new'.mode = new.mode
        /\ new'.beats = new.beats /\ new'.riding = new.riding /\ holder' = holder
        /\ \/ new.mode = "bridge" /\ Goto(w, "version")
           \/ new.mode = "shared" /\ Goto(w, "listen")
           \/ new.mode = "direct" /\ app = "down" /\ Goto(w, "beat")
     \/ /\ new' \in Objects /\ new' # None /\ new'.mode = "direct"
        /\ ~new'.beats /\ ~new'.riding /\ UNCHANGED <<threads, holder>>
     \/ new' = None /\ holder' = None /\ Say(w, "error")

\* A bridge opens, the device opens when the app is down, or the object is given up.
LEMMA OpenIoStep ==
  ASSUME Built, NEW w \in Workers, Locked(w), OpenIo(w) PROVE Opens(w)
<1>1. new \in Objects
  BY DEF OpenIo, Locked, Built, Opening
<1> USE DEF OpenIo, Opens
<1>2. CASE CanOpen(new) /\ new' = [new EXCEPT !.opened = TRUE]
           /\ holder' = holder
           /\ Goto(w, CASE new.mode = "bridge" -> "version" [] new.mode = "shared" -> "listen"
                        [] new.mode = "direct" -> "beat")
  <2>1. /\ new.mode \in Modes /\ new' \in Objects /\ new' # None /\ new'.opened
        /\ new'.mode = new.mode /\ new'.beats = new.beats /\ new'.riding = new.riding
    BY <1>1, <1>2, Fields
  <2> QED
    BY <1>2, <2>1 DEF Modes, CanOpen
<1>3. CASE new' = Fresh("direct") /\ UNCHANGED <<threads, holder>>
  BY <1>3, FreshObject DEF Modes
<1>4. CASE Unlock /\ Say(w, "error")
  BY <1>4 DEF Unlock
<1> QED
  BY <1>2, <1>3, <1>4

Listens(w) ==
  /\ pc[w] = "listen" /\ UNCHANGED <<Outside, env, qc, holder, calm>>
  /\ new' \in Objects /\ new' # None /\ new'.opened = new.opened
  /\ new'.mode = new.mode /\ new'.beats = new.beats
  /\ \/ session # "nobody's" /\ Goto(w, "version")
     \/ session = "nobody's" /\ Goto(w, "beat") /\ new' = new

\* A connection that hears a session rides it; one that hears none starts its own.
LEMMA ListenStep ==
  ASSUME Built, NEW w \in Workers, Locked(w), Listen(w) PROVE Listens(w)
<1>1. new \in Objects
  BY DEF Listen, Locked, Built, Opening
<1> QED
  BY <1>1, Fields DEF Listen, Listens

Beats(w) ==
  /\ pc[w] = "beat" /\ Goto(w, "handshake") /\ UNCHANGED <<Outside, env, qc, holder, calm>>
  /\ new' \in Objects /\ new' # None /\ new'.opened = new.opened
  /\ new'.mode = new.mode /\ new'.riding = new.riding

\* A connection that starts a session of its own begins to beat.
LEMMA BeatStep ==
  ASSUME Built, NEW w \in Workers, Locked(w), Beat(w) PROVE Beats(w)
<1>1. new \in Objects
  BY DEF Beat, Locked, Built, Opening
<1> QED
  BY <1>1, Fields DEF Beat, Beats

Versions(w) ==
  /\ pc[w] = "version" /\ UNCHANGED <<Outside, env, qc, holder>>
  /\ new' \in Objects /\ new' # None /\ new'.opened = new.opened
  /\ new'.mode = new.mode /\ new'.beats = new.beats
  /\ \/ Goto(w, "claim") /\ new'.riding = new.riding /\ calm' = calm
     \/ Goto(w, "beat") /\ new.riding /\ ~new'.riding /\ calm' = FALSE

\* A version that does not come ends the ride and starts the handshake.
LEMMA VersionStep ==
  ASSUME Built, NEW w \in Workers, Locked(w), Half(w), Version(w) PROVE Versions(w)
<1>1. new \in Objects
  BY DEF Version, Locked, Built, Opening
<1> USE DEF Version, Versions
<1>2. CASE new' = [new EXCEPT !.firmware = TRUE] /\ Goto(w, "claim") /\ UNCHANGED calm
  BY <1>1, <1>2, Fields
<1>3. CASE new.riding /\ new' = [new EXCEPT !.riding = FALSE] /\ Goto(w, "beat") /\ calm' = FALSE
  BY <1>1, <1>3, Fields
<1>4. CASE Goto(w, "claim") /\ UNCHANGED <<new, calm>>
  BY <1>1, <1>4, Fields
<1> QED
  BY <1>2, <1>3, <1>4

Silences(w) ==
  /\ pc[w] = "silence" /\ Goto(w, "goodbye") /\ UNCHANGED <<Outside, env, new, holder, calm>>
  /\ qc' \in Objects /\ qc' # None /\ qc'.opened = qc.opened
  /\ qc'.mode = qc.mode /\ ~qc'.beats /\ qc'.riding = qc.riding

\* Before the goodbye the connection stops beating.
LEMMA SilenceStep ==
  ASSUME Built, NEW w \in Workers, Locked(w), Silence(w) PROVE Silences(w)
<1>1. qc \in Objects
  BY DEF Silence, Locked, Built, Leaving
<1> QED
  BY <1>1, Fields DEF Silence, Silences

-----------------------------------------------------------------------------
(* Every step keeps the invariant *)

\* A thread beside the one that steps: it keeps its own part of the invariant if
\* it is outside the lock, or if the step leaves the objects alone.
LEMMA Bystander ==
  ASSUME IInv, NEW w \in Workers, NEW v \in Workers, v # w,
         pc'[v] = pc[v], call'[v] = call[v], reply'[v] = reply[v],
         alone'[v] = FALSE \/ (alone'[v] = alone[v] /\ pc[w] # "idle"),
         \/ pc[v] \notin Opening \cup Leaving
         \/ /\ UNCHANGED <<new, qc, holder>>
            /\ UNCHANGED <<app, session, calm>> \/ calm' = FALSE
            /\ session' = "ours" => session = "ours"
            /\ left' = left
  PROVE  Worker(v)'
<1>1. Worker(v)
  BY DEF IInv
<1>2. Locked(v)' /\ Half(v)'
  BY <1>1 DEF Worker, Locked, Half, Opening, Leaving
<1>3. Polite(v)' /\ Gone(v)'
  BY <1>1 DEF Worker, Polite, Gone, Opening, Leaving
<1>4. Apart(v)' /\ Forced(v)'
  <2>1. CASE alone'[v] = FALSE
    BY <2>1 DEF Apart, Forced
  <2>2. CASE alone'[v] = alone[v] /\ pc[w] # "idle"
    <3>1. alone[v] => pc[v] = "idle"
      BY <1>1, <2>2 DEF Worker, Apart
    <3> QED
      BY <1>1, <2>2, <3>1 DEF Worker, Apart, Forced, Direct, Opening, Leaving
  <2> QED
    BY <2>1, <2>2
<1> QED
  BY <1>2, <1>3, <1>4 DEF Worker

\* connect decides and answers, or goes on; it changes nothing of the connection.
LEMMA ConnectKeeps ==
  ASSUME IInv, NEW w \in Workers, Connect(w) PROVE IInv'
<1>1. Global /\ Worker(w)
  BY DEF IInv
<1> USE <1>1, NoneAssumption DEF Global, Worker, Shaped, Outside, env, threads, Goto, Say
<1>2. Connects(w)
  BY ConnectStep
<1>3. ASSUME NEW v \in Workers, v # w PROVE Worker(v)'
  BY <1>2, <1>3, Bystander DEF Connects, Ends
<1>4. Shaped' /\ Built'
  BY <1>2 DEF Connects, Ends, Built, Outdoors, Opening, Leaving
<1>5. Kept'
  BY <1>2 DEF Connects, Ends, Kept, Locked, Half, Opening, Leaving
<1>6. Owned' /\ ~kicked'
  BY <1>2 DEF Connects, Ends, Owned, Owns, Locked, Half, Gone, Polite, Opening, Leaving, Kept
<1>7. Locked(w)' /\ Half(w)'
  BY <1>2 DEF Connects, Ends, Locked, Half, Opening, Leaving, Kept
<1>8. Polite(w)' /\ Gone(w)'
  BY <1>2 DEF Connects, Ends, Polite, Gone, Owned, Owns, Locked, Half, Opening, Leaving
<1>9. Apart(w)'
  BY <1>2 DEF Connects, Ends, Apart
<1>10. Forced(w)'
  <2> USE DEF Connects, Ends, Forced, Direct, Locked, Opening, Leaving, Modes
  <2>1. ASSUME NEW r \in {"already", "which?", "error"}, Say(w, r) PROVE Forced(w)'
    BY <1>2, <2>1
  <2>2. CASE Goto(w, "shared?") \/ Goto(w, "launch")
    BY <1>2, <2>2
  <2>3. CASE qc = None /\ (Goto(w, "quit") \/ Goto(w, "force"))
    BY <1>2, <2>3
  <2> QED
    BY <1>2, <2>1, <2>2, <2>3
<1> QED
  BY <1>3, <1>4, <1>5, <1>6, <1>7, <1>8, <1>9, <1>10 DEF IInv

\* _launch_bridge may start the app, which ends the calm.
LEMMA LaunchKeeps ==
  ASSUME IInv, NEW w \in Workers, Launch(w) PROVE IInv'
<1>1. Global /\ Worker(w)
  BY DEF IInv
<1> USE <1>1, NoneAssumption DEF Global, Worker, Shaped, Outside, env, threads, Goto, Say
<1>2. Launch(w)
  OBVIOUS
<1>3. ASSUME NEW v \in Workers, v # w PROVE Worker(v)'
  BY <1>2, <1>3, Bystander DEF Launch, Taken, Exclusive
<1>4. Shaped' /\ Built'
  BY <1>2 DEF Launch, Taken, Exclusive, Built, Outdoors, Opening, Leaving
<1>5. Kept'
  <2>1. new # None => holder \in Workers /\ holder # w
    BY <1>2 DEF Launch, Kept, Opening
  <2> QED
    BY <1>2, <2>1 DEF Launch, Kept
<1>6. Owned' /\ ~kicked'
  <2>1. new # None => holder \in Workers /\ holder # w
    BY <1>2 DEF Launch, Kept, Opening
  <2>2. new # None => pc'[holder] = pc[holder]
    BY <1>2, <2>1 DEF Launch
  <2>3. /\ UNCHANGED <<qc, new, holder, kicked, left>>
        /\ session' = "ours" => session = "ours"
    BY <1>2 DEF Launch
  <2> QED
    BY <2>2, <2>3 DEF Owned, Owns
<1>7. Locked(w)' /\ Half(w)'
  BY <1>2 DEF Launch, Taken, Exclusive, Locked, Half, Opening, Leaving, Kept
<1>8. Polite(w)' /\ Gone(w)'
  BY <1>2 DEF Launch, Taken, Exclusive, Polite, Gone, Owned, Owns, Locked, Half, Opening, Leaving
<1>9. Apart(w)'
  BY <1>2 DEF Launch, Taken, Exclusive, Apart
<1>10. Forced(w)'
  BY <1>2 DEF Launch, Taken, Exclusive, Forced, Direct, Locked, Opening, Leaving
<1> QED
  BY <1>3, <1>4, <1>5, <1>6, <1>7, <1>8, <1>9, <1>10 DEF IInv

\* The app came, or it did not.
LEMMA AwaitBridgeKeeps ==
  ASSUME IInv, NEW w \in Workers, AwaitBridge(w) PROVE IInv'
<1>1. Global /\ Worker(w)
  BY DEF IInv
<1> USE <1>1, NoneAssumption DEF Global, Worker, Shaped, Outside, env, threads, Goto, Say
<1>2. AwaitBridge(w)
  OBVIOUS
<1>3. ASSUME NEW v \in Workers, v # w PROVE Worker(v)'
  BY <1>2, <1>3, Bystander DEF AwaitBridge, BridgeRunning
<1>4. Shaped' /\ Built'
  BY <1>2 DEF AwaitBridge, BridgeRunning, Built, Outdoors, Opening, Leaving
<1>5. Kept'
  <2>1. new # None => holder \in Workers /\ holder # w
    BY <1>2 DEF AwaitBridge, Kept, Opening
  <2> QED
    BY <1>2, <2>1 DEF AwaitBridge, Kept
<1>6. Owned' /\ ~kicked'
  <2>1. new # None => holder \in Workers /\ holder # w
    BY <1>2 DEF AwaitBridge, Kept, Opening
  <2>2. new # None => pc'[holder] = pc[holder]
    BY <1>2, <2>1 DEF AwaitBridge
  <2>3. /\ UNCHANGED <<qc, new, holder, kicked, left>>
        /\ session' = "ours" => session = "ours"
    BY <1>2 DEF AwaitBridge
  <2> QED
    BY <2>2, <2>3 DEF Owned, Owns
<1>7. Locked(w)' /\ Half(w)'
  BY <1>2 DEF AwaitBridge, BridgeRunning, Locked, Half, Opening, Leaving, Kept
<1>8. Polite(w)' /\ Gone(w)'
  BY <1>2 DEF AwaitBridge, BridgeRunning, Polite, Gone, Owned, Owns, Locked, Half, Opening, Leaving
<1>9. Apart(w)'
  BY <1>2 DEF AwaitBridge, BridgeRunning, Apart
<1>10. Forced(w)'
  BY <1>2 DEF AwaitBridge, BridgeRunning, Forced, Direct, Locked, Opening, Leaving
<1> QED
  BY <1>3, <1>4, <1>5, <1>6, <1>7, <1>8, <1>9, <1>10 DEF IInv

\* QC_SHARE is set, for a call that did not ask for direct mode.
LEMMA ShareKeeps ==
  ASSUME IInv, NEW w \in Workers, Share(w) PROVE IInv'
<1>1. Global /\ Worker(w)
  BY DEF IInv
<1> USE <1>1, NoneAssumption DEF Global, Worker, Shaped, Outside, env, threads, Goto, Say
<1>2. Share(w)
  OBVIOUS
<1>3. ASSUME NEW v \in Workers, v # w PROVE Worker(v)'
  BY <1>2, <1>3, Bystander DEF Share
<1>4. Shaped' /\ Built'
  BY <1>2 DEF Share, Built, Outdoors, Opening, Leaving
<1>5. Kept'
  BY <1>2 DEF Share, Kept, Locked, Half, Opening, Leaving
<1>6. Owned' /\ ~kicked'
  BY <1>2 DEF Share, Owned, Owns, Locked, Half, Gone, Polite, Opening, Leaving, Kept
<1>7. Locked(w)' /\ Half(w)'
  BY <1>2 DEF Share, Locked, Half, Opening, Leaving, Kept
<1>8. Polite(w)' /\ Gone(w)'
  BY <1>2 DEF Share, Polite, Gone, Owned, Owns, Locked, Half, Opening, Leaving
<1>9. Apart(w)'
  BY <1>2 DEF Share, Apart
<1>10. Forced(w)'
  BY <1>2 DEF Share, Forced, Direct, Locked, Opening, Leaving
<1> QED
  BY <1>3, <1>4, <1>5, <1>6, <1>7, <1>8, <1>9, <1>10 DEF IInv

\* The app quits or stays, and the calm is over.
LEMMA QuitAppKeeps ==
  ASSUME IInv, NEW w \in Workers, QuitApp(w) PROVE IInv'
<1>1. Global /\ Worker(w)
  BY DEF IInv
<1> USE <1>1, NoneAssumption DEF Global, Worker, Shaped, Outside, env, threads, Goto, Say
<1>2. QuitApp(w)
  OBVIOUS
<1>3. ASSUME NEW v \in Workers, v # w PROVE Worker(v)'
  BY <1>2, <1>3, Bystander DEF QuitApp
<1>4. Shaped' /\ Built'
  BY <1>2 DEF QuitApp, Built, Outdoors, Opening, Leaving
<1>5. Kept'
  BY <1>2 DEF QuitApp, Kept, Locked, Half, Opening, Leaving
<1>6. Owned' /\ ~kicked'
  BY <1>2 DEF QuitApp, Owned, Owns, Locked, Half, Gone, Polite, Opening, Leaving, Kept
<1>7. Locked(w)' /\ Half(w)'
  BY <1>2 DEF QuitApp, Locked, Half, Opening, Leaving, Kept
<1>8. Polite(w)' /\ Gone(w)'
  BY <1>2 DEF QuitApp, Polite, Gone, Owned, Owns, Locked, Half, Opening, Leaving
<1>9. Apart(w)'
  BY <1>2 DEF QuitApp, Apart
<1>10. Forced(w)'
  BY <1>2 DEF QuitApp, Forced, Direct, Locked, Opening, Leaving
<1> QED
  BY <1>3, <1>4, <1>5, <1>6, <1>7, <1>8, <1>9, <1>10 DEF IInv

\* QC_BRIDGE=0 without QC_SHARE: what is opened next will be direct.
LEMMA ForceDirectKeeps ==
  ASSUME IInv, NEW w \in Workers, ForceDirect(w) PROVE IInv'
<1>1. Global /\ Worker(w)
  BY DEF IInv
<1> USE <1>1, NoneAssumption DEF Global, Worker, Shaped, Outside, env, threads, Goto, Say
<1>2. ForceDirect(w)
  OBVIOUS
<1>3. ASSUME NEW v \in Workers, v # w PROVE Worker(v)'
  BY <1>2, <1>3, Bystander DEF ForceDirect
<1>4. Shaped' /\ Built'
  BY <1>2 DEF ForceDirect, Built, Outdoors, Opening, Leaving
<1>5. Kept'
  BY <1>2 DEF ForceDirect, Kept, Locked, Half, Opening, Leaving
<1>6. Owned' /\ ~kicked'
  BY <1>2 DEF ForceDirect, Owned, Owns, Locked, Half, Gone, Polite, Opening, Leaving, Kept
<1>7. Locked(w)' /\ Half(w)'
  BY <1>2 DEF ForceDirect, Locked, Half, Opening, Leaving, Kept
<1>8. Polite(w)' /\ Gone(w)'
  BY <1>2 DEF ForceDirect, Polite, Gone, Owned, Owns, Locked, Half, Opening, Leaving
<1>9. Apart(w)'
  BY <1>2 DEF ForceDirect, Apart
<1>10. Forced(w)'
  BY <1>2 DEF ForceDirect, Forced, Direct, Locked, Opening, Leaving
<1> QED
  BY <1>3, <1>4, <1>5, <1>6, <1>7, <1>8, <1>9, <1>10 DEF IInv

\* Under the lock there is no connection, and the object is new.
LEMMA LockOpens ==
  ASSUME IInv, NEW w \in Workers, Lock(w), qc = None PROVE IInv'
<1>1. Global /\ Worker(w)
  BY DEF IInv
<1> USE <1>1, NoneAssumption DEF Global, Worker, Shaped, Outside, env, threads, Goto, Say
<1>2. Locks(w)
  BY LockStep
<1>3. ASSUME NEW v \in Workers, v # w PROVE Worker(v)'
  <2>1. pc[v] \notin Opening \cup Leaving
    BY <1>2, <1>3 DEF IInv, Locked, Opening, Leaving, Locks
  <2> QED
    BY <1>2, <1>3, <2>1, Bystander DEF Locks, Endpoints
<1>4. Shaped' /\ Built'
  BY <1>2 DEF Locks, Endpoints, Built, Outdoors, Opening, Leaving
<1>5. Kept'
  BY <1>2 DEF Locks, Endpoints, Kept, Locked, Half, Opening, Leaving
<1>6. Owned' /\ ~kicked'
  BY <1>2 DEF Locks, Endpoints, Owned, Owns, Locked, Half, Gone, Polite, Opening, Leaving, Kept
<1>7. Locked(w)' /\ Half(w)'
  BY <1>2 DEF Locks, Endpoints, Locked, Half, Opening, Leaving, Kept
<1>8. Polite(w)' /\ Gone(w)'
  BY <1>2 DEF Locks, Endpoints, Polite, Gone, Owned, Owns, Locked, Half, Opening, Leaving
<1>9. Apart(w)'
  BY <1>2 DEF Locks, Endpoints, Apart
<1>10. Forced(w)'
  BY <1>2 DEF Locks, Endpoints, Forced, Direct, Locked, Opening, Leaving
<1> QED
  BY <1>3, <1>4, <1>5, <1>6, <1>7, <1>8, <1>9, <1>10 DEF IInv

\* A connection that is there already is used as it is.
LEMMA LockFinds ==
  ASSUME IInv, NEW w \in Workers, Lock(w), qc # None PROVE IInv'
<1>1. Global /\ Worker(w)
  BY DEF IInv
<1> USE <1>1, NoneAssumption DEF Global, Worker, Shaped, Outside, env, threads, Goto, Say
<1>2. Lock(w)
  OBVIOUS
<1>3. ASSUME NEW v \in Workers, v # w PROVE Worker(v)'
  BY <1>2, <1>3, Bystander DEF Lock
<1>4. Shaped' /\ Built'
  BY <1>2 DEF Lock, Built, Outdoors, Opening, Leaving
<1>5. Kept'
  BY <1>2 DEF Lock, Kept, Locked, Half, Opening, Leaving
<1>6. Owned' /\ ~kicked'
  BY <1>2 DEF Lock, Owned, Owns, Locked, Half, Gone, Polite, Opening, Leaving, Kept
<1>7. Locked(w)' /\ Half(w)'
  BY <1>2 DEF Lock, Locked, Half, Opening, Leaving, Kept
<1>8. Polite(w)' /\ Gone(w)'
  BY <1>2 DEF Lock, Polite, Gone, Owned, Owns, Locked, Half, Opening, Leaving
<1>9. Apart(w)'
  BY <1>2 DEF Lock, Apart
<1>10. Forced(w)'
  BY <1>2 DEF Lock, Forced, Direct, Locked, Opening, Leaving
<1> QED
  BY <1>3, <1>4, <1>5, <1>6, <1>7, <1>8, <1>9, <1>10 DEF IInv

\* Both ways _conn can go on once it has the lock.
LEMMA LockKeeps ==
  ASSUME IInv, NEW w \in Workers, Lock(w) PROVE IInv'
  BY LockOpens, LockFinds

\* The object is opened, made direct, or given up.
LEMMA OpenIoKeeps ==
  ASSUME IInv, NEW w \in Workers, OpenIo(w) PROVE IInv'
<1>1. Global /\ Worker(w)
  BY DEF IInv
<1> USE <1>1, NoneAssumption DEF Global, Worker, Shaped, Outside, env, threads, Goto, Say
<1>2. Opens(w)
  BY OpenIoStep
<1>3. ASSUME NEW v \in Workers, v # w PROVE Worker(v)'
  <2>1. pc[v] \notin Opening \cup Leaving
    BY <1>2, <1>3 DEF IInv, Locked, Opening, Leaving, Opens
  <2> QED
    BY <1>2, <1>3, <2>1, Bystander DEF Opens
<1>4. Shaped' /\ Built'
  BY <1>2 DEF Opens, Built, Outdoors, Opening, Leaving
<1>5. Kept'
  BY <1>2 DEF Opens, Kept, Locked, Half, Opening, Leaving
<1>6. Owned' /\ ~kicked'
  BY <1>2 DEF Opens, Owned, Owns, Locked, Half, Gone, Polite, Opening, Leaving, Kept
<1>7. Locked(w)' /\ Half(w)'
  BY <1>2 DEF Opens, Locked, Half, Opening, Leaving, Kept
<1>8. Polite(w)' /\ Gone(w)'
  BY <1>2 DEF Opens, Polite, Gone, Owned, Owns, Locked, Half, Opening, Leaving
<1>9. Apart(w)'
  BY <1>2 DEF Opens, Apart
<1>10. Forced(w)'
  <2>1. new'.mode = "direct" \/ new' = None \/ new'.mode = new.mode
    BY <1>2 DEF Opens
  <2>2. CASE alone'[w] /\ Direct(w)'
    <3>1. alone[w] /\ Direct(w) /\ new.mode = "direct"
      BY <1>2, <2>2 DEF Opens, Forced, Direct, Opening
    <3> QED
      BY <1>2, <2>1, <2>2, <3>1 DEF Opens, Forced, Opening, Leaving, Modes
  <2> QED
    BY <2>2 DEF Forced
<1> QED
  BY <1>3, <1>4, <1>5, <1>6, <1>7, <1>8, <1>9, <1>10 DEF IInv

\* Whoever hears the unit talk rides; whoever does not is alone with it.
LEMMA ListenKeeps ==
  ASSUME IInv, NEW w \in Workers, Listen(w) PROVE IInv'
<1>1. Global /\ Worker(w)
  BY DEF IInv
<1> USE <1>1, NoneAssumption DEF Global, Worker, Shaped, Outside, env, threads, Goto, Say
<1>2. Listens(w)
  BY ListenStep
<1>3. ASSUME NEW v \in Workers, v # w PROVE Worker(v)'
  <2>1. pc[v] \notin Opening \cup Leaving
    BY <1>2, <1>3 DEF IInv, Locked, Opening, Leaving, Listens
  <2> QED
    BY <1>2, <1>3, <2>1, Bystander DEF Listens
<1>4. Shaped' /\ Built'
  BY <1>2 DEF Listens, Built, Outdoors, Opening, Leaving
<1>5. Kept'
  BY <1>2 DEF Listens, Kept, Locked, Half, Opening, Leaving
<1>6. Owned' /\ ~kicked'
  BY <1>2 DEF Listens, Owned, Owns, Locked, Half, Gone, Polite, Opening, Leaving, Kept
<1>7. Locked(w)' /\ Half(w)'
  BY <1>2 DEF Listens, Locked, Half, Opening, Leaving, Kept
<1>8. Polite(w)' /\ Gone(w)'
  BY <1>2 DEF Listens, Polite, Gone, Owned, Owns, Locked, Half, Opening, Leaving
<1>9. Apart(w)'
  BY <1>2 DEF Listens, Apart
<1>10. Forced(w)'
  BY <1>2 DEF Listens, Forced, Direct, Locked, Opening, Leaving
<1> QED
  BY <1>3, <1>4, <1>5, <1>6, <1>7, <1>8, <1>9, <1>10 DEF IInv

\* The heartbeat runs on an object that does not ride.
LEMMA BeatKeeps ==
  ASSUME IInv, NEW w \in Workers, Beat(w) PROVE IInv'
<1>1. Global /\ Worker(w)
  BY DEF IInv
<1> USE <1>1, NoneAssumption DEF Global, Worker, Shaped, Outside, env, threads, Goto, Say
<1>2. Beats(w)
  BY BeatStep
<1>3. ASSUME NEW v \in Workers, v # w PROVE Worker(v)'
  <2>1. pc[v] \notin Opening \cup Leaving
    BY <1>2, <1>3 DEF IInv, Locked, Opening, Leaving, Beats
  <2> QED
    BY <1>2, <1>3, <2>1, Bystander DEF Beats
<1>4. Shaped' /\ Built'
  BY <1>2 DEF Beats, Built, Outdoors, Opening, Leaving
<1>5. Kept'
  BY <1>2 DEF Beats, Kept, Locked, Half, Opening, Leaving
<1>6. Owned' /\ ~kicked'
  BY <1>2 DEF Beats, Owned, Owns, Locked, Half, Gone, Polite, Opening, Leaving, Kept
<1>7. Locked(w)' /\ Half(w)'
  BY <1>2 DEF Beats, Locked, Half, Opening, Leaving, Kept
<1>8. Polite(w)' /\ Gone(w)'
  BY <1>2 DEF Beats, Polite, Gone, Owned, Owns, Locked, Half, Opening, Leaving
<1>9. Apart(w)'
  BY <1>2 DEF Beats, Apart
<1>10. Forced(w)'
  BY <1>2 DEF Beats, Forced, Direct, Locked, Opening, Leaving
<1> QED
  BY <1>3, <1>4, <1>5, <1>6, <1>7, <1>8, <1>9, <1>10 DEF IInv

\* The app, if it is there, has no session for the handshake to take.
LEMMA HandshakeKeeps ==
  ASSUME IInv, NEW w \in Workers, Handshake(w) PROVE IInv'
<1>1. Global /\ Worker(w)
  BY DEF IInv
<1> USE <1>1, NoneAssumption DEF Global, Worker, Shaped, Outside, env, threads, Goto, Say
<1>2. Handshake(w)
  OBVIOUS
<1>3. ASSUME NEW v \in Workers, v # w PROVE Worker(v)'
  <2>1. pc[v] \notin Opening \cup Leaving
    BY <1>2, <1>3 DEF IInv, Locked, Opening, Leaving, Handshake
  <2> QED
    BY <1>2, <1>3, <2>1, Bystander DEF Handshake
<1>4. Shaped' /\ Built'
  BY <1>2 DEF Handshake, Built, Outdoors, Opening, Leaving
<1>5. Kept'
  BY <1>2 DEF Handshake, Kept, Locked, Half, Opening, Leaving
<1>6. Owned' /\ ~kicked'
  BY <1>2 DEF Handshake, Owned, Owns, Locked, Half, Gone, Polite, Opening, Leaving, Kept
<1>7. Locked(w)' /\ Half(w)'
  BY <1>2 DEF Handshake, Locked, Half, Opening, Leaving, Kept
<1>8. Polite(w)' /\ Gone(w)'
  BY <1>2 DEF Handshake, Polite, Gone, Owned, Owns, Locked, Half, Opening, Leaving
<1>9. Apart(w)'
  BY <1>2 DEF Handshake, Apart
<1>10. Forced(w)'
  BY <1>2 DEF Handshake, Forced, Direct, Locked, Opening, Leaving
<1> QED
  BY <1>3, <1>4, <1>5, <1>6, <1>7, <1>8, <1>9, <1>10 DEF IInv

\* Whoever rides a session that died goes back for one of his own.
LEMMA VersionKeeps ==
  ASSUME IInv, NEW w \in Workers, Version(w) PROVE IInv'
<1>1. Global /\ Worker(w)
  BY DEF IInv
<1> USE <1>1, NoneAssumption DEF Global, Worker, Shaped, Outside, env, threads, Goto, Say
<1>2. Versions(w)
  BY VersionStep
<1>3. ASSUME NEW v \in Workers, v # w PROVE Worker(v)'
  <2>1. pc[v] \notin Opening \cup Leaving
    BY <1>2, <1>3 DEF IInv, Locked, Opening, Leaving, Versions
  <2> QED
    BY <1>2, <1>3, <2>1, Bystander DEF Versions
<1>4. Shaped' /\ Built'
  BY <1>2 DEF Versions, Built, Outdoors, Opening, Leaving
<1>5. Kept'
  BY <1>2 DEF Versions, Kept, Locked, Half, Opening, Leaving
<1>6. Owned' /\ ~kicked'
  BY <1>2 DEF Versions, Owned, Owns, Locked, Half, Gone, Polite, Opening, Leaving, Kept
<1>7. Locked(w)' /\ Half(w)'
  <2>1. Locked(w)'
    BY <1>2 DEF Versions, Locked, Opening, Leaving
  <2>2. CASE Goto(w, "claim") /\ new'.riding = new.riding
    <3>1. new'.opened /\ ~(new'.riding /\ new'.beats)
      BY <1>2, <2>2 DEF Versions, Half
    <3>2. pc'[w] = "claim" /\ (new'.riding => new'.mode # "bridge")
      BY <1>2, <2>2 DEF Versions, Half
    <3> QED
      BY <2>1, <3>1, <3>2 DEF Half
  <2>3. CASE Goto(w, "beat") /\ ~new'.riding
    <3>1. new'.opened /\ new'.mode # "bridge"
      BY <1>2, <2>3 DEF Versions, Half
    <3>2. pc'[w] = "beat" /\ ~new'.riding
      BY <1>2, <2>3
    <3> QED
      BY <2>1, <3>1, <3>2 DEF Half
  <2> QED
    BY <1>2, <2>1, <2>2, <2>3 DEF Versions
<1>8. Polite(w)' /\ Gone(w)'
  BY <1>2 DEF Versions, Polite, Gone, Owned, Owns, Locked, Half, Opening, Leaving
<1>9. Apart(w)'
  BY <1>2 DEF Versions, Apart
<1>10. Forced(w)'
  BY <1>2 DEF Versions, Forced, Direct, Locked, Opening, Leaving
<1> QED
  BY <1>3, <1>4, <1>5, <1>6, <1>7, <1>8, <1>9, <1>10 DEF IInv

\* The object is the connection now, and owns what it opened.
LEMMA ClaimKeeps ==
  ASSUME IInv, NEW w \in Workers, Claim(w) PROVE IInv'
<1>1. Global /\ Worker(w)
  BY DEF IInv
<1> USE <1>1, NoneAssumption DEF Global, Worker, Shaped, Outside, env, threads, Goto, Say
<1>2. Claim(w)
  OBVIOUS
<1>3. ASSUME NEW v \in Workers, v # w PROVE Worker(v)'
  <2>1. pc[v] \notin Opening \cup Leaving
    BY <1>2, <1>3 DEF IInv, Locked, Opening, Leaving, Claim
  <2> QED
    BY <1>2, <1>3, <2>1, Bystander DEF Claim, Unlock
<1>4. Shaped' /\ Built'
  BY <1>2 DEF Claim, Unlock, Built, Outdoors, Opening, Leaving
<1>5. Kept'
  BY <1>2 DEF Claim, Unlock, Kept, Locked, Half, Opening, Leaving
<1>6. Owned' /\ ~kicked'
  BY <1>2 DEF Claim, Unlock, Owned, Owns, Locked, Half, Gone, Polite, Opening, Leaving, Kept
<1>7. Locked(w)' /\ Half(w)'
  BY <1>2 DEF Claim, Unlock, Locked, Half, Opening, Leaving, Kept
<1>8. Polite(w)' /\ Gone(w)'
  BY <1>2 DEF Claim, Unlock, Polite, Gone, Owned, Owns, Locked, Half, Opening, Leaving
<1>9. Apart(w)'
  BY <1>2 DEF Claim, Unlock, Apart
<1>10. Forced(w)'
  BY <1>2 DEF Claim, Unlock, Forced, Direct, Locked, Opening, Leaving
<1> QED
  BY <1>3, <1>4, <1>5, <1>6, <1>7, <1>8, <1>9, <1>10 DEF IInv

\* The answer names the mode of the connection.
LEMMA ConfirmKeeps ==
  ASSUME IInv, NEW w \in Workers, Confirm(w) PROVE IInv'
<1>1. Global /\ Worker(w)
  BY DEF IInv
<1> USE <1>1, NoneAssumption DEF Global, Worker, Shaped, Outside, env, threads, Goto, Say
<1>2. Confirm(w)
  OBVIOUS
<1>3. ASSUME NEW v \in Workers, v # w PROVE Worker(v)'
  BY <1>2, <1>3, Bystander DEF Confirm
<1>4. Shaped' /\ Built'
  <2>1. qc # None => qc.mode \in Modes
    BY Fields DEF Built
  <2> QED
    BY <1>2, <2>1 DEF Confirm, Built, Outdoors
<1>5. Kept'
  BY <1>2 DEF Confirm, Kept, Locked, Half, Opening, Leaving
<1>6. Owned' /\ ~kicked'
  BY <1>2 DEF Confirm, Owned, Owns, Locked, Half, Gone, Polite, Opening, Leaving, Kept
<1>7. Locked(w)' /\ Half(w)'
  BY <1>2 DEF Confirm, Locked, Half, Opening, Leaving, Kept
<1>8. Polite(w)' /\ Gone(w)'
  BY <1>2 DEF Confirm, Polite, Gone, Owned, Owns, Locked, Half, Opening, Leaving
<1>9. Apart(w)'
  BY <1>2 DEF Confirm, Apart
<1>10. Forced(w)'
  <2>1. CASE Say(w, "error")
    BY <1>2, <2>1 DEF Confirm, Forced, Direct, Opening, Leaving, Modes
  <2>2. CASE qc # None /\ Say(w, qc.mode)
    BY <1>2, <2>2 DEF Confirm, Forced, Direct, Opening, Leaving
  <2> QED
    BY <1>2, <2>1, <2>2 DEF Confirm
<1> QED
  BY <1>3, <1>4, <1>5, <1>6, <1>7, <1>8, <1>9, <1>10 DEF IInv

\* There is nothing to leave, or the lock is taken.
LEMMA LockToLeaveKeeps ==
  ASSUME IInv, NEW w \in Workers, LockToLeave(w) PROVE IInv'
<1>1. Global /\ Worker(w)
  BY DEF IInv
<1> USE <1>1, NoneAssumption DEF Global, Worker, Shaped, Outside, env, threads, Goto, Say
<1>2. LockToLeave(w)
  OBVIOUS
<1>3. ASSUME NEW v \in Workers, v # w PROVE Worker(v)'
  <2>1. pc[v] \notin Opening \cup Leaving
    BY <1>2, <1>3 DEF IInv, Locked, Opening, Leaving, LockToLeave
  <2> QED
    BY <1>2, <1>3, <2>1, Bystander DEF LockToLeave
<1>4. Shaped' /\ Built'
  BY <1>2 DEF LockToLeave, Built, Outdoors, Opening, Leaving
<1>5. Kept'
  BY <1>2 DEF LockToLeave, Kept, Locked, Half, Opening, Leaving
<1>6. Owned' /\ ~kicked'
  <2>1. new = None
    BY <1>2 DEF LockToLeave, Kept
  <2>2. UNCHANGED <<qc, new, session, kicked, left>>
    BY <1>2 DEF LockToLeave
  <2> QED
    BY <2>1, <2>2 DEF Owned, Owns
<1>7. Locked(w)' /\ Half(w)'
  BY <1>2 DEF LockToLeave, Locked, Half, Opening, Leaving, Kept
<1>8. Polite(w)' /\ Gone(w)'
  BY <1>2 DEF LockToLeave, Polite, Gone, Owned, Owns, Locked, Half, Opening, Leaving
<1>9. Apart(w)'
  BY <1>2 DEF LockToLeave, Apart
<1>10. Forced(w)'
  BY <1>2 DEF LockToLeave, Forced, Direct, Locked, Opening, Leaving
<1> QED
  BY <1>3, <1>4, <1>5, <1>6, <1>7, <1>8, <1>9, <1>10 DEF IInv

\* The heartbeat stops.
LEMMA SilenceKeeps ==
  ASSUME IInv, NEW w \in Workers, Silence(w) PROVE IInv'
<1>1. Global /\ Worker(w)
  BY DEF IInv
<1> USE <1>1, NoneAssumption DEF Global, Worker, Shaped, Outside, env, threads, Goto, Say
<1>2. Silences(w)
  BY SilenceStep
<1>3. ASSUME NEW v \in Workers, v # w PROVE Worker(v)'
  <2>1. pc[v] \notin Opening \cup Leaving
    BY <1>2, <1>3 DEF IInv, Locked, Opening, Leaving, Silences
  <2> QED
    BY <1>2, <1>3, <2>1, Bystander DEF Silences
<1>4. Shaped' /\ Built'
  BY <1>2 DEF Silences, Built, Outdoors, Opening, Leaving
<1>5. Kept'
  BY <1>2 DEF Silences, Kept, Locked, Half, Opening, Leaving
<1>6. Owned' /\ ~kicked'
  BY <1>2 DEF Silences, Owned, Owns, Locked, Half, Gone, Polite, Opening, Leaving, Kept
<1>7. Locked(w)' /\ Half(w)'
  BY <1>2 DEF Silences, Locked, Half, Opening, Leaving, Kept
<1>8. Polite(w)' /\ Gone(w)'
  BY <1>2 DEF Silences, Polite, Gone, Owned, Owns, Locked, Half, Opening, Leaving
<1>9. Apart(w)'
  BY <1>2 DEF Silences, Apart
<1>10. Forced(w)'
  BY <1>2 DEF Silences, Forced, Direct, Locked, Opening, Leaving
<1> QED
  BY <1>3, <1>4, <1>5, <1>6, <1>7, <1>8, <1>9, <1>10 DEF IInv

\* A session of our own is ended, or known to be left.
LEMMA GoodbyeKeeps ==
  ASSUME IInv, NEW w \in Workers, Goodbye(w) PROVE IInv'
<1>1. Global /\ Worker(w)
  BY DEF IInv
<1> USE <1>1, NoneAssumption DEF Global, Worker, Shaped, Outside, env, threads, Goto, Say
<1>2. Goodbye(w)
  OBVIOUS
<1>3. ASSUME NEW v \in Workers, v # w PROVE Worker(v)'
  <2>1. pc[v] \notin Opening \cup Leaving
    BY <1>2, <1>3 DEF IInv, Locked, Opening, Leaving, Goodbye
  <2> QED
    BY <1>2, <1>3, <2>1, Bystander DEF Goodbye, OwnsSession
<1>4. Shaped' /\ Built'
  BY <1>2 DEF Goodbye, OwnsSession, Built, Outdoors, Opening, Leaving
<1>5. Kept'
  BY <1>2 DEF Goodbye, OwnsSession, Kept, Locked, Half, Opening, Leaving
<1>6. Owned' /\ ~kicked'
  BY <1>2 DEF Goodbye, OwnsSession, Owned, Owns, Locked, Half, Gone, Polite, Opening, Leaving, Kept
<1>7. Locked(w)' /\ Half(w)'
  BY <1>2 DEF Goodbye, OwnsSession, Locked, Half, Opening, Leaving, Kept
<1>8. Polite(w)' /\ Gone(w)'
  BY <1>2 DEF Goodbye, OwnsSession, Polite, Gone, Owned, Owns, Locked, Half, Opening, Leaving
<1>9. Apart(w)'
  BY <1>2 DEF Goodbye, OwnsSession, Apart
<1>10. Forced(w)'
  BY <1>2 DEF Goodbye, OwnsSession, Forced, Direct, Locked, Opening, Leaving
<1> QED
  BY <1>3, <1>4, <1>5, <1>6, <1>7, <1>8, <1>9, <1>10 DEF IInv

\* The connection is gone, and so is its session.
LEMMA CloseIoKeeps ==
  ASSUME IInv, NEW w \in Workers, CloseIo(w) PROVE IInv'
<1>1. Global /\ Worker(w)
  BY DEF IInv
<1> USE <1>1, NoneAssumption DEF Global, Worker, Shaped, Outside, env, threads, Goto, Say
<1>2. CloseIo(w)
  OBVIOUS
<1>3. ASSUME NEW v \in Workers, v # w PROVE Worker(v)'
  <2>1. pc[v] \notin Opening \cup Leaving
    BY <1>2, <1>3 DEF IInv, Locked, Opening, Leaving, CloseIo
  <2> QED
    BY <1>2, <1>3, <2>1, Bystander DEF CloseIo
<1>4. Shaped' /\ Built'
  BY <1>2 DEF CloseIo, Built, Outdoors, Opening, Leaving
<1>5. Kept'
  BY <1>2 DEF CloseIo, Kept, Locked, Half, Opening, Leaving
<1>6. Owned' /\ ~kicked'
  BY <1>2 DEF CloseIo, Owned, Owns, Locked, Half, Gone, Polite, Opening, Leaving, Kept
<1>7. Locked(w)' /\ Half(w)'
  BY <1>2 DEF CloseIo, Locked, Half, Opening, Leaving, Kept
<1>8. Polite(w)' /\ Gone(w)'
  BY <1>2 DEF CloseIo, Polite, Gone, Owned, Owns, Locked, Half, Opening, Leaving
<1>9. Apart(w)'
  BY <1>2 DEF CloseIo, Apart
<1>10. Forced(w)'
  BY <1>2 DEF CloseIo, Forced, Direct, Locked, Opening, Leaving
<1> QED
  BY <1>3, <1>4, <1>5, <1>6, <1>7, <1>8, <1>9, <1>10 DEF IInv

\* A call that begins is alone only among threads that stand idle.
LEMMA BeginKeeps ==
  ASSUME IInv, NEW w \in Workers, Begin(w) PROVE IInv'
<1>1. Global /\ Worker(w)
  BY DEF IInv
<1> USE <1>1, NoneAssumption DEF Global, Worker, Shaped, Outside, env, threads
<1>2. PICK c \in Calls, to \in {"connect", "lock to leave", "lock"} :
        /\ call' = [call EXCEPT ![w] = c] /\ pc' = [pc EXCEPT ![w] = to]
        /\ c.tool = "connect" => to = "connect"
  BY DEF Begin
<1>3. /\ pc[w] = "idle" /\ reply' = [reply EXCEPT ![w] = None]
      /\ UNCHANGED <<app, session, env, qc, new, holder, calm, kicked, left>>
      /\ alone'[w] => \A u \in Workers : pc[u] = "idle"
      /\ \A v \in Workers \ {w} : alone'[v] = FALSE
  BY DEF Begin
<1>4. ASSUME NEW v \in Workers, v # w PROVE Worker(v)'
  BY <1>2, <1>3, <1>4, Bystander
<1>5. Shaped' /\ Built'
  BY <1>2, <1>3 DEF Built, Outdoors
<1>6. Kept' /\ Owned' /\ ~kicked'
  <2>1. new # None => holder \in Workers /\ holder # w
    BY <1>3 DEF Kept, Opening
  <2> QED
    BY <1>2, <1>3, <2>1 DEF Kept, Owned, Owns
<1>7. Worker(w)'
  BY <1>2, <1>3 DEF Locked, Half, Polite, Gone, Apart, Forced, Direct, Opening, Leaving
<1> QED
  BY <1>4, <1>5, <1>6, <1>7 DEF IInv

\* Cortex Control comes and goes, and the unit forgets: no thread moves, and only
\* a start gives the unit a session, which is the app's.
LEMMA OutsideKeeps ==
  ASSUME IInv, AppStarts \/ AppQuits \/ Expire PROVE IInv'
<1>1. Global /\ \A w \in Workers : Worker(w)
  BY DEF IInv
<1>2. /\ UNCHANGED <<env, qc, new, holder, pc, call, reply, alone, kicked, left>>
      /\ app' \in {"down", "stock", "instrumented"}
      /\ session' \in {session, "app", "nobody's"}
      /\ calm' = FALSE \/ (calm' = calm /\ app' = app /\ session' = "nobody's")
  BY <1>1 DEF Global, Shaped, AppStarts, Starts, AppQuits, Expire, env, threads
<1>3. Global'
  BY <1>1, <1>2 DEF Global, Shaped, Built, Kept, Owned, Owns
<1>4. ASSUME NEW w \in Workers PROVE Worker(w)'
  <2>1. Worker(w)
    BY <1>1
  <2>2. Locked(w)' /\ Half(w)' /\ Apart(w)' /\ Forced(w)'
    BY <1>2, <2>1 DEF Worker, Locked, Half, Apart, Forced, Direct, env
  <2>3. Polite(w)' /\ Gone(w)'
    BY <1>2, <2>1 DEF Worker, Polite, Gone
  <2> QED
    BY <2>2, <2>3 DEF Worker
<1> QED
  BY <1>3, <1>4 DEF IInv

-----------------------------------------------------------------------------
(* The theorems *)

\* At first there is no connection, no call and no session of our own.
LEMMA InitConnection == Init => IInv
<1> SUFFICES ASSUME Init PROVE IInv
  OBVIOUS
<1> USE NoneAssumption DEF Init
<1>1. Global
  BY DEF Global, Shaped, Built, Kept, Owned, Outdoors
<1>2. ASSUME NEW w \in Workers PROVE Worker(w)
  BY DEF Worker, Locked, Half, Polite, Gone, Apart, Forced, Direct, Opening, Leaving
<1> QED
  BY <1>1, <1>2 DEF IInv

\* Every step of every thread and of the app keeps the invariant.
LEMMA StepConnection == IInv /\ [Next]_vars => IInv'
<1> SUFFICES ASSUME IInv, [Next]_vars PROVE IInv'
  OBVIOUS
<1>1. CASE UNCHANGED vars
  <2>1. Global'
    BY <1>1 DEF IInv, Global, Shaped, Built, Kept, Owned, Owns, vars, threads
  <2>2. ASSUME NEW w \in Workers PROVE Worker(w)'
    BY <1>1 DEF IInv, Worker, Locked, Half, Polite, Gone, Apart, Forced, Direct, vars, env, threads
  <2> QED
    BY <2>1, <2>2 DEF IInv
<1> QED
  BY <1>1, OutsideKeeps, BeginKeeps, ConnectKeeps, LaunchKeeps, AwaitBridgeKeeps, ShareKeeps,
     QuitAppKeeps, ForceDirectKeeps, LockKeeps, OpenIoKeeps, ListenKeeps, BeatKeeps,
     HandshakeKeeps, VersionKeeps, ClaimKeeps, ConfirmKeeps, LockToLeaveKeeps, SilenceKeeps,
     GoodbyeKeeps, CloseIoKeeps
     DEF Next, Tool

\* A connection is an object that is open and never both rides a session and
\* beats for one of its own, and an object half made has a thread under the lock.
THEOREM ConnectionTyped == Spec => []TypeOK
<1>1. IInv => TypeOK
  BY DEF IInv, Global, Shaped, Built, Kept, TypeOK
<1> QED
  BY InitConnection, StepConnection, <1>1, PTL DEF Spec

\* However many threads connect and leave, and whenever the app starts and quits:
\* the handshake of open() never takes the session of an app that was there
\* before the lock was taken and that answers (transport.py, open).
THEOREM AppKeepsItsSession == Spec => []NeverTakesOver
<1>1. IInv => NeverTakesOver
  BY DEF IInv, Global, NeverTakesOver
<1> QED
  BY InitConnection, StepConnection, <1>1, PTL DEF Spec

\* Every session the server opened is ended before its object is gone, unless the
\* goodbye could not be sent (transport.py, close).
THEOREM NoSessionLeft == Spec => []LeavesNothingBehind
<1>1. IInv => LeavesNothingBehind
  BY DEF IInv, Global, Owned, Owns, LeavesNothingBehind
<1> QED
  BY InitConnection, StepConnection, <1>1, PTL DEF Spec

\* A call for direct mode that runs by itself and reports a connection reports a
\* direct one, whatever the environment was left like (server.py, connect).
THEOREM DirectMeansDirect == Spec => []DirectIsDirect
<1>1. IInv => DirectIsDirect
  BY NoneAssumption DEF IInv, Worker, Forced, Direct, DirectIsDirect, Mode
<1> QED
  BY InitConnection, StepConnection, <1>1, PTL DEF Spec
=============================================================================
