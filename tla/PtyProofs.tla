----------------------------- MODULE PtyProofs -----------------------------
(* Proofs about PtyManager and about its refinement of DurableSessions.     *)
EXTENDS PtyDurable, TLAPS

-----------------------------------------------------------------------------
(* Types                                                                    *)

\* Every variable has its type at the start.
LEMMA TypeInit == Init => TypeOK
  BY DEF Init, TypeOK

\* What a write may leave on disk is a set of records.
LEMMA WrittenType == \A r \in SUBSET Session : Written(r) \subseteq SUBSET Session
  BY DEF Written

\* Any step of the agent, of tmux or of a process keeps the types.
LEMMA TypeStep == TypeOK /\ [Next]_vars => TypeOK'
<1> SUFFICES ASSUME TypeOK, [Next]_vars PROVE TypeOK'
  OBVIOUS
<1> USE PtyAssumption DEF TypeOK
<1>1. CASE Start
  BY <1>1 DEF Start, workerVars, historyVars
<1>2. CASE Serve
  BY <1>2 DEF Serve, storeVars, workerVars, historyVars
<1>3. ASSUME NEW s \in Session, PassOver(s) PROVE TypeOK'
  BY <1>3 DEF PassOver, managerVars, workerVars, historyVars
<1>4. ASSUME NEW s \in Session, DropRecord(s) PROVE TypeOK'
  BY <1>4, WrittenType DEF DropRecord, managerVars, workerVars, historyVars
<1>5. ASSUME NEW s \in Session, Reattach(s) PROVE TypeOK'
  BY <1>5, WrittenType DEF Reattach, managerVars, workerVars, historyVars
<1>6. ASSUME NEW w \in Worker, NEW s \in Session, Create(w, s) PROVE TypeOK'
  <2>1. CASE Launch(w, s, "tmux") /\ UNCHANGED useTmux
    BY <1>6, <2>1 DEF Create, Launch, storeVars, historyVars
  <2>2. CASE Launch(w, s, "child") /\ useTmux' = FALSE
    BY <1>6, <2>2 DEF Create, Launch, storeVars, historyVars
  <2>3. CASE UNCHANGED <<kind, alive, workerVars>> /\ useTmux' = FALSE
    BY <1>6, <2>3 DEF Create, storeVars, workerVars, historyVars
  <2> QED
    BY <1>6, <2>1, <2>2, <2>3 DEF Create
<1>7. ASSUME NEW w \in Worker, Publish(w) PROVE TypeOK'
  BY <1>7 DEF Publish, managerVars, storeVars, historyVars
<1>8. ASSUME NEW w \in Worker, Store(w) PROVE TypeOK'
  BY <1>8, WrittenType DEF Store, managerVars
<1>9. ASSUME NEW w \in Worker, NEW s \in Session, Destroy(w, s) PROVE TypeOK'
  BY <1>9 DEF Destroy, managerVars, storeVars
<1>10. ASSUME NEW w \in Worker, Forget(w) PROVE TypeOK'
  BY <1>10, WrittenType DEF Forget, managerVars, historyVars
<1>11. ASSUME NEW s \in Session, StopReading(s) PROVE TypeOK'
  BY <1>11 DEF StopReading, managerVars, storeVars, workerVars, historyVars
<1>12. ASSUME NEW s \in Session, Exit(s) PROVE TypeOK'
  BY <1>12 DEF Exit, managerVars, storeVars, workerVars, historyVars
<1>13. CASE Shutdown
  BY <1>13 DEF Shutdown, storeVars, workerVars, historyVars
<1>14. CASE Die
  BY <1>14 DEF Die, historyVars
<1>15. CASE UNCHANGED vars
  BY <1>15 DEF vars
<1> QED
  BY <1>1, <1>2, <1>3, <1>4, <1>5, <1>6, <1>7, <1>8, <1>9, <1>10, <1>11, <1>12,
     <1>13, <1>14, <1>15 DEF Next, Restore, Request

\* Type correctness, for any sessions, workers and faults.
THEOREM PtyTypeCorrect == Spec => []TypeOK
<1> QED
  BY TypeInit, TypeStep, PTL DEF Spec

-----------------------------------------------------------------------------
(* What holds of the manager whatever fails outside                         *)

Used == {s \in Session : kind[s] # "unused"}

\* Whatever is known of a session, it was started.
Started ==
  /\ sessions \subseteq Used /\ alive \subseteq Used
  /\ acked \subseteq Used /\ ended \subseteq Used
  /\ \A w \in Worker : pc[w] # "idle" => arg[w] \in Used

\* Nobody is served before the API server is started.
Quiet == phase \in {"down", "restoring"} => \A w \in Worker : pc[w] = "idle"

\* The restore loop works through records of the store it has not restored.
Restoring ==
  /\ phase = "down" => sessions = {}
  /\ phase # "restoring" => todo = {}
  /\ todo \subseteq mem
  /\ todo \cap sessions = {}

ManagerInv == TypeOK /\ Started /\ Quiet /\ Restoring /\ HeldIsStored

\* The manager starts in order.
LEMMA ManagerInit == Init => ManagerInv
  BY TypeInit DEF Init, ManagerInv, Started, Used, Quiet, Restoring, HeldIsStored

\* The restore loop keeps the manager in order.
LEMMA ManagerRestore == ManagerInv /\ TypeOK' /\ Restore => ManagerInv'
<1> SUFFICES ASSUME ManagerInv, TypeOK', Restore PROVE ManagerInv'
  OBVIOUS
<1> USE DEF ManagerInv, TypeOK, Started, Used, Quiet, Restoring, HeldIsStored
<1>1. CASE Start
  BY <1>1 DEF Start, workerVars, historyVars
<1>2. CASE Serve
  BY <1>2 DEF Serve, storeVars, workerVars, historyVars
<1>3. ASSUME NEW s \in Session, PassOver(s) PROVE ManagerInv'
  BY <1>3 DEF PassOver, managerVars, workerVars, historyVars
<1>4. ASSUME NEW s \in Session, DropRecord(s) PROVE ManagerInv'
  BY <1>4 DEF DropRecord, managerVars, workerVars, historyVars
<1>5. ASSUME NEW s \in Session, Reattach(s) PROVE ManagerInv'
  BY <1>5 DEF Reattach, Tmux, managerVars, workerVars, historyVars
<1> QED
  BY <1>1, <1>2, <1>3, <1>4, <1>5 DEF Restore

\* A request keeps the manager in order.
LEMMA ManagerServe ==
  ASSUME ManagerInv, TypeOK', NEW w \in Worker, Request(w)
  PROVE  ManagerInv'
<1> USE DEF ManagerInv, TypeOK, Started, Used, Quiet, Restoring, HeldIsStored
<1>1. ASSUME NEW s \in Session, Create(w, s) PROVE ManagerInv'
  <2>1. /\ phase \in {"up", "closing"} /\ pc[w] = "idle" /\ kind[s] = "unused"
        /\ UNCHANGED <<phase, sessions, reading, mem, todo, file, acked, ended>>
    BY <1>1 DEF Create, Serving, storeVars, historyVars
  <2>2. \/ Launch(w, s, "tmux") \/ Launch(w, s, "child")
        \/ UNCHANGED <<kind, alive, pc, arg>>
    BY <1>1 DEF Create, workerVars
  <2>3. Started'
    BY <2>1, <2>2 DEF Launch
  <2>4. HeldIsStored'
    BY <2>1, <2>2 DEF Launch
  <2> QED
    BY <2>1, <2>3, <2>4
<1>2. CASE Publish(w)
  BY <1>2 DEF Publish, managerVars, storeVars, historyVars
<1>3. CASE Store(w)
  BY <1>3 DEF Store, managerVars
<1>4. ASSUME NEW s \in Session, Destroy(w, s) PROVE ManagerInv'
  BY <1>4 DEF Destroy, Serving, managerVars, storeVars
<1>5. CASE Forget(w)
  BY <1>5 DEF Forget, managerVars, historyVars
<1> QED
  BY <1>1, <1>2, <1>3, <1>4, <1>5 DEF Request

\* Any step keeps the manager in order.
LEMMA ManagerStep == ManagerInv /\ [Next]_vars => ManagerInv'
<1> SUFFICES ASSUME ManagerInv, [Next]_vars PROVE ManagerInv'
  OBVIOUS
<1>0. TypeOK'
  BY TypeStep DEF ManagerInv
<1>1. CASE Restore
  BY <1>0, <1>1, ManagerRestore
<1>2. ASSUME NEW w \in Worker, Request(w) PROVE ManagerInv'
  BY <1>0, <1>2, ManagerServe
<1> USE <1>0 DEF ManagerInv, TypeOK, Started, Used, Quiet, Restoring, HeldIsStored
<1>3. ASSUME NEW s \in Session, StopReading(s) PROVE ManagerInv'
  BY <1>3 DEF StopReading, managerVars, storeVars, workerVars, historyVars
<1>4. ASSUME NEW s \in Session, Exit(s) PROVE ManagerInv'
  BY <1>4 DEF Exit, managerVars, storeVars, workerVars, historyVars
<1>5. CASE Shutdown
  BY <1>5 DEF Shutdown, storeVars, workerVars, historyVars
<1>6. CASE Die
  BY <1>6 DEF Die, historyVars
<1>7. CASE UNCHANGED vars
  BY <1>7 DEF vars
<1> QED
  BY <1>1, <1>2, <1>3, <1>4, <1>5, <1>6, <1>7 DEF Next

\* The manager is in order all the time.
LEMMA ManagerInvariant == Spec => []ManagerInv
  BY ManagerInit, ManagerStep, PTL DEF Spec

\* Whatever fails outside, the store in memory covers the sessions in the map,
\* so that one successful write of sessions.json repairs what failed ones lost.
THEOREM HeldIsAlwaysStored == Spec => []HeldIsStored
<1>1. ManagerInv => HeldIsStored
  BY DEF ManagerInv
<1> QED
  BY <1>1, ManagerInvariant, PTL

-----------------------------------------------------------------------------
(* What holds when tmux answers                                             *)

\* The poller of a live session does not stop: has-session says it exists.
LEMMA ReadersStay ==
  ASSUME "has" \notin Faults
  PROVE  ManagerInv /\ LiveSessionsAreRead /\ [Next]_vars => LiveSessionsAreRead'
<1> SUFFICES ASSUME ManagerInv, LiveSessionsAreRead, [Next]_vars
             PROVE  LiveSessionsAreRead'
  OBVIOUS
<1> USE DEF ManagerInv, Started, Used, LiveSessionsAreRead
<1>1. CASE Start
  BY <1>1 DEF Start
<1>2. CASE Serve
  BY <1>2 DEF Serve
<1>3. ASSUME NEW s \in Session, PassOver(s) \/ DropRecord(s) \/ Reattach(s)
      PROVE  LiveSessionsAreRead'
  BY <1>3 DEF PassOver, DropRecord, Reattach
<1>4. ASSUME NEW w \in Worker, NEW s \in Session, Create(w, s)
      PROVE  LiveSessionsAreRead'
  BY <1>4 DEF Create, Launch
<1>5. ASSUME NEW w \in Worker, Publish(w) \/ Store(w) \/ Forget(w)
      PROVE  LiveSessionsAreRead'
  BY <1>5 DEF Publish, Store, Forget
<1>6. ASSUME NEW w \in Worker, NEW s \in Session, Destroy(w, s)
      PROVE  LiveSessionsAreRead'
  BY <1>6 DEF Destroy
<1>7. ASSUME NEW s \in Session, StopReading(s) PROVE LiveSessionsAreRead'
  BY <1>7 DEF StopReading, MayAnswer
<1>8. ASSUME NEW s \in Session, Exit(s) PROVE LiveSessionsAreRead'
  BY <1>8 DEF Exit
<1>9. CASE Shutdown \/ Die
  BY <1>9 DEF Shutdown, Die
<1>10. CASE UNCHANGED vars
  BY <1>10 DEF vars
<1> QED
  BY <1>1, <1>2, <1>3, <1>4, <1>5, <1>6, <1>7, <1>8, <1>9, <1>10
     DEF Next, Restore, Request

\* If has-session never denies an existing session, every live session the
\* agent offers has its reader, through crashes and restarts.
THEOREM ReadersAreThere ==
  ASSUME "has" \notin Faults
  PROVE  Spec => []LiveSessionsAreRead
<1>1. Init => LiveSessionsAreRead
  BY DEF Init, LiveSessionsAreRead
<1> QED
  BY <1>1, ReadersStay, ManagerInvariant, PTL DEF Spec

-----------------------------------------------------------------------------
(* What holds when tmux kills                                               *)

\* A session that is about to enter the map has not been there before.
Entering(w) ==
  pc[w] = "publishing" =>
    /\ arg[w] \notin ended /\ arg[w] \notin sessions
    /\ \A v \in Worker : v # w /\ pc[v] = "publishing" => arg[v] # arg[w]

Killed ==
  /\ ended \cap alive = {}
  /\ \A w \in Worker : Entering(w)
  /\ DestroyedForGood

\* A destroyed session cannot come back: its tmux session is gone, so that the
\* restore loop drops a record that was written too late.
LEMMA KilledStep ==
  ASSUME "kill" \notin Faults
  PROVE  ManagerInv /\ Killed /\ [Next]_vars => Killed'
<1> SUFFICES ASSUME ManagerInv, Killed, [Next]_vars PROVE Killed'
  OBVIOUS
<1> USE DEF ManagerInv, TypeOK, Started, Used, Quiet, Killed, Entering, DestroyedForGood
<1>1. CASE Start
  BY <1>1 DEF Start, workerVars, historyVars
<1>2. CASE Serve
  BY <1>2 DEF Serve, workerVars, historyVars
<1>3. ASSUME NEW s \in Session, PassOver(s) \/ DropRecord(s) PROVE Killed'
  BY <1>3 DEF PassOver, DropRecord, workerVars, historyVars
<1>4. ASSUME NEW s \in Session, Reattach(s) PROVE Killed'
  <2>1. s \in alive
    BY <1>4 DEF Reattach, MayAnswer
  <2> QED
    BY <1>4, <2>1 DEF Reattach, workerVars, historyVars
<1>5. ASSUME NEW w \in Worker, NEW s \in Session, Create(w, s) PROVE Killed'
  <2>1. pc[w] = "idle" /\ kind[s] = "unused" /\ UNCHANGED <<sessions, ended>>
    BY <1>5 DEF Create, historyVars
  <2>2. \/ Launch(w, s, "tmux") \/ Launch(w, s, "child")
        \/ UNCHANGED <<alive, pc, arg>>
    BY <1>5 DEF Create, workerVars
  <2> QED
    BY <2>1, <2>2 DEF Launch
<1>6. ASSUME NEW w \in Worker, Publish(w) PROVE Killed'
  BY <1>6 DEF Publish, historyVars
<1>7. ASSUME NEW w \in Worker, Store(w) PROVE Killed'
  BY <1>7 DEF Store
<1>8. ASSUME NEW w \in Worker, NEW s \in Session, Destroy(w, s) PROVE Killed'
  <2>1. alive' = alive \ {s} /\ ended' = ended \cup {s} /\ s \in sessions
    BY <1>8 DEF Destroy
  <2> QED
    BY <1>8, <2>1 DEF Destroy
<1>9. ASSUME NEW w \in Worker, Forget(w) PROVE Killed'
  BY <1>9 DEF Forget, historyVars
<1>10. ASSUME NEW s \in Session, StopReading(s) \/ Exit(s) PROVE Killed'
  <2>1. /\ UNCHANGED <<sessions, pc, arg, ended>>
        /\ alive' \subseteq alive
    BY <1>10 DEF StopReading, Exit, workerVars, historyVars
  <2> QED
    BY <2>1
<1>11. CASE Shutdown \/ Die
  BY <1>11 DEF Shutdown, Die, workerVars, historyVars
<1>12. CASE UNCHANGED vars
  BY <1>12 DEF vars
<1> QED
  BY <1>1, <1>2, <1>3, <1>4, <1>5, <1>6, <1>7, <1>8, <1>9, <1>10, <1>11, <1>12
     DEF Next, Restore, Request

\* If kill-session works, a destroyed session is never offered again.
THEOREM DestroyedNeverReturns ==
  ASSUME "kill" \notin Faults
  PROVE  Spec => []DestroyedForGood
<1>1. Init => Killed
  BY DEF Init, Killed, Entering, DestroyedForGood
<1>2. Killed => DestroyedForGood
  BY DEF Killed
<1> QED
  BY <1>1, <1>2, KilledStep, ManagerInvariant, PTL DEF Spec

-----------------------------------------------------------------------------
(* The promise is kept                                                      *)

\* tmux is found at every start and answers, and no write is torn; sessions
\* may still fail to start in tmux or to be killed.
Reliable == TmuxFound = {TRUE} /\ Faults \subseteq {"new", "kill"}

\* A promised session is on disk, and on its way back into the map.
Kept ==
  /\ phase # "down" => mem = file
  /\ Promised \subseteq file
  /\ phase = "restoring" => Promised \subseteq sessions \cup todo
  /\ Reattached
  /\ \A w \in Worker :
       /\ pc[w] = "storing" /\ phase = "up" /\ arg[w] \notin ended => arg[w] \in sessions
       /\ pc[w] = "destroying" => arg[w] \in ended

\* At the start nothing has been promised.
LEMMA KeptInit == Init => Kept
  BY DEF Init, Kept, Promised, Reattached

\* The restore loop finds every promised session.
LEMMA KeptRestore ==
  ASSUME Reliable
  PROVE  ManagerInv /\ Kept /\ Restore => Kept' /\ Promised' = Promised
<1> SUFFICES ASSUME ManagerInv, Kept, Restore PROVE Kept' /\ Promised' = Promised
  OBVIOUS
<1> USE DEF ManagerInv, TypeOK, Quiet, Restoring, Kept, Reattached, Promised, Tmux
<1>1. CASE Start
  BY <1>1 DEF Start, Reliable, workerVars, historyVars
<1>2. CASE Serve
  BY <1>2 DEF Serve, storeVars, workerVars, historyVars
<1>3. ASSUME NEW s \in Session, PassOver(s) PROVE Kept' /\ Promised' = Promised
  BY <1>3 DEF PassOver, managerVars, workerVars, historyVars
<1>4. ASSUME NEW s \in Session, DropRecord(s) PROVE Kept' /\ Promised' = Promised
  <2>1. s \notin alive /\ file' = mem'
    BY <1>4 DEF DropRecord, MayAnswer, Written, Reliable
  <2> QED
    BY <1>4, <2>1 DEF DropRecord, managerVars, workerVars, historyVars
<1>5. ASSUME NEW s \in Session, Reattach(s) PROVE Kept' /\ Promised' = Promised
  <2>1. file' = mem
    BY <1>5 DEF Reattach, Written, Reliable
  <2> QED
    BY <1>5, <2>1 DEF Reattach, managerVars, workerVars, historyVars
<1> QED
  BY <1>1, <1>2, <1>3, <1>4, <1>5 DEF Restore

\* Starting a session promises nothing yet.
LEMMA KeptCreate ==
  ASSUME ManagerInv, Kept, NEW w \in Worker, NEW s \in Session, Create(w, s)
  PROVE  Kept' /\ Promised' = Promised
<1> USE DEF ManagerInv, TypeOK, Started, Used
<1>1. /\ pc[w] = "idle" /\ kind[s] = "unused"
      /\ UNCHANGED <<phase, sessions, mem, todo, file, acked, ended>>
  BY DEF Create, storeVars, historyVars
<1>2. \/ Launch(w, s, "tmux") \/ Launch(w, s, "child")
      \/ UNCHANGED <<kind, alive, pc, arg>>
  BY DEF Create, workerVars
<1>3. s \notin acked
  BY <1>1
<1>4. Promised' = Promised
  BY <1>1, <1>2, <1>3 DEF Launch, Promised, Tmux
<1>5. \A v \in Worker : pc'[v] \in {"storing", "destroying"} => pc'[v] = pc[v] /\ arg'[v] = arg[v]
  BY <1>1, <1>2 DEF Launch
<1> QED
  BY <1>1, <1>4, <1>5 DEF Kept, Reattached

\* The other steps of requests.
LEMMA KeptServe ==
  ASSUME Reliable, ManagerInv, Kept, NEW w \in Worker, Request(w)
  PROVE  Kept'
<1> USE DEF ManagerInv, TypeOK, Quiet, Restoring, Kept, Reattached, Promised, Tmux
<1>1. ASSUME NEW s \in Session, Create(w, s) PROVE Kept'
  BY <1>1, KeptCreate
<1>2. CASE Publish(w)
  BY <1>2 DEF Publish, managerVars, storeVars, historyVars
<1>3. CASE Store(w)
  <2>1. file' = mem'
    BY <1>3 DEF Store, Written, Reliable
  <2> QED
    BY <1>3, <2>1 DEF Store, managerVars
<1>4. ASSUME NEW s \in Session, Destroy(w, s) PROVE Kept'
  BY <1>4 DEF Destroy, managerVars, storeVars
<1>5. CASE Forget(w)
  <2>1. file' = mem'
    BY <1>5 DEF Forget, Written, Reliable
  <2> QED
    BY <1>5, <2>1 DEF Forget, managerVars, historyVars
<1> QED
  BY <1>1, <1>2, <1>3, <1>4, <1>5 DEF Request

\* Every step keeps what was promised.
LEMMA KeptStep ==
  ASSUME Reliable
  PROVE  ManagerInv /\ Kept /\ [Next]_vars => Kept'
<1> SUFFICES ASSUME ManagerInv, Kept, [Next]_vars PROVE Kept'
  OBVIOUS
<1>1. CASE Restore
  BY <1>1, KeptRestore
<1>2. ASSUME NEW w \in Worker, Request(w) PROVE Kept'
  BY <1>2, KeptServe
<1> USE DEF ManagerInv, TypeOK, Quiet, Restoring, Kept, Reattached, Promised, Tmux
<1>3. ASSUME NEW s \in Session, StopReading(s) \/ Exit(s) PROVE Kept'
  BY <1>3 DEF StopReading, Exit, managerVars, storeVars, workerVars, historyVars
<1>4. CASE Shutdown
  BY <1>4 DEF Shutdown, storeVars, workerVars, historyVars
<1>5. CASE Die
  BY <1>5 DEF Die, Reliable, historyVars
<1>6. CASE UNCHANGED vars
  BY <1>6 DEF vars
<1> QED
  BY <1>1, <1>2, <1>3, <1>4, <1>5, <1>6 DEF Next

-----------------------------------------------------------------------------
(* The refinement                                                           *)

\* The two states of a stutter.
LEMMA DurableStutter ==
  ASSUME running' = running, offered' = offered, Promised' = Promised
  PROVE  [Durable!DurableNext]_(Durable!durableVars)
  BY DEF Durable!durableVars

\* A request changes what is offered and what is promised one session at a
\* time.
LEMMA DurableServe ==
  ASSUME Reliable, ManagerInv, Kept, NEW w \in Worker, Request(w)
  PROVE  [Durable!DurableNext]_(Durable!durableVars)
<1> USE DEF ManagerInv, TypeOK
<1>1. ASSUME NEW s \in Session, Create(w, s)
      PROVE  [Durable!DurableNext]_(Durable!durableVars)
  <2>1. UNCHANGED <<phase, sessions>>
    BY <1>1 DEF Create
  <2> QED
    BY <1>1, <2>1, KeptCreate, DurableStutter DEF running, offered
<1>2. CASE Publish(w)
  <2>1. UNCHANGED <<phase, acked, ended, alive, kind>> /\ sessions' = sessions \cup {arg[w]}
    BY <1>2 DEF Publish, managerVars, historyVars
  <2>2. Promised' = Promised /\ running' = running
    BY <2>1 DEF Promised, Tmux, running
  <2>3. CASE running
    BY <2>1, <2>2, <2>3 DEF running, offered, Durable!DurableNext, Durable!Offer
  <2>4. CASE ~running
    BY <2>1, <2>2, <2>4, DurableStutter DEF offered
  <2> QED
    BY <2>3, <2>4
<1>3. CASE Store(w)
  <2>1. /\ UNCHANGED <<phase, sessions, ended, alive, kind>>
        /\ acked' = acked \cup {arg[w]} /\ pc[w] = "storing"
    BY <1>3 DEF Store, managerVars
  <2>2. running' = running /\ offered' = offered
    BY <2>1 DEF running, offered
  <2>3. CASE arg[w] \in (Tmux \cap alive) \ ended
    <3>1. Promised' = Promised \cup {arg[w]}
      BY <2>1, <2>3 DEF Promised, Tmux
    <3>2. running => arg[w] \in offered
      BY <2>1, <2>3 DEF Kept, running, offered
    <3> QED
      BY <2>2, <3>1, <3>2 DEF Durable!DurableNext, Durable!Promise
  <2>4. CASE arg[w] \notin (Tmux \cap alive) \ ended
    <3>1. Promised' = Promised
      BY <2>1, <2>4 DEF Promised, Tmux
    <3> QED
      BY <2>2, <3>1, DurableStutter
  <2> QED
    BY <2>3, <2>4
<1>4. ASSUME NEW s \in Session, Destroy(w, s)
      PROVE  [Durable!DurableNext]_(Durable!durableVars)
  <2>1. /\ UNCHANGED <<phase, sessions, acked, kind>>
        /\ ended' = ended \cup {s}
        /\ alive' = alive \ {s} \/ alive' = alive
    BY <1>4 DEF Destroy, managerVars
  <2>2. running' = running /\ offered' = offered
    BY <2>1 DEF running, offered
  <2>3. Promised' = Promised \ {s}
    BY <2>1 DEF Promised, Tmux
  <2> QED
    BY <2>2, <2>3 DEF Durable!DurableNext, Durable!Lapse
<1>5. CASE Forget(w)
  <2>1. /\ UNCHANGED <<phase, acked, ended, alive, kind>>
        /\ sessions' = sessions \ {arg[w]} /\ arg[w] \in ended
    BY <1>5 DEF Forget, managerVars, historyVars, Kept
  <2>2. Promised' = Promised /\ running' = running /\ arg[w] \notin Promised
    BY <2>1 DEF Promised, Tmux, running
  <2>3. offered' = offered \ {arg[w]}
    BY <2>1 DEF running, offered
  <2> QED
    BY <2>2, <2>3 DEF Durable!DurableNext, Durable!Withdraw
<1> QED
  BY <1>1, <1>2, <1>3, <1>4, <1>5 DEF Request

\* The restore loop is one recovery, at its end.
LEMMA DurableRestore ==
  ASSUME Reliable, ManagerInv, Kept, Restore
  PROVE  [Durable!DurableNext]_(Durable!durableVars)
<1>0. Promised' = Promised
  BY KeptRestore
<1>1. CASE Serve
  <2>1. phase = "restoring" /\ todo = {} /\ phase' = "up" /\ sessions' = sessions
    BY <1>1 DEF Serve
  <2>2. offered' = sessions /\ ~running /\ running' = TRUE
    BY <2>1 DEF running, offered
  <2>3. Promised \subseteq sessions /\ sessions \in SUBSET Session
    BY <2>1 DEF Kept, ManagerInv, TypeOK
  <2> QED
    BY <1>0, <2>2, <2>3 DEF Durable!DurableNext, Durable!Recover
<1>2. CASE ~Serve
  <2>1. phase \in {"down", "restoring"} /\ phase' = "restoring"
    BY <1>2 DEF Restore, Start, PassOver, DropRecord, Reattach, managerVars
  <2>2. running' = running /\ offered' = offered
    BY <2>1 DEF running, offered
  <2> QED
    BY <1>0, <2>2, DurableStutter
<1> QED
  BY <1>1, <1>2

\* Every step of the agent is a step of the promise, or a stutter.
LEMMA DurableStep ==
  ASSUME Reliable
  PROVE  ManagerInv /\ Kept /\ [Next]_vars => [Durable!DurableNext]_(Durable!durableVars)
<1> SUFFICES ASSUME ManagerInv, Kept, [Next]_vars
             PROVE  [Durable!DurableNext]_(Durable!durableVars)
  OBVIOUS
<1>1. CASE Restore
  BY <1>1, DurableRestore
<1>2. ASSUME NEW w \in Worker, Request(w)
      PROVE  [Durable!DurableNext]_(Durable!durableVars)
  BY <1>2, DurableServe
<1>3. ASSUME NEW s \in Session, StopReading(s)
      PROVE  [Durable!DurableNext]_(Durable!durableVars)
  <2>1. UNCHANGED <<phase, sessions, acked, ended, alive, kind>>
    BY <1>3 DEF StopReading, managerVars, historyVars
  <2>2. running' = running /\ offered' = offered /\ Promised' = Promised
    BY <2>1 DEF running, offered, Promised, Tmux
  <2> QED
    BY <2>2, DurableStutter
<1>4. ASSUME NEW s \in Session, Exit(s)
      PROVE  [Durable!DurableNext]_(Durable!durableVars)
  <2>1. UNCHANGED <<phase, sessions, acked, ended, kind>> /\ alive' = alive \ {s}
    BY <1>4 DEF Exit, managerVars, historyVars
  <2>2. running' = running /\ offered' = offered /\ Promised' = Promised \ {s}
    BY <2>1 DEF running, offered, Promised, Tmux
  <2> QED
    BY <2>2 DEF Durable!DurableNext, Durable!Lapse
<1>5. CASE Shutdown \/ Die
  <2>1. /\ phase' # "up" /\ UNCHANGED <<acked, ended, kind>>
        /\ alive' \subseteq alive /\ alive \cap Tmux \subseteq alive'
    BY <1>5 DEF Shutdown, Die, historyVars
  <2>2. running' = FALSE /\ offered' = {} /\ Promised' = Promised
    BY <2>1 DEF running, offered, Promised, Tmux
  <2> QED
    BY <2>2 DEF Durable!DurableNext, Durable!Stop
<1>6. CASE UNCHANGED vars
  <2>1. running' = running /\ offered' = offered /\ Promised' = Promised
    BY <1>6 DEF vars, running, offered, Promised, Tmux
  <2> QED
    BY <2>1, DurableStutter
<1> QED
  BY <1>1, <1>2, <1>3, <1>4, <1>5, <1>6 DEF Next

\* As long as tmux is found and answers and no write is torn, the agent keeps
\* its promise: crashes at any step, restarts, failed kills and concurrent
\* requests included.
THEOREM PtyImplementsDurable ==
  ASSUME Reliable
  PROVE  Spec => ImplementsDurable
<1>1. Init => Durable!DurableInit
  BY DEF Init, Durable!DurableInit, running, offered, Promised
<1> QED
  BY <1>1, KeptInit, KeptStep, DurableStep, ManagerInvariant, PTL
     DEF Spec, ImplementsDurable, Durable!DurableSpec
=============================================================================
