------------------------- MODULE RelayWritesProofs -------------------------
(* Proofs about the relay's locks, for any number of connections.           *)
EXTENDS RelayWrites, TLAPS

USE WritesAssumption DEF Actor

\* The part of the type invariant the locks need.
LockTypes ==
  /\ at \in [Actor -> {"ready", "locking", "pending", "mutex"} \cup Writing]
  /\ target \in [Actor -> Conn \cup {Nobody}]
  /\ mutex \in [Conn -> Actor \cup {Nobody}]

\* Whoever is between Lock and Unlock of a DeviceInfo's mutex is its holder.
HoldsItsMutex ==
  \A a \in Actor : at[a] \in {"locking", "writing"} =>
    target[a] \in Conn /\ mutex[target[a]] = a

\* Whoever waits for a mutex waits for that of a connection.
WaitsForConn == \A a \in Actor : at[a] = "mutex" => target[a] \in Conn

LockInv == LockTypes /\ HoldsItsMutex /\ WaitsForConn /\ MutexOnlyWhileWriting

\* Initially nobody holds a mutex.
LEMMA LockInit == Init => LockInv
  BY DEF Init, LockInv, LockTypes, HoldsItsMutex, WaitsForConn,
         MutexOnlyWhileWriting, Writing

\* Steps that leave the mutexes alone and do not enter or leave their use.
LEMMA LockKept ==
  ASSUME LockInv, UNCHANGED mutex, LockTypes',
         \A a \in Actor :
           \/ at'[a] = at[a] /\ target'[a] = target[a]
           \/ /\ at[a] \notin {"locking", "writing"}
              /\ at'[a] \notin {"locking", "writing"}
              /\ at'[a] = "mutex" => target'[a] \in Conn
           \/ at[a] = "locking" /\ at'[a] = "writing" /\ target'[a] = target[a]
  PROVE  LockInv'
<1> USE DEF LockInv, LockTypes
<1>1. HoldsItsMutex'
  BY DEF HoldsItsMutex
<1>2. WaitsForConn'
  BY DEF WaitsForConn
<1>3. MutexOnlyWhileWriting'
  BY DEF MutexOnlyWhileWriting
<1> QED
  BY <1>1, <1>2, <1>3

\* One step of a goroutine keeps the mutexes in order.
LEMMA LockStep ==
  ASSUME LockInv, NEW a \in Actor, Step(a)
  PROVE  LockInv'
<1> USE DEF LockInv, LockTypes, Writing, lockVars, peerVars, Doing
<1>1. CASE Look(a) \/ EndEach(a) \/ BeginEach(a)
  BY <1>1, LockKept DEF Look, EndEach, BeginEach
<1>2. CASE QueueWriter(a)
  BY <1>2, LockKept DEF QueueWriter
<1>3. CASE WriteSection(a)
  BY <1>3, LockKept DEF WriteSection
<1>4. ASSUME NEW k \in Conn, WantMutex(a, k)
      PROVE  LockInv'
  <2>1. /\ at[a] = "ready" /\ at' = [at EXCEPT ![a] = "mutex"]
        /\ target' = [target EXCEPT ![a] = k]
        /\ UNCHANGED mutex
    BY <1>4 DEF WantMutex
  <2> QED
    BY <2>1, LockKept
<1>5. CASE LockMutex(a)
  <2>1. /\ at[a] = "mutex" /\ at' = [at EXCEPT ![a] = "locking"]
        /\ UNCHANGED target /\ target[a] \in Conn
        /\ mutex[target[a]] = Nobody
        /\ mutex' = [mutex EXCEPT ![target[a]] = a]
    BY <1>5 DEF LockMutex, WaitsForConn
  <2>2. LockTypes' /\ WaitsForConn'
    BY <2>1 DEF WaitsForConn
  <2>3. HoldsItsMutex'
    BY <2>1 DEF HoldsItsMutex
  <2>4. MutexOnlyWhileWriting'
    BY <2>1 DEF MutexOnlyWhileWriting
  <2> QED
    BY <2>2, <2>3, <2>4
<1>6. CASE BeginWrite(a)
  BY <1>6, LockKept DEF BeginWrite
<1>7. CASE EndWrite(a)
  <2>1. /\ at[a] = "writing" /\ at' = [at EXCEPT ![a] = "ready"]
        /\ target' = [target EXCEPT ![a] = Nobody]
        /\ target[a] \in Conn /\ mutex[target[a]] = a
        /\ mutex' = [mutex EXCEPT ![target[a]] = Nobody]
    BY <1>7 DEF EndWrite, HoldsItsMutex
  <2>2. LockTypes' /\ WaitsForConn'
    BY <2>1 DEF WaitsForConn
  <2>3. HoldsItsMutex'
    BY <2>1 DEF HoldsItsMutex
  <2>4. MutexOnlyWhileWriting'
    BY <2>1 DEF MutexOnlyWhileWriting
  <2> QED
    BY <2>2, <2>3, <2>4
<1>8. CASE a \in Conn /\ BeginReply(a)
  BY <1>8, LockKept DEF BeginReply
<1>9. CASE a \in Conn /\ EndReply(a)
  <2>1. /\ at[a] = "writing_direct" /\ at' = [at EXCEPT ![a] = "ready"]
        /\ target' = [target EXCEPT ![a] = Nobody]
        /\ UNCHANGED mutex
    BY <1>9 DEF EndReply
  <2> QED
    BY <2>1, LockKept
<1>10. CASE a \in Conn /\ (ReadError(a) \/ EndCleanup(a))
  BY <1>10, LockKept DEF ReadError, EndCleanup
<1>11. CASE Panic(a)
  <2>1. /\ mutex' = [k \in Conn |-> IF mutex[k] = a THEN Nobody ELSE mutex[k]]
        /\ at' = [at EXCEPT ![a] = "ready"]
        /\ target' = [target EXCEPT ![a] = Nobody]
    BY <1>11 DEF Panic
  <2>2. LockTypes' /\ WaitsForConn'
    BY <2>1 DEF WaitsForConn
  <2>3. HoldsItsMutex'
    BY <2>1 DEF HoldsItsMutex
  <2>4. MutexOnlyWhileWriting'
    BY <2>1 DEF MutexOnlyWhileWriting
  <2> QED
    BY <2>2, <2>3, <2>4
<1> QED
  BY <1>1, <1>2, <1>3, <1>4, <1>5, <1>6, <1>7, <1>8, <1>9, <1>10, <1>11 DEF Step

\* The lock invariant holds of every behaviour.
LEMMA LockInvariant == Spec => []LockInv
<1>1. LockInv /\ [Next]_vars => LockInv'
  <2> SUFFICES ASSUME LockInv, [Next]_vars PROVE LockInv'
    OBVIOUS
  <2>1. CASE UNCHANGED vars
    BY <2>1, LockKept DEF vars, LockInv, LockTypes
  <2>2. CASE Environment
    BY <2>2, LockKept DEF Environment, Frame, CheckStale, Stall, lockVars,
                          LockInv, LockTypes
  <2> QED
    BY <2>1, <2>2, LockStep DEF Next
<1> QED
  BY <1>1, LockInit, PTL DEF Spec

\* A DeviceInfo's mutex is held by a goroutine that is writing to that very
\* connection or about to, and by no other: no goroutine sits on two mutexes.
THEOREM MutexHeldBriefly == Spec => []MutexOnlyWhileWriting
<1>1. LockInv => MutexOnlyWhileWriting
  BY DEF LockInv
<1> QED
  BY <1>1, LockInvariant, PTL

\* Two writes made through DeviceInfo never overlap on one connection.
THEOREM DeviceWritesAreExclusive == Spec => []DeviceWritesExclude
<1>1. LockInv => DeviceWritesExclude
  BY DEF LockInv, HoldsItsMutex, DeviceWritesExclude
<1> QED
  BY <1>1, LockInvariant, PTL

-----------------------------------------------------------------------------
(* No deadlock: what a goroutine is doing fits its script and the locks *)

\* The operations of scripts; the presence goroutine never replies.
OpType == [op : {"look", "lock", "each", "reply"}, conn : {Nobody}]
            \cup [op : {"write", "evict"}, conn : Conn]
QuietOp == {o \in OpType : o.op # "reply"}

\* The part of the type invariant the waiting needs.
WorkTypes ==
  /\ script \in [Actor -> Seq(OpType)]
  /\ script[Presence] \in Seq(QuietOp)
  /\ batch \in [Actor -> SUBSET Conn]
  /\ readers \subseteq Actor
  /\ pending \in Actor \cup {Nobody}

\* A goroutine at work is in the operation at the head of its script, the
\* registry knows it as the waiting writer just when it waits, and only a
\* ForEach holds the read lock beyond one step.
Orderly(a) ==
  /\ at[a] # "ready" \/ a \in readers => script[a] # <<>>
  /\ at[a] = "pending" <=> pending = a
  /\ at[a] = "pending" => Head(script[a]).op = "lock"
  /\ at[a] \in {"mutex", "locking", "writing"} =>
       Head(script[a]).op \in {"write", "evict", "each"}
  /\ at[a] = "writing_direct" => Head(script[a]).op = "reply"
  /\ a \in readers => Head(script[a]).op = "each"

WorkInv == WorkTypes /\ \A a \in Actor : Orderly(a)

\* What is done of a sequence is off its head.
LEMMA TailOf ==
  ASSUME NEW S, NEW s \in Seq(S), s # <<>>
  PROVE  Head(s) \in S /\ Tail(s) \in Seq(S)
  OBVIOUS

\* Every script consists of operations the handlers have; those a goroutine
\* that sits in the presence service runs contain no reply.
LEMMA ScriptsTyped ==
  /\ Heartbeat \in Seq(OpType) /\ ListOnline \in Seq(OpType)
  /\ \A k \in Conn : /\ Send(k) \in Seq(OpType)
                     /\ Reconnect(k) \in Seq(OpType)
                     /\ Check(k) \in Seq(QuietOp) /\ Check(k) \in Seq(OpType)
  /\ \A s \in Cleanups : s \in Seq(OpType)
<1>1. /\ \A kind \in {"look", "lock", "each", "reply"} : Op(kind, Nobody) \in OpType
      /\ \A kind \in {"write", "evict"}, k \in Conn : Op(kind, k) \in OpType
  BY DEF Op, OpType
<1>2. /\ \A kind \in {"look", "lock", "each"} : Op(kind, Nobody) \in QuietOp
      /\ \A k \in Conn : Op("evict", k) \in QuietOp
  BY <1>1 DEF Op, QuietOp
<1>3. Heartbeat \in Seq(OpType) /\ ListOnline \in Seq(OpType)
  <2>1. Heartbeat \in Seq(OpType)
    BY <1>1 DEF Heartbeat
  <2>2. ListOnline \in Seq(OpType)
    BY <1>1 DEF ListOnline
  <2> QED
    BY <2>1, <2>2
<1>4. \A s \in Cleanups : s \in Seq(OpType)
  <2>1. <<Op("lock", Nobody)>> \in Seq(OpType)
    BY <1>1
  <2>2. <<Op("lock", Nobody), Op("each", Nobody)>> \in Seq(OpType)
    BY <1>1
  <2> QED
    BY <2>1, <2>2 DEF Cleanups
<1>5. ASSUME NEW k \in Conn
      PROVE  /\ Send(k) \in Seq(OpType)
             /\ Reconnect(k) \in Seq(OpType)
             /\ Check(k) \in Seq(QuietOp) /\ Check(k) \in Seq(OpType)
  <2>1. Send(k) \in Seq(OpType)
    BY <1>1 DEF Send
  <2>2. Reconnect(k) \in Seq(OpType)
    BY <1>1 DEF Reconnect
  <2>3. Check(k) \in Seq(QuietOp)
    BY <1>2 DEF Check
  <2>4. Check(k) \in Seq(OpType)
    BY <1>1 DEF Check
  <2> QED
    BY <2>1, <2>2, <2>3, <2>4
<1> QED
  BY <1>3, <1>4, <1>5

\* Initially nobody works or waits.
LEMMA WorkInit == Init => WorkInv
<1>1. <<>> \in Seq(OpType) /\ <<>> \in Seq(QuietOp)
  OBVIOUS
<1> QED
  BY <1>1 DEF Init, WorkInv, WorkTypes, Orderly

\* A step of one goroutine leaves the others in order.
LEMMA OthersOrderly ==
  ASSUME LockInv, WorkInv, WorkTypes', NEW a \in Actor, Orderly(a)',
         \A b \in Actor \ {a} : script'[b] = script[b] /\ at'[b] = at[b],
         \A b \in Actor \ {a} : b \in readers' <=> b \in readers,
         \A b \in Actor \ {a} : pending' = b <=> pending = b
  PROVE  WorkInv'
  BY DEF WorkInv, Orderly

\* Reading or dropping the head of a script keeps the types.
LEMMA DoneTyped ==
  ASSUME WorkTypes, NEW a \in Actor, script[a] # <<>>, Done(a)
  PROVE  script' \in [Actor -> Seq(OpType)] /\ script'[Presence] \in Seq(QuietOp)
<1>1. Tail(script[a]) \in Seq(OpType)
  BY TailOf DEF WorkTypes
<1>2. a = Presence => Tail(script[a]) \in Seq(QuietOp)
  BY TailOf DEF WorkTypes
<1> QED
  BY <1>1, <1>2 DEF WorkTypes, Done

\* So does a new script for a handler.
LEMMA NewScriptTyped ==
  ASSUME WorkTypes, NEW c \in Conn, NEW s \in Seq(OpType),
         script' = [script EXCEPT ![c] = s]
  PROVE  script' \in [Actor -> Seq(OpType)] /\ script'[Presence] \in Seq(QuietOp)
  BY DEF WorkTypes

\* One step of a goroutine keeps everybody in order.
LEMMA WorkStep ==
  ASSUME LockInv, LockInv', WorkInv, NEW a \in Actor, Step(a)
  PROVE  WorkInv'
<1> USE DEF WorkInv, LockInv, LockTypes, lockVars, peerVars, Doing
<1>0. Orderly(a) /\ WorkTypes
  OBVIOUS
<1>1. CASE Look(a)
  <2>1. WorkTypes'
    BY <1>1, DoneTyped DEF Look, WorkTypes
  <2>2. Orderly(a)'
    BY <1>0, <1>1 DEF Look, Orderly
  <2> QED
    BY <1>1, <2>1, <2>2, OthersOrderly DEF Look, Done, WorkTypes
<1>2. CASE QueueWriter(a)
  <2>1. WorkTypes'
    BY <1>2 DEF QueueWriter, WorkTypes
  <2>2. Orderly(a)'
    BY <1>0, <1>2 DEF QueueWriter, Orderly
  <2> QED
    BY <1>2, <2>1, <2>2, OthersOrderly DEF QueueWriter, WorkTypes
<1>3. CASE WriteSection(a)
  <2>1. WorkTypes'
    BY <1>0, <1>3, DoneTyped DEF WriteSection, WorkTypes, Orderly
  <2>2. Orderly(a)'
    BY <1>0, <1>3 DEF WriteSection, Orderly
  <2> QED
    BY <1>0, <1>3, <2>1, <2>2, OthersOrderly DEF WriteSection, Done, WorkTypes, Orderly
<1>4. CASE BeginEach(a)
  <2>1. WorkTypes'
    BY <1>4 DEF BeginEach, WorkTypes
  <2>2. Orderly(a)'
    BY <1>0, <1>4 DEF BeginEach, Orderly
  <2> QED
    BY <1>4, <2>1, <2>2, OthersOrderly DEF BeginEach, WorkTypes
<1>5. CASE EndEach(a)
  <2>1. WorkTypes'
    BY <1>5, DoneTyped DEF EndEach, WorkTypes
  <2>2. Orderly(a)'
    BY <1>0, <1>5 DEF EndEach, Orderly
  <2> QED
    BY <1>5, <2>1, <2>2, OthersOrderly DEF EndEach, Done, WorkTypes
<1>6. ASSUME NEW k \in Conn, WantMutex(a, k)
      PROVE  WorkInv'
  <2>1. /\ at[a] = "ready" /\ script[a] # <<>>
        /\ Head(script[a]).op \in {"write", "evict", "each"}
        /\ at' = [at EXCEPT ![a] = "mutex"]
        /\ UNCHANGED <<script, readers, pending>>
        /\ batch' = batch \/ batch' = [batch EXCEPT ![a] = @ \ {k}]
    BY <1>6 DEF WantMutex
  <2>2. WorkTypes'
    BY <2>1 DEF WorkTypes
  <2>3. Orderly(a)'
    BY <1>0, <2>1 DEF Orderly
  <2> QED
    BY <2>1, <2>2, <2>3, OthersOrderly
<1>7. CASE LockMutex(a)
  <2>1. WorkTypes'
    BY <1>7 DEF LockMutex, WorkTypes
  <2>2. Orderly(a)'
    BY <1>0, <1>7 DEF LockMutex, Orderly
  <2> QED
    BY <1>7, <2>1, <2>2, OthersOrderly DEF LockMutex
<1>8. CASE BeginWrite(a)
  <2>1. WorkTypes'
    BY <1>8 DEF BeginWrite, WorkTypes
  <2>2. Orderly(a)'
    BY <1>0, <1>8 DEF BeginWrite, Orderly
  <2> QED
    BY <1>8, <2>1, <2>2, OthersOrderly DEF BeginWrite
<1>9. CASE EndWrite(a)
  <2>1. /\ at[a] = "writing" /\ at' = [at EXCEPT ![a] = "ready"]
        /\ UNCHANGED <<batch, readers, pending>>
        /\ \/ script' = script /\ Head(script[a]).op = "each"
           \/ Done(a) /\ Head(script[a]).op # "each"
    BY <1>9, Zenon DEF EndWrite
  <2>2. script[a] # <<>> /\ Head(script[a]).op \in {"write", "evict", "each"}
    BY <1>0, <2>1 DEF Orderly
  <2>3. WorkTypes'
    BY <2>1, <2>2, DoneTyped DEF WorkTypes
  <2>4. Orderly(a)'
    BY <1>0, <2>1, <2>2 DEF Orderly
  <2> QED
    BY <2>1, <2>3, <2>4, OthersOrderly DEF Done, WorkTypes
<1>10. CASE a \in Conn /\ BeginReply(a)
  <2>1. WorkTypes'
    BY <1>10 DEF BeginReply, WorkTypes
  <2>2. Orderly(a)'
    BY <1>0, <1>10 DEF BeginReply, Orderly
  <2> QED
    BY <1>10, <2>1, <2>2, OthersOrderly DEF BeginReply
<1>11. CASE a \in Conn /\ EndReply(a)
  <2>1. /\ at[a] = "writing_direct" /\ at' = [at EXCEPT ![a] = "ready"]
        /\ UNCHANGED <<batch, readers, pending>>
        /\ (\E s \in Cleanups : script' = [script EXCEPT ![a] = s]) \/ Done(a)
    BY <1>11 DEF EndReply
  <2>2. script[a] # <<>> /\ Head(script[a]).op = "reply" /\ a \notin readers
    BY <1>0, <2>1 DEF Orderly
  <2>3. WorkTypes'
    BY <1>11, <2>1, <2>2, DoneTyped, NewScriptTyped, ScriptsTyped DEF WorkTypes
  <2>4. Orderly(a)'
    BY <1>0, <2>1, <2>2 DEF Orderly
  <2> QED
    BY <2>1, <2>3, <2>4, OthersOrderly DEF Done, WorkTypes
<1>12. CASE a \in Conn /\ ReadError(a)
  <2>1. /\ script[a] = <<>> /\ UNCHANGED <<at, batch, readers, pending>>
        /\ \E s \in Cleanups : script' = [script EXCEPT ![a] = s]
    BY <1>12 DEF ReadError
  <2>2. WorkTypes'
    BY <1>12, <2>1, NewScriptTyped, ScriptsTyped DEF WorkTypes
  <2>3. Orderly(a)'
    BY <1>0, <2>1 DEF Orderly
  <2> QED
    BY <2>1, <2>2, <2>3, OthersOrderly DEF WorkTypes
<1>13. CASE a \in Conn /\ EndCleanup(a)
  <2>1. WorkTypes' /\ Orderly(a)'
    BY <1>0, <1>13 DEF EndCleanup, WorkTypes, Orderly
  <2> QED
    BY <1>13, <2>1, OthersOrderly DEF EndCleanup
<1>14. CASE Panic(a)
  <2>1. /\ at' = [at EXCEPT ![a] = "ready"]
        /\ readers' = readers \ {a}
        /\ batch' = [batch EXCEPT ![a] = {}]
        /\ UNCHANGED pending
        /\ \E s \in Cleanups \cup {<<>>} : script' = [script EXCEPT ![a] = s]
        /\ a = Presence => script' = [script EXCEPT ![a] = <<>>]
    BY <1>14 DEF Panic
  <2>2. at[a] # "pending" /\ pending # a
    BY <1>0, <1>14 DEF Panic, Collides, Orderly
  <2>3. WorkTypes'
    <3>1. <<>> \in Seq(OpType) /\ <<>> \in Seq(QuietOp)
      OBVIOUS
    <3>2. PICK s \in Cleanups \cup {<<>>} : script' = [script EXCEPT ![a] = s]
      BY <2>1
    <3>3. s \in Seq(OpType)
      BY <3>1, ScriptsTyped
    <3>4. script' \in [Actor -> Seq(OpType)]
      BY <3>2, <3>3 DEF WorkTypes
    <3>5. script'[Presence] \in Seq(QuietOp)
      BY <2>1, <3>1, <3>2 DEF WorkTypes
    <3> QED
      BY <2>1, <3>4, <3>5 DEF WorkTypes
  <2>4. Orderly(a)'
    BY <1>0, <2>1, <2>2 DEF Orderly
  <2> QED
    BY <2>1, <2>3, <2>4, OthersOrderly DEF WorkTypes
<1> QED
  BY <1>1, <1>2, <1>3, <1>4, <1>5, <1>6, <1>7, <1>8, <1>9, <1>10, <1>11,
     <1>12, <1>13, <1>14 DEF Step

\* A frame, a tick of the presence service or a peer that stops reading.
LEMMA WorkEnvironment ==
  ASSUME LockInv, WorkInv, Environment
  PROVE  WorkInv'
<1> USE DEF WorkInv, LockInv, LockTypes, lockVars, peerVars
<1>1. ASSUME NEW k \in Conn, Frame(k)
      PROVE  WorkInv'
  <2>1. /\ script[k] = <<>> /\ UNCHANGED <<at, batch, readers, pending>>
        /\ \E s \in Seq(OpType) : script' = [script EXCEPT ![k] = s]
    BY <1>1, ScriptsTyped DEF Frame
  <2>2. WorkTypes'
    BY <2>1, NewScriptTyped DEF WorkTypes
  <2>3. Orderly(k)'
    BY <2>1 DEF Orderly
  <2> QED
    BY <2>1, <2>2, <2>3, OthersOrderly, <1>1 DEF WorkTypes
<1>2. ASSUME NEW k \in Conn, CheckStale(k)
      PROVE  WorkInv'
  <2>1. /\ script[Presence] = <<>> /\ UNCHANGED <<at, batch, readers, pending>>
        /\ script' = [script EXCEPT ![Presence] = Check(k)]
    BY <1>2 DEF CheckStale
  <2>2. WorkTypes'
    BY <2>1, ScriptsTyped DEF WorkTypes
  <2>3. Orderly(Presence)'
    BY <2>1 DEF Orderly
  <2> QED
    BY <2>1, <2>2, <2>3, OthersOrderly DEF WorkTypes
<1>3. ASSUME NEW k \in Conn, Stall(k)
      PROVE  WorkInv'
  BY <1>3 DEF Stall, WorkTypes, Orderly
<1> QED
  BY <1>1, <1>2, <1>3 DEF Environment

\* Both invariants hold of every behaviour.
LEMMA WorkInvariant == Spec => [](LockInv /\ WorkInv)
<1>1. LockInv /\ LockInv' /\ WorkInv /\ [Next]_vars => WorkInv'
  <2> SUFFICES ASSUME LockInv, LockInv', WorkInv, [Next]_vars PROVE WorkInv'
    OBVIOUS
  <2>1. CASE UNCHANGED vars
    BY <2>1 DEF vars, WorkInv, WorkTypes, Orderly
  <2> QED
    BY <2>1, WorkEnvironment, WorkStep DEF Next
<1> QED
  BY <1>1, LockInvariant, WorkInit, PTL DEF Spec

Moving == {b \in Actor : CanGo(b) \/ Hangs(b)}

\* A goroutine past the mutex has started its write or starts it next.
LEMMA WritersMove ==
  ASSUME NEW a \in Actor, at[a] \in {"locking"} \cup Writing
  PROVE  a \in Moving
  BY DEF Moving, CanGo, Hangs

\* The holder of a mutex is such a goroutine, so one wait ends at it.
LEMMA MutexIsOneWait ==
  ASSUME LockInv, NEW a \in Actor, at[a] = "mutex"
  PROVE  a \in Behind(Moving)
<1>1. target[a] \in Conn
  BY DEF LockInv, WaitsForConn
<1>2. CASE mutex[target[a]] = Nobody
  BY <1>2 DEF Behind, Moving, CanGo
<1>3. CASE mutex[target[a]] # Nobody
  <2>1. mutex[target[a]] \in Actor
    BY <1>1, <1>3 DEF LockInv, LockTypes
  <2>2. at[mutex[target[a]]] \in {"locking", "writing"}
    BY <1>1, <1>3 DEF LockInv, MutexOnlyWhileWriting
  <2>3. mutex[target[a]] \in Moving
    BY <2>1, <2>2, WritersMove DEF Writing
  <2>4. WaitsFor(a) = {mutex[target[a]]}
    BY DEF WaitsFor
  <2> QED
    BY <2>3, <2>4 DEF Behind
<1> QED
  BY <1>2, <1>3

\* Who holds the read lock is about to write or waits for one mutex: ForEach
\* does not take the registry's lock again.
LEMMA ReaderIsOneWait ==
  ASSUME LockInv, WorkInv, NEW a \in readers
  PROVE  a \in Actor /\ a \in Behind(Moving)
<1>1. /\ a \in Actor /\ Orderly(a) /\ batch[a] \in SUBSET Conn
      /\ at[a] \in {"ready", "locking", "pending", "mutex"} \cup Writing
  BY DEF WorkInv, WorkTypes, LockInv, LockTypes
<1>2. script[a] # <<>> /\ Head(script[a]).op = "each"
  BY <1>1 DEF Orderly
<1>3. at[a] \notin {"pending", "writing_direct"}
  BY <1>1, <1>2 DEF Orderly
<1>4. CASE at[a] = "ready"
  BY <1>1, <1>2, <1>4 DEF Behind, Moving, CanGo, Doing
<1>5. CASE at[a] = "mutex"
  BY <1>1, <1>5, MutexIsOneWait
<1>6. CASE at[a] \in {"locking", "writing"}
  BY <1>1, <1>6, WritersMove DEF Behind, Writing
<1> QED
  BY <1>1, <1>3, <1>4, <1>5, <1>6 DEF Writing

\* The waiting writer waits for readers only.
LEMMA WriterIsTwoWaits ==
  ASSUME LockInv, WorkInv, NEW a \in Actor, at[a] = "pending"
  PROVE  a \in Behind(Behind(Moving))
<1>1. CASE readers = {}
  BY <1>1 DEF Behind, Moving, CanGo
<1>2. CASE readers # {}
  <2>1. WaitsFor(a) = readers
    BY DEF WaitsFor
  <2>2. PICK b \in readers : b \in Behind(Moving)
    BY <1>2, ReaderIsOneWait
  <2> QED
    BY <2>1, <2>2 DEF Behind
<1> QED
  BY <1>1, <1>2

\* In every reachable state each goroutine that has work can go on, hangs in a
\* write to a peer that does not read, or is at most three waits behind such a
\* goroutine: no circle of the registry's lock and the DeviceInfo mutexes.
THEOREM NoLockCycle == Spec => []OnlyPeersBlock
<1>1. LockInv /\ WorkInv => OnlyPeersBlock
  <2> SUFFICES ASSUME LockInv, WorkInv, NEW a \in Actor, script[a] # <<>>
               PROVE  a \in Behind(Behind(Behind(Moving)))
    BY DEF OnlyPeersBlock, Moving
  <2> DEFINE o == Head(script[a])
  <2>1. /\ o \in OpType
        /\ a = Presence => o \in QuietOp
        /\ at[a] \in {"ready", "locking", "pending", "mutex"} \cup Writing
        /\ pending \in Actor \cup {Nobody}
    BY TailOf DEF WorkInv, WorkTypes, LockInv, LockTypes
  <2>2. \A S, b : b \in S => b \in Behind(S)
    BY DEF Behind
  <2>3. CASE at[a] \in {"locking"} \cup Writing
    BY <2>2, <2>3, WritersMove
  <2>4. CASE at[a] = "mutex"
    BY <2>2, <2>4, MutexIsOneWait
  <2>5. CASE at[a] = "pending"
    BY <2>2, <2>5, WriterIsTwoWaits
  <2>6. CASE at[a] = "ready" /\ o.op \in {"look", "lock", "each"}
    <3>1. CASE a \in readers
      BY <2>2, <3>1, ReaderIsOneWait
    <3>2. CASE a \notin readers /\ pending = Nobody
      <4>1. CanGo(a)
        BY <2>6, <3>2 DEF CanGo, Doing, CanRLock
      <4> QED
        BY <2>2, <4>1 DEF Moving
    <3>3. CASE pending # Nobody
      <4>1. pending \in Actor /\ at[pending] = "pending"
        BY <2>1, <3>3 DEF WorkInv, Orderly
      <4>2. WaitsFor(a) = {pending}
        BY <2>6 DEF WaitsFor, Doing
      <4> QED
        BY <4>1, <4>2, WriterIsTwoWaits DEF Behind
    <3> QED
      BY <3>1, <3>2, <3>3
  <2>7. CASE at[a] = "ready" /\ o.op \in {"write", "evict"}
    <3>1. o.conn \in Conn
      BY <2>1, <2>7 DEF OpType
    <3>2. CanGo(a)
      BY <2>7, <3>1 DEF CanGo, Doing
    <3> QED
      BY <2>2, <3>2 DEF Moving
  <2>8. CASE at[a] = "ready" /\ o.op = "reply"
    <3>1. a \in Conn
      BY <2>1, <2>8 DEF QuietOp
    <3>2. CanGo(a)
      BY <2>8, <3>1 DEF CanGo, Doing
    <3> QED
      BY <2>2, <3>2 DEF Moving
  <2>9. o.op \in {"look", "lock", "each", "reply", "write", "evict"}
    BY <2>1 DEF OpType
  <2> QED
    BY <2>1, <2>3, <2>4, <2>5, <2>6, <2>7, <2>8, <2>9
<1> QED
  BY <1>1, WorkInvariant, PTL
=============================================================================
