---------------------------- MODULE RelayWrites ----------------------------
(***************************************************************************)
(* The locks of the relay and the socket writes made under them: the       *)
(* registry's RWMutex, the mutex in each DeviceInfo, and gorilla's rule    *)
(* that a second write that starts during a write to the same connection   *)
(* panics.  Relay.tla treats a write as one step that ends; here a write   *)
(* has a beginning and an end, and the end has to wait for the peer to     *)
(* read, because no write of the relay but the close frame in cleanup has  *)
(* a deadline.                                                             *)
(*                                                                         *)
(* What a handler does for one frame is a script of lock and write         *)
(* operations, read off the handler.  Who is in the registry does not      *)
(* matter for the locks: every connection is registered all the time.      *)
(***************************************************************************)
EXTENDS Naturals, Sequences

CONSTANTS
  Conn,      \* registered connections, one handler goroutine each
  Presence,  \* the presence goroutine
  Nobody,    \* no goroutine, no connection
  MayStall   \* the connections whose peer may stop reading for good

ASSUME WritesAssumption ==
  /\ Presence \notin Conn
  /\ Nobody \notin Conn \cup {Presence}
  /\ MayStall \subseteq Conn

Actor == Conn \cup {Presence}

VARIABLES
  script,   \* operations a goroutine has left to do for its current frame
  at,       \* what it is doing now
  target,   \* the connection it writes to or waits for
  batch,    \* devices its ForEach has not reached
  readers,  \* goroutines that hold the registry's read lock
  pending,  \* the goroutine that waits for, or holds, the write lock
  mutex,    \* holder of each DeviceInfo's mutex
  phase,    \* whether a handler serves, runs its cleanup, or has ended
  stalled,  \* connections whose peer no longer reads
  closed,   \* connections the relay has closed
  crashed   \* the process died of a panic outside net/http's recover

vars == <<script, at, target, batch, readers, pending, mutex,
          phase, stalled, closed, crashed>>
lockVars == <<readers, pending, mutex>>
peerVars == <<stalled, closed>>

\* A write that holds the DeviceInfo mutex, and one on the bare connection.
Writing == {"writing", "writing_direct"}

Writers(k) == {a \in Actor : at[a] \in Writing /\ target[a] = k}

Op(kind, k) == [op |-> kind, conn |-> k]

Init ==
  /\ script = [a \in Actor |-> <<>>]
  /\ at = [a \in Actor |-> "ready"]
  /\ target = [a \in Actor |-> Nobody]
  /\ batch = [a \in Actor |-> {}]
  /\ readers = {}
  /\ pending = Nobody
  /\ mutex = [k \in Conn |-> Nobody]
  /\ phase = [c \in Conn |-> "serving"]
  /\ stalled = {}
  /\ closed = {}
  /\ crashed = FALSE

-----------------------------------------------------------------------------
(* The scripts *)

Heartbeat   == <<Op("lock", Nobody), Op("reply", Nobody)>>
ListOnline  == <<Op("look", Nobody), Op("reply", Nobody)>>
Send(k)     == <<Op("look", Nobody), Op("write", k), Op("reply", Nobody)>>
Reconnect(k) == <<Op("look", Nobody), Op("evict", k), Op("lock", Nobody),
                  Op("reply", Nobody), Op("each", Nobody)>>
Check(k)    == <<Op("look", Nobody), Op("lock", Nobody), Op("evict", k),
                 Op("each", Nobody)>>
\* Only a successful Unregister is followed by the broadcast.
Cleanups    == {<<Op("lock", Nobody)>>, <<Op("lock", Nobody), Op("each", Nobody)>>}

\* A handler reads the next frame.
Frame(c) ==
  /\ phase[c] = "serving"
  /\ script[c] = <<>>
  /\ \E s \in {Heartbeat, ListOnline} \cup {Send(k) : k \in Conn}
              \cup {Reconnect(k) : k \in Conn \ {c}} :
       script' = [script EXCEPT ![c] = s]
  /\ UNCHANGED <<at, target, batch, lockVars, phase, peerVars, crashed>>

\* Its read loop fails once somebody else has closed the socket.
ReadError(c) ==
  /\ phase[c] = "serving"
  /\ script[c] = <<>>
  /\ c \in closed
  /\ \E s \in Cleanups : script' = [script EXCEPT ![c] = s]
  /\ phase' = [phase EXCEPT ![c] = "leaving"]
  /\ UNCHANGED <<at, target, batch, lockVars, peerVars, crashed>>

\* The end of cleanup; its close frame is the one write with a deadline.
EndCleanup(c) ==
  /\ phase[c] = "leaving"
  /\ script[c] = <<>>
  /\ phase' = [phase EXCEPT ![c] = "gone"]
  /\ closed' = closed \cup {c}
  /\ UNCHANGED <<script, at, target, batch, lockVars, stalled, crashed>>

\* The ticker fires and one device has become stale.
CheckStale(k) ==
  /\ script[Presence] = <<>>
  /\ k \notin closed
  /\ script' = [script EXCEPT ![Presence] = Check(k)]
  /\ UNCHANGED <<at, target, batch, lockVars, phase, peerVars, crashed>>

\* The peer stops reading: its receive window and the send buffer are full.
Stall(k) ==
  /\ k \in MayStall \ stalled
  /\ stalled' = stalled \cup {k}
  /\ UNCHANGED <<script, at, target, batch, lockVars, phase, closed, crashed>>

-----------------------------------------------------------------------------
(* The operations of a script *)

Doing(a, kind) ==
  at[a] = "ready" /\ script[a] # <<>> /\ Head(script[a]).op = kind

Done(a) == script' = [script EXCEPT ![a] = Tail(@)]

\* RLock is granted unless a writer is waiting.
CanRLock == pending = Nobody

\* Get, ListOnline or the scan of check: a read section without a write.
Look(a) ==
  /\ Doing(a, "look")
  /\ CanRLock
  /\ Done(a)
  /\ UNCHANGED <<at, target, batch, lockVars, phase, peerVars, crashed>>

\* Lock: writers queue up, the first one keeps new readers out and waits for
\* the present ones.
QueueWriter(a) ==
  /\ Doing(a, "lock")
  /\ pending = Nobody
  /\ pending' = a
  /\ at' = [at EXCEPT ![a] = "pending"]
  /\ UNCHANGED <<script, target, batch, readers, mutex, phase, peerVars, crashed>>

\* Register, Unregister and UpdateLastSeen do nothing that blocks.
WriteSection(a) ==
  /\ at[a] = "pending"
  /\ readers = {}
  /\ pending' = Nobody
  /\ at' = [at EXCEPT ![a] = "ready"]
  /\ Done(a)
  /\ UNCHANGED <<target, batch, readers, mutex, phase, peerVars, crashed>>

\* ForEach with a callback that writes.
BeginEach(a) ==
  /\ Doing(a, "each")
  /\ a \notin readers
  /\ CanRLock
  /\ readers' = readers \cup {a}
  /\ batch' = [batch EXCEPT ![a] = Conn]
  /\ UNCHANGED <<script, at, target, pending, mutex, phase, peerVars, crashed>>

\* Mutation: the read lock is not released.
EndEach_KeepLock(a) ==
  /\ Doing(a, "each")
  /\ a \in readers
  /\ batch[a] = {}
  /\ Done(a)
  /\ UNCHANGED <<at, target, batch, lockVars, phase, peerVars, crashed>>

EndEach(a) ==
  /\ Doing(a, "each")
  /\ a \in readers
  /\ batch[a] = {}
  /\ readers' = readers \ {a}
  /\ Done(a)
  /\ UNCHANGED <<at, target, batch, pending, mutex, phase, peerVars, crashed>>

\* dev.WriteJSON, dev.WriteMessage: the DeviceInfo mutex is taken first.
WantMutex(a, k) ==
  /\ \/ /\ Doing(a, "write") \/ Doing(a, "evict")
        /\ Head(script[a]).conn = k
        /\ UNCHANGED batch
     \/ /\ Doing(a, "each")
        /\ a \in readers
        /\ k \in batch[a]
        /\ batch' = [batch EXCEPT ![a] = @ \ {k}]
  /\ at' = [at EXCEPT ![a] = "mutex"]
  /\ target' = [target EXCEPT ![a] = k]
  /\ UNCHANGED <<script, lockVars, phase, peerVars, crashed>>

\* Mutation: WriteJSON does not wait for the mutex.
LockMutex_NoWait(a) ==
  /\ at[a] = "mutex"
  /\ mutex' = [mutex EXCEPT ![target[a]] = a]
  /\ at' = [at EXCEPT ![a] = "locking"]
  /\ UNCHANGED <<script, target, batch, readers, pending, phase, peerVars, crashed>>

LockMutex(a) ==
  /\ at[a] = "mutex"
  /\ mutex[target[a]] = Nobody
  /\ mutex' = [mutex EXCEPT ![target[a]] = a]
  /\ at' = [at EXCEPT ![a] = "locking"]
  /\ UNCHANGED <<script, target, batch, readers, pending, phase, peerVars, crashed>>

\* The write starts if no other is under way on this connection.
BeginWrite(a) ==
  /\ at[a] = "locking"
  /\ Writers(target[a]) = {}
  /\ at' = [at EXCEPT ![a] = "writing"]
  /\ UNCHANGED <<script, target, batch, lockVars, phase, peerVars, crashed>>

\* conn.WriteJSON of a reply: the handler's own connection, no mutex.
BeginReply(c) ==
  /\ Doing(c, "reply")
  /\ Writers(c) = {}
  /\ at' = [at EXCEPT ![c] = "writing_direct"]
  /\ target' = [target EXCEPT ![c] = c]
  /\ UNCHANGED <<script, batch, lockVars, phase, peerVars, crashed>>

\* A write ends when the peer takes the data or the socket is closed.
CanEnd(k) == k \notin stalled \/ k \in closed

\* Mutation: the mutex is not released when the write returns an error.
EndWrite_KeepOnError(a) ==
  /\ at[a] = "writing"
  /\ CanEnd(target[a])
  /\ mutex' = IF target[a] \in closed
              THEN mutex ELSE [mutex EXCEPT ![target[a]] = Nobody]
  /\ at' = [at EXCEPT ![a] = "ready"]
  /\ target' = [target EXCEPT ![a] = Nobody]
  /\ IF Head(script[a]).op = "each"
     THEN UNCHANGED script
     ELSE Done(a)
  /\ closed' = IF Head(script[a]).op = "evict"
               THEN closed \cup {target[a]} ELSE closed
  /\ UNCHANGED <<batch, readers, pending, phase, stalled, crashed>>

\* After the replacement or timeout notice comes Conn.Close().
EndWrite(a) ==
  /\ at[a] = "writing"
  /\ CanEnd(target[a])
  /\ mutex' = [mutex EXCEPT ![target[a]] = Nobody]
  /\ at' = [at EXCEPT ![a] = "ready"]
  /\ target' = [target EXCEPT ![a] = Nobody]
  /\ IF Head(script[a]).op = "each"
     THEN UNCHANGED script
     ELSE Done(a)
  /\ closed' = IF Head(script[a]).op = "evict"
               THEN closed \cup {target[a]} ELSE closed
  /\ UNCHANGED <<batch, readers, pending, phase, stalled, crashed>>

\* A reply to a closed socket fails and the handler cleans up.
EndReply(c) ==
  /\ at[c] = "writing_direct"
  /\ CanEnd(c)
  /\ at' = [at EXCEPT ![c] = "ready"]
  /\ target' = [target EXCEPT ![c] = Nobody]
  /\ \/ /\ c \in closed
        /\ \E s \in Cleanups : script' = [script EXCEPT ![c] = s]
        /\ phase' = [phase EXCEPT ![c] = "leaving"]
     \/ /\ c \notin closed
        /\ Done(c)
        /\ UNCHANGED phase
  /\ UNCHANGED <<batch, lockVars, peerVars, crashed>>

\* A write that starts during another one on the same connection.
Collides(a) ==
  \/ at[a] = "locking" /\ Writers(target[a]) # {}
  \/ a \in Conn /\ Doing(a, "reply") /\ Writers(a) # {}

\* gorilla panics "concurrent write to websocket connection".  Deferred
\* unlocks run.  net/http recovers a handler, whose deferred cleanup runs, once;
\* nothing recovers the presence goroutine, and the process dies.
Panic(a) ==
  /\ Collides(a)
  /\ mutex' = [k \in Conn |-> IF mutex[k] = a THEN Nobody ELSE mutex[k]]
  /\ readers' = readers \ {a}
  /\ at' = [at EXCEPT ![a] = "ready"]
  /\ target' = [target EXCEPT ![a] = Nobody]
  /\ batch' = [batch EXCEPT ![a] = {}]
  /\ \/ /\ a = Presence
        /\ crashed' = TRUE
        /\ script' = [script EXCEPT ![a] = <<>>]
        /\ UNCHANGED phase
     \/ /\ a \in Conn /\ phase[a] = "serving"
        /\ \E s \in Cleanups : script' = [script EXCEPT ![a] = s]
        /\ phase' = [phase EXCEPT ![a] = "leaving"]
        /\ UNCHANGED crashed
     \/ /\ a \in Conn /\ phase[a] = "leaving"
        /\ script' = [script EXCEPT ![a] = <<>>]
        /\ phase' = [phase EXCEPT ![a] = "gone"]
        /\ UNCHANGED crashed
  /\ UNCHANGED <<pending, peerVars>>

-----------------------------------------------------------------------------

\* What a goroutine does by itself while it works on a frame.
Step(a) ==
  /\ ~crashed
  /\ \/ Look(a) \/ QueueWriter(a) \/ WriteSection(a)
     \/ BeginEach(a) \/ EndEach(a)
     \/ \E k \in Conn : WantMutex(a, k)
     \/ LockMutex(a) \/ BeginWrite(a) \/ EndWrite(a)
     \/ a \in Conn /\ (BeginReply(a) \/ EndReply(a) \/ ReadError(a) \/ EndCleanup(a))
     \/ Panic(a)

Environment ==
  /\ ~crashed
  /\ \E k \in Conn : Frame(k) \/ CheckStale(k) \/ Stall(k)

Next == Environment \/ \E a \in Actor : Step(a)

Spec == Init /\ [][Next]_vars

\* Goroutines are scheduled, a waiting writer gets in before new readers and
\* sync.Mutex hands over to a goroutine that has waited long.
FairSpec == Spec /\ \A a \in Actor : SF_vars(Step(a))

-----------------------------------------------------------------------------
(* Properties *)

\* Writes through DeviceInfo.WriteJSON and WriteMessage to one connection
\* exclude each other (registry.go:24-36), also when one of them panics: only
\* a reply, which bypasses the mutex, can collide with another write.
DeviceWritesExclude ==
  \A a, b \in Actor :
    a # b /\ {at[a], at[b]} \subseteq {"locking", "writing"} => target[a] # target[b]

\* A goroutine never keeps the DeviceInfo mutex after it has finished with a
\* write, and it never waits for a second one: no lock cycle can form.
MutexOnlyWhileWriting ==
  \A k \in Conn : mutex[k] # Nobody =>
    /\ at[mutex[k]] \in {"locking", "writing"}
    /\ target[mutex[k]] = k

\* What a goroutine can do next: the guards of the actions of Step.
CanGo(a) ==
  \/ Doing(a, "look") /\ CanRLock
  \/ Doing(a, "lock") /\ pending = Nobody
  \/ at[a] = "pending" /\ readers = {}
  \/ Doing(a, "each") /\ a \notin readers /\ CanRLock
  \/ Doing(a, "each") /\ a \in readers /\ (batch[a] = {} \/ batch[a] \cap Conn # {})
  \/ (Doing(a, "write") \/ Doing(a, "evict")) /\ Head(script[a]).conn \in Conn
  \/ Doing(a, "reply") /\ a \in Conn
  \/ at[a] = "mutex" /\ mutex[target[a]] = Nobody
  \/ at[a] = "locking"
  \/ at[a] \in Writing /\ CanEnd(target[a])

\* It is in the middle of a write to a peer that does not read.
Hangs(a) == at[a] \in Writing /\ ~CanEnd(target[a])

\* The goroutines it waits for.
WaitsFor(a) ==
  IF at[a] = "mutex" THEN {mutex[target[a]]}
  ELSE IF at[a] = "pending" THEN readers
  ELSE IF \E kind \in {"look", "lock", "each"} : Doing(a, kind) THEN {pending}
  ELSE {}

Behind(S) == S \cup {a \in Actor : WaitsFor(a) \cap S # {}}

\* No deadlock: whoever has work can go on, or hangs in a write to a peer that
\* does not read, or is at most three waits behind such a goroutine: for the
\* write lock, for a reader of it, for a DeviceInfo's mutex (router.go:173,
\* registry.go:146-153).  The two kinds of lock never form a circle, whatever
\* the peers do and whichever write panics.
OnlyPeersBlock ==
  \A a \in Actor : script[a] # <<>> =>
    \/ crashed
    \/ a \in Behind(Behind(Behind({b \in Actor : CanGo(b) \/ Hangs(b)})))

\* As long as every peer reads, every frame is answered and every check comes
\* to an end: the two kinds of lock and writer preference cannot deadlock the relay.
RequestsFinish ==
  \A a \in Actor : script[a] # <<>> ~> script[a] = <<>> \/ crashed \/ stalled # {}

\* The comment of registry.go:21-23: concurrent writes to a connection are not
\* allowed, so they are serialized.  Violated: replies bypass the mutex.
WritesSerialized == \A a \in Actor : ~Collides(a)

\* The comment of registry.go:143-144: the ForEach callback must not block for
\* extended periods.  Violated: it writes to peers that may not read.
CallbackReturns == \A a \in Actor : a \in readers ~> a \notin readers \/ crashed
=============================================================================
