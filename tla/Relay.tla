------------------------------- MODULE Relay -------------------------------
(***************************************************************************)
(* The relay server: the device registry (registry.go), one handler        *)
(* goroutine per WebSocket connection (handler.go, router.go) and the      *)
(* presence goroutine (presence.go).                                       *)
(*                                                                         *)
(* A step is what one goroutine does between two points where another can  *)
(* interfere: one critical section of Registry.mu, or one socket write.    *)
(* The calls of one handler (Get, close the old connection, Register,      *)
(* reply, broadcast) are therefore separate steps in the order of the code.*)
(*                                                                         *)
(* A connection is a WebSocket that is dialled once and never reused; a    *)
(* device that reconnects uses another element of Conn.  A DeviceInfo      *)
(* pointer is abstracted to the immutable fields its holder reads, the     *)
(* device id and the connection.  Device types, public keys, payloads and  *)
(* request ids do not influence control and are left out; a request that   *)
(* only earns an error reply changes no state and is a stuttering step.    *)
(***************************************************************************)
EXTENDS Naturals

CONSTANTS
  DeviceId,        \* device ids that appear in device.register
  Conn,            \* WebSocket connections
  MayRegister,     \* the ids a peer sends in device.register, per connection
  MayAsk,          \* what a peer sends once it has registered
  StaleThreshold,  \* presence.StaleThreshold in clock ticks
  Presence,        \* the presence goroutine
  NoDevice,        \* the empty device id of a Router before registration
  NoConn           \* no connection

Request == {"register", "list", "send", "heartbeat"}

ASSUME RelayAssumption ==
  /\ MayRegister \in [Conn -> SUBSET DeviceId]
  /\ MayAsk \in [Conn -> SUBSET Request]
  /\ StaleThreshold \in Nat
  /\ Presence \notin Conn
  /\ NoDevice \notin DeviceId
  /\ NoConn \notin Conn

Actor == Conn \cup {Presence}

VARIABLES
  owner,  \* Registry.devices: the connection each device id maps to
  age,    \* ticks since LastSeen of a registered device
  open,   \* the relay's end of each socket
  peer,   \* whether the other end is still there
  pc,     \* where each goroutine is
  rt,     \* Router.deviceID of each connection's handler
  arg,    \* the device id the current call of a goroutine is about
  held,   \* the connection of the DeviceInfo a goroutine holds
  batch,  \* devices a ForEach has not reached, or the snapshot of ListOnline
  stale,  \* the stale slice of Presence.check
  told    \* last presence written to each connection about each device

registryVars == <<owner, age>>
socketVars   == <<open, peer>>
routerVars   == <<rt, arg, held, batch>>
vars == <<owner, age, open, peer, pc, rt, arg, held, batch, stale, told>>

-----------------------------------------------------------------------------
(* Types *)

HandlerPC ==
  {"unused", "reading", "evicting", "claiming", "replying", "tell_online",
   "telling_online", "listing", "forwarding", "acking", "forwarding_binary",
   "leaving", "tell_offline", "telling_offline", "closing", "done"}

PresencePC ==
  {"waiting", "removing", "kicking", "tell_offline", "telling_offline"}

Age == 0 .. StaleThreshold + 1

TypeOK ==
  /\ owner \in [DeviceId -> Conn \cup {NoConn}]
  /\ age \in [DeviceId -> Age]
  /\ open \in [Conn -> {"unused", "open", "closed"}]
  /\ peer \in [Conn -> {"up", "gone"}]
  /\ pc \in [Actor -> HandlerPC \cup PresencePC]
  /\ rt \in [Conn -> DeviceId \cup {NoDevice}]
  /\ arg \in [Actor -> DeviceId \cup {NoDevice}]
  /\ held \in [Actor -> Conn \cup {NoConn}]
  /\ batch \in [Actor -> SUBSET DeviceId]
  /\ stale \in SUBSET (DeviceId \X Conn)
  /\ told \in [Conn -> [DeviceId -> {"unknown", "online", "offline"}]]

Init ==
  /\ owner = [d \in DeviceId |-> NoConn]
  /\ age = [d \in DeviceId |-> 0]
  /\ open = [c \in Conn |-> "unused"]
  /\ peer = [c \in Conn |-> "up"]
  /\ pc = [a \in Actor |-> IF a = Presence THEN "waiting" ELSE "unused"]
  /\ rt = [c \in Conn |-> NoDevice]
  /\ arg = [a \in Actor |-> NoDevice]
  /\ held = [a \in Actor |-> NoConn]
  /\ batch = [a \in Actor |-> {}]
  /\ stale = {}
  /\ told = [c \in Conn |-> [d \in DeviceId |-> "unknown"]]

-----------------------------------------------------------------------------
(* The registry and its lock *)

Online == {d \in DeviceId : owner[d] # NoConn}

\* ForEach holds the read lock while it writes to every device.
ReadLocked == \E a \in Actor : pc[a] \in {"telling_online", "telling_offline"}

\* Register replaces whatever entry the id had.
Register(d, c) ==
  /\ ~ReadLocked
  /\ owner' = [owner EXCEPT ![d] = c]
  /\ age' = [age EXCEPT ![d] = 0]

\* Mutation: Unregister without the comparison of connections.
Removable_AnyConn(d, c) == owner[d] # NoConn

\* Unregister removes the entry only if it still holds this connection.
Removable(d, c) == owner[d] = c

Unregister(d, c) ==
  /\ ~ReadLocked
  /\ owner' = IF Removable(d, c) THEN [owner EXCEPT ![d] = NoConn] ELSE owner
  /\ age' = IF Removable(d, c) THEN [age EXCEPT ![d] = 0] ELSE age

\* Mutation: the refresh ages the entry instead.
UpdateLastSeen_Ages(d) ==
  /\ ~ReadLocked
  /\ age' = [age EXCEPT ![d] = @ + 1]
  /\ UNCHANGED owner

\* UpdateLastSeen finds the entry by id alone.
UpdateLastSeen(d) ==
  /\ ~ReadLocked
  /\ age' = [age EXCEPT ![d] = 0]
  /\ UNCHANGED owner

-----------------------------------------------------------------------------
(* Sockets *)

\* A write to a closed socket fails; one to a vanished peer may do either.
CanWrite(c) == open[c] = "open"
CanFail(c)  == open[c] # "open" \/ peer[c] = "gone"

\* Frames the peer sent before a local Close may still be read from the buffer.
CanRead(c) == pc[c] = "reading" /\ peer[c] = "up"

Goto(a, label) == pc' = [pc EXCEPT ![a] = label]

\* The locals of a handler are dead once it is back in its read loop.
Forget(a) ==
  /\ arg' = [arg EXCEPT ![a] = NoDevice]
  /\ held' = [held EXCEPT ![a] = NoConn]
  /\ batch' = [batch EXCEPT ![a] = {}]

Dial(c) ==
  /\ pc[c] = "unused"
  /\ open' = [open EXCEPT ![c] = "open"]
  /\ Goto(c, "reading")
  /\ UNCHANGED <<registryVars, peer, routerVars, stale, told>>

PeerGone(c) ==
  /\ open[c] = "open"
  /\ peer[c] = "up"
  /\ peer' = [peer EXCEPT ![c] = "gone"]
  /\ UNCHANGED <<registryVars, open, pc, routerVars, stale, told>>

\* Mutation: an error caused by a local Close does not end the read loop.
ReadError_PeerOnly(c) ==
  /\ pc[c] = "reading"
  /\ peer[c] = "gone"
  /\ Goto(c, "leaving")
  /\ UNCHANGED <<registryVars, socketVars, routerVars, stale, told>>

\* ReadMessage returns an error and the handler's deferred cleanup runs.
ReadError(c) ==
  /\ pc[c] = "reading"
  /\ CanFail(c)
  /\ Goto(c, "leaving")
  /\ UNCHANGED <<registryVars, socketVars, routerVars, stale, told>>

-----------------------------------------------------------------------------
(* device.register *)

\* Get, and the choice it leads to; Register happens in a later step.
OnRegister(c, d) ==
  /\ CanRead(c)
  /\ d \in MayRegister[c]
  /\ arg' = [arg EXCEPT ![c] = d]
  /\ \/ /\ owner[d] \in {NoConn, c}
        /\ Goto(c, "claiming")
        /\ UNCHANGED held
     \/ /\ owner[d] \notin {NoConn, c}
        /\ held' = [held EXCEPT ![c] = owner[d]]
        /\ Goto(c, "evicting")
  /\ UNCHANGED <<registryVars, socketVars, rt, batch, stale, told>>

\* The close frame and Close: later writes to the old connection fail.
Evict(c) ==
  /\ pc[c] = "evicting"
  /\ open' = [open EXCEPT ![held[c]] = "closed"]
  /\ held' = [held EXCEPT ![c] = NoConn]
  /\ Goto(c, "claiming")
  /\ UNCHANGED <<registryVars, peer, rt, arg, batch, stale, told>>

\* Mutation: the Router does not take over the id it registered.
Claim_NoIdentity(c) ==
  /\ pc[c] = "claiming"
  /\ Register(arg[c], c)
  /\ Goto(c, "replying")
  /\ UNCHANGED <<socketVars, rt, arg, held, batch, stale, told>>

Claim(c) ==
  /\ pc[c] = "claiming"
  /\ Register(arg[c], c)
  /\ rt' = [rt EXCEPT ![c] = arg[c]]
  /\ Goto(c, "replying")
  /\ UNCHANGED <<socketVars, arg, held, batch, stale, told>>

\* Mutation: a failed reply closes the connection without the cleanup.
RegisterReply_NoCleanup(c) ==
  /\ pc[c] = "replying"
  /\ \/ /\ CanWrite(c)
        /\ Goto(c, "tell_online")
        /\ UNCHANGED <<arg, held, batch>>
     \/ /\ CanFail(c)
        /\ Goto(c, "closing")
        /\ Forget(c)
  /\ UNCHANGED <<registryVars, socketVars, rt, stale, told>>

\* Mutation: a reply that fails is tried again.
RegisterReply_Retry(c) ==
  /\ pc[c] = "replying"
  /\ CanWrite(c)
  /\ Goto(c, "tell_online")
  /\ UNCHANGED <<registryVars, socketVars, routerVars, stale, told>>

\* A failed reply returns false: no broadcast, and the handler cleans up.
RegisterReply(c) ==
  /\ pc[c] = "replying"
  /\ \/ /\ CanWrite(c)
        /\ Goto(c, "tell_online")
        /\ UNCHANGED <<arg, held, batch>>
     \/ /\ CanFail(c)
        /\ Goto(c, "leaving")
        /\ Forget(c)
  /\ UNCHANGED <<registryVars, socketVars, rt, stale, told>>

-----------------------------------------------------------------------------
(* The broadcasts: ForEach(dev.WriteJSON(notify)) by any goroutine *)

\* The read lock is taken: the set of devices cannot change until the end.
\* An online notification skips the device it is about, an offline does not.
BeginTelling(a) ==
  /\ \/ /\ pc[a] = "tell_online"
        /\ batch' = [batch EXCEPT ![a] = Online \ {arg[a]}]
        /\ Goto(a, "telling_online")
     \/ /\ pc[a] = "tell_offline"
        /\ batch' = [batch EXCEPT ![a] = Online]
        /\ Goto(a, "telling_offline")
  /\ UNCHANGED <<registryVars, socketVars, rt, arg, held, stale, told>>

\* One iteration; a failed write is logged and the loop goes on.
Tell(a, o) ==
  /\ pc[a] \in {"telling_online", "telling_offline"}
  /\ o \in batch[a]
  /\ batch' = [batch EXCEPT ![a] = @ \ {o}]
  /\ \/ /\ CanWrite(owner[o])
        /\ told' = [told EXCEPT ![owner[o]][arg[a]] =
                      IF pc[a] = "telling_online" THEN "online" ELSE "offline"]
     \/ /\ CanFail(owner[o])
        /\ UNCHANGED told
  /\ UNCHANGED <<registryVars, socketVars, pc, rt, arg, held, stale>>

EndTelling(a) ==
  /\ batch[a] = {}
  /\ \/ /\ pc[a] = "telling_online"
        /\ Goto(a, "reading")
     \/ /\ pc[a] = "telling_offline"
        /\ Goto(a, IF a = Presence THEN "removing" ELSE "closing")
  /\ Forget(a)
  /\ UNCHANGED <<registryVars, socketVars, rt, stale, told>>

-----------------------------------------------------------------------------
(* device.list_online, message.send, binary frames, presence.heartbeat *)

Registered(c) == rt[c] # NoDevice

\* The snapshot is taken under the lock, the reply is written after it.
OnListOnline(c) ==
  /\ CanRead(c)
  /\ Registered(c)
  /\ batch' = [batch EXCEPT ![c] = Online]
  /\ Goto(c, "listing")
  /\ UNCHANGED <<registryVars, socketVars, rt, arg, held, stale, told>>

ListReply(c) ==
  /\ pc[c] = "listing"
  /\ \/ /\ CanWrite(c)
        /\ told' = [told EXCEPT ![c] =
             [d \in DeviceId |-> IF d \in batch[c] THEN "online" ELSE @[d]]]
        /\ Goto(c, "reading")
     \/ /\ CanFail(c)
        /\ UNCHANGED told
        /\ Goto(c, "leaving")
  /\ Forget(c)
  /\ UNCHANGED <<registryVars, socketVars, rt, stale>>

\* The target's DeviceInfo is looked up, and written to in a later step.
LookUp(c, t, label) ==
  /\ CanRead(c)
  /\ Registered(c)
  /\ t \in Online
  /\ arg' = [arg EXCEPT ![c] = t]
  /\ held' = [held EXCEPT ![c] = owner[t]]
  /\ Goto(c, label)
  /\ UNCHANGED <<registryVars, socketVars, rt, batch, stale, told>>

\* message.send; a target that is not online earns an error reply.
OnSend(c, t) == LookUp(c, t, "forwarding")

\* A binary frame; one for a target that is not online is dropped silently.
OnBinary(c, t) == LookUp(c, t, "forwarding_binary")

\* A message.send is acknowledged when it was written; otherwise, and after
\* a binary frame, the handler goes back to reading.
Forward(c) ==
  /\ \/ pc[c] = "forwarding" /\ CanWrite(held[c]) /\ Goto(c, "acking")
     \/ pc[c] = "forwarding" /\ CanFail(held[c]) /\ Goto(c, "reading")
     \/ pc[c] = "forwarding_binary" /\ Goto(c, "reading")
  /\ Forget(c)
  /\ UNCHANGED <<registryVars, socketVars, rt, stale, told>>

Ack(c) ==
  /\ pc[c] = "acking"
  /\ \/ CanWrite(c) /\ Goto(c, "reading")
     \/ CanFail(c) /\ Goto(c, "leaving")
  /\ UNCHANGED <<registryVars, socketVars, routerVars, stale, told>>

\* UpdateLastSeen and the reply; nothing another goroutine does in between
\* can be told from the same thing done before or after.
OnHeartbeat(c) ==
  /\ CanRead(c)
  /\ Registered(c)
  /\ UpdateLastSeen(rt[c])
  /\ \/ CanWrite(c) /\ UNCHANGED pc
     \/ CanFail(c) /\ Goto(c, "leaving")
  /\ UNCHANGED <<socketVars, routerVars, stale, told>>

-----------------------------------------------------------------------------
(* cleanup of a connection *)

\* Mutation: the offline broadcast does not look at Unregister's result.
Leave_AlwaysAnnounce(c) ==
  /\ pc[c] = "leaving"
  /\ \/ /\ ~Registered(c)
        /\ Goto(c, "closing")
        /\ UNCHANGED <<registryVars, arg>>
     \/ /\ Registered(c)
        /\ Unregister(rt[c], c)
        /\ Goto(c, "tell_offline")
        /\ arg' = [arg EXCEPT ![c] = rt[c]]
  /\ UNCHANGED <<socketVars, rt, held, batch, stale, told>>

\* Mutation: a handler whose socket was closed by others does not unregister.
Leave_OnlyIfOpen(c) ==
  /\ pc[c] = "leaving"
  /\ \/ /\ ~Registered(c) \/ open[c] = "closed"
        /\ Goto(c, "closing")
        /\ UNCHANGED <<registryVars, arg>>
     \/ /\ Registered(c) /\ open[c] # "closed"
        /\ Unregister(rt[c], c)
        /\ IF Removable(rt[c], c)
           THEN Goto(c, "tell_offline") /\ arg' = [arg EXCEPT ![c] = rt[c]]
           ELSE Goto(c, "closing") /\ UNCHANGED arg
  /\ UNCHANGED <<socketVars, rt, held, batch, stale, told>>

\* Only the goroutine whose Unregister removed the entry announces it.
Leave(c) ==
  /\ pc[c] = "leaving"
  /\ \/ /\ ~Registered(c)
        /\ Goto(c, "closing")
        /\ UNCHANGED <<registryVars, arg>>
     \/ /\ Registered(c)
        /\ Unregister(rt[c], c)
        /\ IF Removable(rt[c], c)
           THEN Goto(c, "tell_offline") /\ arg' = [arg EXCEPT ![c] = rt[c]]
           ELSE Goto(c, "closing") /\ UNCHANGED arg
  /\ UNCHANGED <<socketVars, rt, held, batch, stale, told>>

CloseConn(c) ==
  /\ pc[c] = "closing"
  /\ open' = [open EXCEPT ![c] = "closed"]
  /\ Goto(c, "done")
  /\ UNCHANGED <<registryVars, peer, routerVars, stale, told>>

-----------------------------------------------------------------------------
(* The presence goroutine *)

\* One clock tick; ages beyond the threshold are not told apart.
Tick ==
  /\ age' = [d \in DeviceId |->
               IF d \in Online /\ age[d] <= StaleThreshold
               THEN age[d] + 1 ELSE age[d]]
  /\ UNCHANGED <<owner, socketVars, pc, routerVars, stale, told>>

IsStale(d) == owner[d] # NoConn /\ age[d] > StaleThreshold

\* The ticker fires: check collects the stale entries under the read lock.
Scan ==
  /\ pc[Presence] = "waiting"
  /\ stale' = {p \in DeviceId \X Conn : IsStale(p[1]) /\ owner[p[1]] = p[2]}
  /\ stale' # {}
  /\ Goto(Presence, "removing")
  /\ UNCHANGED <<registryVars, socketVars, routerVars, told>>

\* Unregister of one collected entry; nil means it is somebody else's by now.
RemoveStale(d, c) ==
  /\ pc[Presence] = "removing"
  /\ <<d, c>> \in stale
  /\ stale' = stale \ {<<d, c>>}
  /\ Unregister(d, c)
  /\ IF Removable(d, c)
     THEN /\ Goto(Presence, "kicking")
          /\ arg' = [arg EXCEPT ![Presence] = d]
          /\ held' = [held EXCEPT ![Presence] = c]
     ELSE UNCHANGED <<pc, arg, held>>
  /\ UNCHANGED <<socketVars, rt, batch, told>>

\* Mutation: the announcement is left to the cleanup of the closed connection.
Kick_Silent ==
  /\ pc[Presence] = "kicking"
  /\ open' = [open EXCEPT ![held[Presence]] = "closed"]
  /\ Goto(Presence, "removing")
  /\ Forget(Presence)
  /\ UNCHANGED <<registryVars, peer, rt, stale, told>>

\* The heartbeat-timeout close frame and Close.
Kick ==
  /\ pc[Presence] = "kicking"
  /\ open' = [open EXCEPT ![held[Presence]] = "closed"]
  /\ Goto(Presence, "tell_offline")
  /\ UNCHANGED <<registryVars, peer, routerVars, stale, told>>

\* Mutation: the loop of Start returns after the first check.
EndCheck_Return ==
  /\ pc[Presence] = "removing"
  /\ stale = {}
  /\ Goto(Presence, "done")
  /\ UNCHANGED <<registryVars, socketVars, routerVars, stale, told>>

EndCheck ==
  /\ pc[Presence] = "removing"
  /\ stale = {}
  /\ Goto(Presence, "waiting")
  /\ UNCHANGED <<registryVars, socketVars, routerVars, stale, told>>

-----------------------------------------------------------------------------
(* The whole relay *)

Telling(a) == BeginTelling(a) \/ EndTelling(a) \/ \E o \in DeviceId : Tell(a, o)

\* Frames the peer sends.
Frame(c) ==
  \/ /\ Registered(c) => "register" \in MayAsk[c]
     /\ \E d \in DeviceId : OnRegister(c, d)
  \/ "send" \in MayAsk[c] /\ \E t \in DeviceId : OnSend(c, t) \/ OnBinary(c, t)
  \/ "list" \in MayAsk[c] /\ OnListOnline(c)
  \/ "heartbeat" \in MayAsk[c] /\ OnHeartbeat(c)

\* What a handler does by itself once it has read a frame or an error.
HandlerStep(c) ==
  \/ Evict(c) \/ Claim(c) \/ RegisterReply(c) \/ ListReply(c)
  \/ Forward(c) \/ Ack(c) \/ Leave(c) \/ CloseConn(c) \/ Telling(c)

PresenceStep ==
  \/ Scan \/ Kick \/ EndCheck \/ Telling(Presence)
  \/ \E d \in DeviceId, c \in Conn : RemoveStale(d, c)

Next ==
  \/ \E c \in Conn : Dial(c) \/ PeerGone(c) \/ ReadError(c) \/ Frame(c) \/ HandlerStep(c)
  \/ PresenceStep
  \/ Tick

Spec == Init /\ [][Next]_vars

(***************************************************************************)
(* Goroutines are scheduled and sync.RWMutex lets a waiting writer in      *)
(* before new readers, hence strong fairness.  A closed socket ends the    *)
(* read loop after the finitely many frames that were already buffered.    *)
(* Time passes, and a scan finds what stays stale; an entry that is        *)
(* refreshed in time may escape it for ever.  Peers need not do anything.  *)
(***************************************************************************)
Fairness ==
  /\ \A c \in Conn : SF_vars(HandlerStep(c))
  /\ \A c \in Conn : SF_vars(ReadError(c) /\ open[c] = "closed")
  /\ SF_vars(PresenceStep /\ pc[Presence] # "waiting")
  /\ WF_vars(Scan)
  /\ WF_vars(Tick)

FairSpec == Spec /\ Fairness

-----------------------------------------------------------------------------
(* Properties *)

\* A connection's handler is past its Unregister.
Left(c) == pc[c] \in {"tell_offline", "telling_offline", "closing", "done"}

\* No peer registers two ids on one connection (true of the shipped agent and
\* client; the router itself does not insist on it).
SingleIdentity == \A c \in Conn : \A d, e \in MayRegister[c] : d = e

\* Once a handler's cleanup has unregistered (handler.go cleanup), no device
\* id leads to its connection any more, whatever reconnections, evictions and
\* presence removals overlapped with it.  Needs SingleIdentity.
NoGhostEntry == \A c \in Conn : Left(c) => \A d \in DeviceId : owner[d] # c

\* What remains of it when a connection registers several ids: the last one
\* it registered is gone from the registry (handler.go cleanup).
CleanedUp == \A c \in Conn, d \in DeviceId : Left(c) /\ rt[c] = d => owner[d] # c

\* A DeviceInfo read earlier is still about the right socket when it is used:
\* what the router closes as replaced, forwards to, or presence closes as
\* stale is a connection registered as that very device.  Needs SingleIdentity.
ActsOnRightConn ==
  \A a \in Actor : held[a] # NoConn => rt[held[a]] = arg[a]

\* An entry leaves the registry only through the cleanup of the connection it
\* holds or a presence removal of that same connection, never through the
\* cleanup of a connection it replaced (comment in registry.go Unregister),
\* and whoever removed it goes on to announce that device as offline.
RemovedByHolder ==
  [][\A d \in DeviceId, c \in Conn : owner[d] = c /\ owner'[d] = NoConn =>
       \/ pc[c] = "leaving" /\ pc'[c] = "tell_offline" /\ arg'[c] = d
       \/ /\ pc'[Presence] = "kicking"
          /\ arg'[Presence] = d /\ held'[Presence] = c]_vars

\* A device whose peer has vanished without closing the connection does not
\* stay online (presence.go check).  Holds when no other connection uses its
\* id: heartbeats of a second connection refresh the entry of the first.
SilentLeaves ==
  \A c \in Conn, d \in DeviceId :
    owner[d] = c /\ peer[c] = "gone" ~> owner[d] # c

\* Closing a connection from another goroutine (replacement, heartbeat
\* timeout) ends its handler: no handler goroutine leaks.
ClosedLeaves == \A c \in Conn : open[c] = "closed" ~> pc[c] = "done"

\* A removal reaches every device that stays registered and reachable, even
\* when writes to others fail (the loops of handler.go and presence.go).
OfflineReaches ==
  \A d \in DeviceId, o \in DeviceId, k \in Conn :
    (\E a \in Actor : pc[a] \in {"kicking", "tell_offline"} /\ arg[a] = d) /\ owner[o] = k
      ~> told[k][d] = "offline" \/ owner[o] # k \/ CanFail(k)

\* The router comment: a different connection of the same device is closed
\* (router.go:153).  Violated: Get and Register are not one critical section.
OneLiveConnPerDevice ==
  \A c, k \in Conn :
    c # k /\ {pc[c], pc[k]} = {"reading"} /\ Registered(c) /\ rt[c] = rt[k]
      => "closed" \in {open[c], open[k]}

Quiet == \A a \in Actor : pc[a] \in {"unused", "reading", "done", "waiting"}

\* The plan calls the status the client shows from the presence events
\* real-time (2026-05-02 plan:156): once nothing is under way, no device was
\* last told that an online device is offline.  Violated: removal and offline
\* broadcast are not atomic, a re-registration fits in between.
PresenceAgrees ==
  Quiet => \A o, d \in DeviceId :
             o # d /\ owner[o] # NoConn /\ owner[d] # NoConn
               => told[owner[o]][d] # "offline"
=============================================================================
