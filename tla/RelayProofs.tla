---------------------------- MODULE RelayProofs ----------------------------
(***************************************************************************)
(* Proofs about Relay for any number of connections and devices.           *)
(***************************************************************************)
EXTENDS RelayDirectory, TLAPS

USE RelayAssumption DEF Actor

\* Ages start at zero and stop one past the threshold.
LEMMA AgeRange == 0 \in Age /\ \A n \in Age : n <= StaleThreshold => n + 1 \in Age
  BY DEF Age

\* Every variable keeps its type.
LEMMA TypeInit == Init => TypeOK
  BY DEF Init, TypeOK, HandlerPC, PresencePC, Age

\* One step of a connection's handler or of its peer keeps the types.
LEMMA TypeConn ==
  ASSUME TypeOK, NEW c \in Conn,
         Dial(c) \/ PeerGone(c) \/ ReadError(c) \/ Frame(c)
  PROVE  TypeOK'
<1> USE DEF TypeOK, HandlerPC, PresencePC, registryVars, socketVars,
            routerVars, Goto, Online, CanRead
<1>1. CASE Dial(c)
  BY <1>1 DEF Dial
<1>2. CASE PeerGone(c)
  BY <1>2 DEF PeerGone
<1>3. CASE ReadError(c)
  BY <1>3 DEF ReadError
<1>4. ASSUME NEW d \in DeviceId, OnRegister(c, d)
      PROVE  TypeOK'
  BY <1>4 DEF OnRegister
<1>5. ASSUME NEW t \in DeviceId, NEW label \in {"forwarding", "forwarding_binary"},
             LookUp(c, t, label)
      PROVE  TypeOK'
  BY <1>5 DEF LookUp
<1>6. CASE OnListOnline(c)
  BY <1>6 DEF OnListOnline
<1>7. CASE OnHeartbeat(c)
  <2>1. pc' \in [Actor -> HandlerPC \cup PresencePC]
    BY <1>7 DEF OnHeartbeat
  <2>2. age' \in [DeviceId -> Age]
    BY <1>7, AgeRange DEF OnHeartbeat, UpdateLastSeen
  <2>3. UNCHANGED <<owner, socketVars, routerVars, stale, told>>
    BY <1>7 DEF OnHeartbeat, UpdateLastSeen
  <2> QED
    BY <2>1, <2>2, <2>3
<1> QED
  BY <1>1, <1>2, <1>3, <1>4, <1>5, <1>6, <1>7 DEF Frame, OnSend, OnBinary

\* One step of a broadcast, by a handler or by the presence goroutine.
LEMMA TypeTelling ==
  ASSUME TypeOK, NEW a \in Actor, Telling(a)
  PROVE  TypeOK'
<1> USE DEF TypeOK, HandlerPC, PresencePC, registryVars, socketVars,
            routerVars, Goto, Online
<1>1. CASE BeginTelling(a)
  <2>1. pc' \in [Actor -> HandlerPC \cup PresencePC]
    BY <1>1 DEF BeginTelling
  <2>2. batch' \in [Actor -> SUBSET DeviceId]
    BY <1>1 DEF BeginTelling
  <2>3. UNCHANGED <<registryVars, socketVars, rt, arg, held, stale, told>>
    BY <1>1 DEF BeginTelling
  <2> QED
    BY <2>1, <2>2, <2>3
<1>2. CASE EndTelling(a)
  BY <1>2 DEF EndTelling, Forget
<1>3. ASSUME NEW o \in DeviceId, Tell(a, o)
      PROVE  TypeOK'
  <2>1. CASE UNCHANGED told
    BY <1>3, <2>1 DEF Tell
  <2>2. CASE CanWrite(owner[o]) /\ ~UNCHANGED told
    <3> DEFINE status == IF pc[a] = "telling_online" THEN "online" ELSE "offline"
    <3>1. told' = [told EXCEPT ![owner[o]][arg[a]] = status]
      BY <1>3, <2>2 DEF Tell
    <3>2. told' \in [Conn -> [DeviceId -> {"unknown", "online", "offline"}]]
      BY <3>1
    <3> QED
      BY <1>3, <3>2 DEF Tell
  <2> QED
    BY <1>3, <2>1, <2>2 DEF Tell
<1> QED
  BY <1>1, <1>2, <1>3 DEF Telling

\* One step of a handler by itself.
LEMMA TypeHandler ==
  ASSUME TypeOK, NEW c \in Conn, HandlerStep(c)
  PROVE  TypeOK'
<1> USE DEF TypeOK, HandlerPC, PresencePC, registryVars, socketVars,
            routerVars, Goto, Forget
<1>1. CASE Evict(c)
  BY <1>1 DEF Evict
<1>2. CASE Claim(c)
  <2>1. age' \in [DeviceId -> Age] /\ owner' \in [DeviceId -> Conn \cup {NoConn}]
    BY <1>2, AgeRange DEF Claim, Register
  <2>2. /\ pc' \in [Actor -> HandlerPC \cup PresencePC]
        /\ rt' \in [Conn -> DeviceId \cup {NoDevice}]
    BY <1>2 DEF Claim
  <2>3. UNCHANGED <<socketVars, arg, held, batch, stale, told>>
    BY <1>2 DEF Claim
  <2> QED
    BY <2>1, <2>2, <2>3
<1>3. CASE RegisterReply(c)
  BY <1>3 DEF RegisterReply
<1>4. CASE ListReply(c)
  <2>1. pc' \in [Actor -> HandlerPC \cup PresencePC]
    BY <1>4 DEF ListReply
  <2>2. told' \in [Conn -> [DeviceId -> {"unknown", "online", "offline"}]]
    <3> DEFINE seen == [d \in DeviceId |->
                          IF d \in batch[c] THEN "online" ELSE told[c][d]]
    <3>1. seen \in [DeviceId -> {"unknown", "online", "offline"}]
      OBVIOUS
    <3>2. told' = told \/ told' = [told EXCEPT ![c] = seen]
      BY <1>4 DEF ListReply
    <3> QED
      BY <3>1, <3>2
  <2>3. /\ arg' \in [Actor -> DeviceId \cup {NoDevice}]
        /\ held' \in [Actor -> Conn \cup {NoConn}]
        /\ batch' \in [Actor -> SUBSET DeviceId]
        /\ UNCHANGED <<registryVars, socketVars, rt, stale>>
    BY <1>4 DEF ListReply
  <2> QED
    BY <2>1, <2>2, <2>3
<1>5. CASE Forward(c)
  BY <1>5 DEF Forward
<1>6. CASE Ack(c)
  BY <1>6 DEF Ack
<1>7. CASE Leave(c)
  <2>1. CASE ~Registered(c)
    BY <1>7, <2>1 DEF Leave
  <2>2. CASE Registered(c) /\ Removable(rt[c], c)
    <3>1. /\ owner' = [owner EXCEPT ![rt[c]] = NoConn]
          /\ age' = [age EXCEPT ![rt[c]] = 0]
          /\ pc' = [pc EXCEPT ![c] = "tell_offline"]
          /\ arg' = [arg EXCEPT ![c] = rt[c]]
      BY <1>7, <2>2 DEF Leave, Unregister
    <3>2. UNCHANGED <<socketVars, rt, held, batch, stale, told>>
      BY <1>7 DEF Leave
    <3> QED
      BY <3>1, <3>2, AgeRange
  <2>3. CASE Registered(c) /\ ~Removable(rt[c], c)
    BY <1>7, <2>3 DEF Leave, Unregister
  <2> QED
    BY <2>1, <2>2, <2>3
<1>8. CASE CloseConn(c)
  BY <1>8 DEF CloseConn
<1>9. CASE Telling(c)
  BY <1>9, TypeTelling
<1> QED
  BY <1>1, <1>2, <1>3, <1>4, <1>5, <1>6, <1>7, <1>8, <1>9 DEF HandlerStep

\* One step of the presence goroutine, or of time.
LEMMA TypePresence ==
  ASSUME TypeOK, PresenceStep \/ Tick
  PROVE  TypeOK'
<1> USE DEF TypeOK, HandlerPC, PresencePC, registryVars, socketVars,
            routerVars, Goto
<1>1. CASE Scan
  BY <1>1 DEF Scan
<1>2. CASE Kick
  BY <1>2 DEF Kick
<1>3. CASE EndCheck
  BY <1>3 DEF EndCheck
<1>4. CASE Telling(Presence)
  BY <1>4, TypeTelling
<1>5. ASSUME NEW d \in DeviceId, NEW c \in Conn, RemoveStale(d, c)
      PROVE  TypeOK'
  <2>1. age' \in [DeviceId -> Age] /\ owner' \in [DeviceId -> Conn \cup {NoConn}]
    BY <1>5, AgeRange DEF RemoveStale, Unregister
  <2> QED
    BY <1>5, <2>1 DEF RemoveStale
<1>6. CASE Tick
  BY <1>6, AgeRange DEF Tick
<1> QED
  BY <1>1, <1>2, <1>3, <1>4, <1>5, <1>6 DEF PresenceStep

\* Any step of the relay keeps the types.
LEMMA TypeStep == TypeOK /\ [Next]_vars => TypeOK'
<1> SUFFICES ASSUME TypeOK, [Next]_vars PROVE TypeOK'
  OBVIOUS
<1>1. CASE UNCHANGED vars
  BY <1>1 DEF vars, TypeOK
<1> QED
  BY <1>1, TypeConn, TypeHandler, TypePresence DEF Next

\* Type correctness of the relay, for any sets of devices and connections.
THEOREM TypeCorrect == Spec => []TypeOK
  BY TypeInit, TypeStep, PTL DEF Spec

-----------------------------------------------------------------------------
(* What a cleaned-up connection leaves behind                              *)

\* After its cleanup the id a connection registered last no longer leads to
\* it: the only step that could make it lead there again is its own Register.
LEMMA CleanedUpStep == TypeOK /\ CleanedUp /\ [Next]_vars => CleanedUp'
<1> SUFFICES ASSUME TypeOK, CleanedUp, [Next]_vars,
                    NEW k \in Conn, NEW e \in DeviceId, Left(k)', rt'[k] = e
             PROVE  owner'[e] # k
  BY DEF CleanedUp
<1> USE DEF TypeOK, Left, registryVars, socketVars, routerVars, Goto
<1>1. ASSUME UNCHANGED <<owner, rt>>, Left(k)
      PROVE  owner'[e] # k
  BY <1>1 DEF CleanedUp
<1>2. CASE UNCHANGED vars
  BY <1>1, <1>2 DEF vars
<1>3. ASSUME NEW c \in Conn, Dial(c) \/ PeerGone(c) \/ ReadError(c) \/ Frame(c)
      PROVE  owner'[e] # k
  <2>1. UNCHANGED <<owner, rt>>
    BY <1>3 DEF Dial, PeerGone, ReadError, Frame, OnRegister, OnSend, OnBinary, LookUp,
                OnListOnline, OnHeartbeat, UpdateLastSeen
  <2>2. Left(k)
    BY <1>3 DEF Dial, PeerGone, ReadError, Frame, OnRegister, OnSend, OnBinary, LookUp,
                OnListOnline, OnHeartbeat
  <2> QED
    BY <1>1, <2>1, <2>2
<1>4. ASSUME NEW a \in Actor, Telling(a)
      PROVE  owner'[e] # k
  BY <1>1, <1>4 DEF Telling, BeginTelling, Tell, EndTelling
<1>5. ASSUME NEW c \in Conn, HandlerStep(c), ~Telling(c)
      PROVE  owner'[e] # k
  <2>1. CASE Claim(c)
    <3>1. k # c
      BY <2>1 DEF Claim
    <3>2. Left(k) /\ rt[k] = e
      BY <2>1, <3>1 DEF Claim
    <3> QED
      BY <2>1, <3>1, <3>2 DEF Claim, Register, CleanedUp
  <2>2. CASE Leave(c)
    <3>1. CASE ~Registered(c)
      BY <2>2, <3>1 DEF Leave, Registered, CleanedUp
    <3>2. CASE Registered(c) /\ Removable(rt[c], c)
      BY <2>2, <3>2 DEF Leave, Unregister, CleanedUp
    <3>3. CASE Registered(c) /\ ~Removable(rt[c], c)
      BY <2>2, <3>3 DEF Leave, Unregister, Removable, CleanedUp
    <3> QED
      BY <3>1, <3>2, <3>3
  <2>3. CASE Evict(c) \/ RegisterReply(c) \/ ListReply(c) \/ Forward(c) \/ Ack(c) \/ CloseConn(c)
    BY <1>1, <2>3 DEF Evict, RegisterReply, ListReply, Forward, Ack, CloseConn
  <2> QED
    BY <1>5, <2>1, <2>2, <2>3 DEF HandlerStep
<1>6. ASSUME NEW d \in DeviceId, NEW c \in Conn, RemoveStale(d, c)
      PROVE  owner'[e] # k
  <2>1. Left(k) /\ rt[k] = e
    BY <1>6 DEF RemoveStale
  <2> QED
    BY <1>6, <2>1 DEF RemoveStale, Unregister, CleanedUp
<1>7. CASE Scan \/ Kick \/ EndCheck \/ Tick
  BY <1>1, <1>7 DEF Scan, Kick, EndCheck, Tick
<1> QED
  BY <1>2, <1>3, <1>4, <1>5, <1>6, <1>7 DEF Next, PresenceStep

\* The cleanup of a connection is final for the id it registered last,
\* whatever ids its peer may register.
THEOREM CleanupIsFinal == Spec => []CleanedUp
<1>1. Init => CleanedUp
  BY DEF Init, CleanedUp, Left
<1> QED
  BY <1>1, TypeCorrect, CleanedUpStep, PTL DEF Spec

-----------------------------------------------------------------------------
(* Removals                                                                *)

\* An entry disappears only in the cleanup of the connection it holds or in
\* a presence removal of that connection; a replaced connection's cleanup
\* cannot take the new entry away.
THEOREM OnlyHoldersRemove == Spec => RemovedByHolder
<1>1. ASSUME TypeOK, [Next]_vars, NEW d \in DeviceId, NEW c \in Conn,
             owner[d] = c, owner'[d] = NoConn
      PROVE  \/ pc[c] = "leaving" /\ pc'[c] = "tell_offline" /\ arg'[c] = d
             \/ /\ pc'[Presence] = "kicking"
                /\ arg'[Presence] = d /\ held'[Presence] = c
  <2> USE <1>1 DEF TypeOK, registryVars, socketVars, routerVars, Goto
  <2>1. owner' # owner
    OBVIOUS
  <2>2. ~UNCHANGED vars
    BY <2>1 DEF vars
  <2>3. ASSUME NEW k \in Conn, Dial(k) \/ PeerGone(k) \/ ReadError(k) \/ Frame(k)
        PROVE  FALSE
    BY <2>1, <2>3 DEF Dial, PeerGone, ReadError, Frame, OnRegister, OnSend, OnBinary, LookUp,
                      OnListOnline, OnHeartbeat, UpdateLastSeen
  <2>4. ASSUME NEW a \in Actor, Telling(a)
        PROVE  FALSE
    BY <2>1, <2>4 DEF Telling, BeginTelling, Tell, EndTelling
  <2>5. ASSUME NEW k \in Conn, HandlerStep(k)
        PROVE  pc[c] = "leaving" /\ pc'[c] = "tell_offline" /\ arg'[c] = d
    <3>1. CASE Claim(k)
      BY <3>1 DEF Claim, Register
    <3>2. CASE Leave(k)
      <4>1. Registered(k) /\ Removable(rt[k], k)
        BY <2>1, <3>2 DEF Leave, Unregister
      <4>2. rt[k] = d /\ k = c
        BY <3>2, <4>1 DEF Leave, Unregister, Removable, Registered
      <4> QED
        BY <3>2, <4>1, <4>2 DEF Leave
    <3>3. CASE Evict(k) \/ RegisterReply(k) \/ ListReply(k) \/ Forward(k) \/ Ack(k) \/ CloseConn(k)
      BY <2>1, <3>3 DEF Evict, RegisterReply, ListReply, Forward, Ack, CloseConn
    <3> QED
      BY <2>4, <2>5, <3>1, <3>2, <3>3 DEF HandlerStep
  <2>6. ASSUME NEW e \in DeviceId, NEW k \in Conn, RemoveStale(e, k)
        PROVE  /\ pc'[Presence] = "kicking"
               /\ arg'[Presence] = d /\ held'[Presence] = c
    <3>1. Removable(e, k)
      BY <2>1, <2>6 DEF RemoveStale, Unregister
    <3>2. e = d /\ k = c
      BY <2>6, <3>1 DEF RemoveStale, Unregister, Removable
    <3> QED
      BY <2>6, <3>1, <3>2 DEF RemoveStale
  <2>7. ~(Scan \/ Kick \/ EndCheck \/ Tick)
    BY <2>1 DEF Scan, Kick, EndCheck, Tick
  <2> QED
    BY <2>2, <2>3, <2>4, <2>5, <2>6, <2>7 DEF Next, PresenceStep
<1> DEFINE Step ==
      \A d \in DeviceId, c \in Conn : owner[d] = c /\ owner'[d] = NoConn =>
        \/ pc[c] = "leaving" /\ pc'[c] = "tell_offline" /\ arg'[c] = d
        \/ /\ pc'[Presence] = "kicking"
           /\ arg'[Presence] = d /\ held'[Presence] = c
<1>2. TypeOK /\ [Next]_vars => [Step]_vars
  BY <1>1
<1>3. Spec => [][Step]_vars
  <2> HIDE DEF Step
  <2> QED
    BY <1>2, TypeCorrect, PTL DEF Spec
<1> QED
  BY <1>3 DEF RemovedByHolder

-----------------------------------------------------------------------------
(* One identity per connection                                             *)

\* A handler only acts under an id its peer sent.
Asked ==
  /\ \A c \in Conn : Registered(c) => rt[c] \in MayRegister[c]
  /\ \A c \in Conn : pc[c] \in {"evicting", "claiming"} => arg[c] \in MayRegister[c]

\* An entry holds a connection whose handler took that id, and no other.
Owned == \A d \in DeviceId, c \in Conn : owner[d] = c => rt[c] = d

\* DeviceInfo pointers are held between the lookup and the use only.
Holding ==
  \A a \in Actor : held[a] # NoConn =>
    /\ pc[a] \in {"evicting", "forwarding", "forwarding_binary", "kicking",
                  "tell_offline", "telling_offline"}
    /\ arg[a] \in DeviceId

Identity == Asked /\ Owned /\ Holding /\ ActsOnRightConn

\* A step that changes neither the registry nor an identity, in which every
\* goroutine stands still, drops what it holds, or keeps it to announce it.
LEMMA IdentityKept ==
  ASSUME TypeOK, Identity, UNCHANGED <<owner, rt>>,
         \A a \in Actor :
           \/ pc'[a] = pc[a] /\ arg'[a] = arg[a] /\ held'[a] = held[a]
           \/ /\ pc'[a] \notin {"evicting", "claiming"}
              /\ \/ held'[a] = NoConn
                 \/ /\ pc'[a] \in {"tell_offline", "telling_offline"}
                    /\ arg'[a] = arg[a] /\ held'[a] = held[a]
  PROVE  Identity'
<1> USE DEF TypeOK, Identity
<1>1. Asked'
  BY DEF Asked, Registered
<1>2. Owned'
  BY DEF Owned
<1>3. Holding'
  BY DEF Holding
<1>4. ActsOnRightConn'
  BY DEF ActsOnRightConn
<1> QED
  BY <1>1, <1>2, <1>3, <1>4

\* A broadcast keeps what it is about.
LEMMA IdentityTelling ==
  ASSUME TypeOK, Identity, NEW a \in Actor, Telling(a)
  PROVE  Identity'
<1> USE DEF TypeOK, registryVars, socketVars, routerVars, Goto
<1>1. UNCHANGED <<owner, rt>>
  BY DEF Telling, BeginTelling, Tell, EndTelling
<1>2. CASE BeginTelling(a)
  <2>1. CASE pc[a] = "tell_online"
    <3>1. held[a] = NoConn
      BY <2>1 DEF Identity, Holding
    <3> QED
      BY <1>1, <1>2, <2>1, <3>1, IdentityKept DEF BeginTelling
  <2>2. CASE pc[a] = "tell_offline"
    BY <1>1, <1>2, <2>2, IdentityKept DEF BeginTelling
  <2> QED
    BY <1>2, <2>1, <2>2 DEF BeginTelling
<1>3. CASE EndTelling(a)
  <2>1. held'[a] = NoConn /\ pc'[a] \in {"reading", "removing", "closing"}
    BY <1>3 DEF EndTelling, Forget
  <2>2. \A b \in Actor \ {a} : pc'[b] = pc[b] /\ arg'[b] = arg[b] /\ held'[b] = held[b]
    BY <1>3 DEF EndTelling, Forget
  <2> QED
    BY <1>1, <2>1, <2>2, IdentityKept
<1>4. ASSUME NEW o \in DeviceId, Tell(a, o)
      PROVE  Identity'
  BY <1>1, <1>4, IdentityKept DEF Tell
<1> QED
  BY <1>2, <1>3, <1>4 DEF Telling

\* Frames: what a handler looks up is about the device it looked up.
LEMMA IdentityFrame ==
  ASSUME TypeOK, Identity, NEW c \in Conn,
         Dial(c) \/ PeerGone(c) \/ ReadError(c) \/ Frame(c)
  PROVE  Identity'
<1> USE DEF TypeOK, registryVars, socketVars, routerVars, Goto
<1>1. UNCHANGED <<owner, rt>>
  BY DEF Dial, PeerGone, ReadError, Frame, OnRegister, OnSend, OnBinary, LookUp, OnListOnline,
         OnHeartbeat, UpdateLastSeen
<1>2. pc[c] \in {"unused", "reading"} => held[c] = NoConn
  BY DEF Identity, Holding
<1>3. CASE Dial(c)
  BY <1>1, <1>2, <1>3, IdentityKept DEF Dial
<1>4. CASE PeerGone(c)
  BY <1>1, <1>4, IdentityKept DEF PeerGone
<1>5. CASE ReadError(c)
  BY <1>1, <1>2, <1>5, IdentityKept DEF ReadError
<1>6. CASE OnListOnline(c)
  BY <1>1, <1>2, <1>6, IdentityKept DEF OnListOnline, CanRead
<1>7. CASE OnHeartbeat(c)
  <2>1. UNCHANGED <<arg, held>> /\ held[c] = NoConn
    BY <1>2, <1>7 DEF OnHeartbeat, CanRead
  <2>2. /\ pc'[c] \in {"reading", "leaving"}
        /\ \A b \in Actor \ {c} : pc'[b] = pc[b]
    BY <1>7 DEF OnHeartbeat, CanRead
  <2> QED
    BY <1>1, <2>1, <2>2, IdentityKept
<1>8. ASSUME NEW d \in DeviceId, OnRegister(c, d)
      PROVE  Identity'
  <2>1. /\ arg' = [arg EXCEPT ![c] = d] /\ d \in MayRegister[c]
        /\ pc'[c] \in {"evicting", "claiming"}
        /\ \A b \in Actor \ {c} : pc'[b] = pc[b] /\ held'[b] = held[b]
        /\ \/ held'[c] = NoConn
           \/ held'[c] = owner[d] /\ pc'[c] = "evicting"
    BY <1>2, <1>8 DEF OnRegister, CanRead
  <2>2. Asked' /\ Owned' /\ Holding'
    BY <1>1, <2>1 DEF Identity, Asked, Owned, Holding, Registered
  <2>3. held'[c] # NoConn => rt[held'[c]] = d
    BY <1>8, <2>1 DEF Identity, Owned, OnRegister
  <2>4. ActsOnRightConn'
    BY <1>1, <2>1, <2>3 DEF Identity, ActsOnRightConn
  <2> QED
    BY <2>2, <2>4 DEF Identity
<1>9. ASSUME NEW t \in DeviceId, OnSend(c, t) \/ OnBinary(c, t)
      PROVE  Identity'
  <2>1. /\ arg' = [arg EXCEPT ![c] = t]
        /\ held' = [held EXCEPT ![c] = owner[t]]
        /\ owner[t] \in Conn
        /\ pc'[c] \in {"forwarding", "forwarding_binary"}
        /\ \A b \in Actor \ {c} : pc'[b] = pc[b]
    BY <1>9 DEF OnSend, OnBinary, LookUp, Online
  <2>2. Asked' /\ Owned' /\ Holding'
    BY <1>1, <2>1 DEF Identity, Asked, Owned, Holding, Registered
  <2>3. rt[owner[t]] = t
    BY <2>1 DEF Identity, Owned
  <2>4. ActsOnRightConn'
    BY <1>1, <2>1, <2>3 DEF Identity, ActsOnRightConn
  <2> QED
    BY <2>2, <2>4 DEF Identity
<1> QED
  BY <1>3, <1>4, <1>5, <1>6, <1>7, <1>8, <1>9 DEF Frame

\* Register is where an identity changes: with one id per peer it cannot
\* change again while somebody holds the connection.
LEMMA IdentityHandler ==
  ASSUME TypeOK, Identity, SingleIdentity, NEW c \in Conn, HandlerStep(c)
  PROVE  Identity'
<1> USE DEF TypeOK, registryVars, socketVars, routerVars, Goto
<1>1. CASE Telling(c)
  BY <1>1, IdentityTelling
<1>2. CASE Evict(c)
  <2>1. /\ UNCHANGED <<owner, rt, arg>> /\ held' = [held EXCEPT ![c] = NoConn]
        /\ pc[c] = "evicting" /\ pc' = [pc EXCEPT ![c] = "claiming"]
    BY <1>2 DEF Evict
  <2> QED
    BY <2>1 DEF Identity, Asked, Owned, Holding, ActsOnRightConn, Registered
<1>3. CASE Claim(c)
  <2>1. /\ arg[c] \in MayRegister[c] /\ arg[c] \in DeviceId
        /\ owner' = [owner EXCEPT ![arg[c]] = c]
        /\ rt' = [rt EXCEPT ![c] = arg[c]]
        /\ pc' = [pc EXCEPT ![c] = "replying"]
        /\ UNCHANGED <<arg, held>> /\ held[c] = NoConn
    BY <1>3 DEF Claim, Register, Identity, Asked, Holding
  <2>2. rt[c] \in DeviceId => rt[c] = arg[c]
    BY <2>1 DEF Identity, Asked, Registered, SingleIdentity
  <2>3. Asked' /\ Holding'
    BY <2>1 DEF Identity, Asked, Holding, Registered
  <2>4. Owned'
    BY <2>1, <2>2 DEF Identity, Owned
  <2>5. ActsOnRightConn'
    BY <2>1, <2>2 DEF Identity, ActsOnRightConn, Holding
  <2> QED
    BY <2>3, <2>4, <2>5 DEF Identity
<1>4. CASE Leave(c)
  <2>1. held[c] = NoConn
    BY <1>4 DEF Leave, Identity, Holding
  <2>2. /\ UNCHANGED <<rt, held>>
        /\ pc'[c] \in {"tell_offline", "closing"}
        /\ \A b \in Actor \ {c} : pc'[b] = pc[b] /\ arg'[b] = arg[b]
        /\ \A d \in DeviceId : owner'[d] \in {owner[d], NoConn}
    <3>1. CASE ~Registered(c)
      BY <1>4, <3>1 DEF Leave
    <3>2. CASE Registered(c) /\ Removable(rt[c], c)
      BY <1>4, <3>2 DEF Leave, Unregister
    <3>3. CASE Registered(c) /\ ~Removable(rt[c], c)
      BY <1>4, <3>3 DEF Leave, Unregister
    <3> QED
      BY <3>1, <3>2, <3>3
  <2>3. Owned'
    BY <2>2 DEF Identity, Owned
  <2>4. Asked'
    BY <2>2 DEF Identity, Asked, Registered
  <2>5. Holding'
    BY <2>1, <2>2 DEF Identity, Holding
  <2>6. ActsOnRightConn'
    BY <2>1, <2>2 DEF Identity, ActsOnRightConn
  <2> QED
    BY <2>3, <2>4, <2>5, <2>6 DEF Identity
<1>5. CASE RegisterReply(c) \/ ListReply(c) \/ Forward(c) \/ Ack(c) \/ CloseConn(c)
  <2>1. /\ UNCHANGED <<owner, rt>>
        /\ pc'[c] \notin {"evicting", "claiming"}
        /\ \A b \in Actor \ {c} : /\ pc'[b] = pc[b] /\ arg'[b] = arg[b]
                                  /\ held'[b] = held[b]
    BY <1>5 DEF RegisterReply, ListReply, Forward, Ack, CloseConn, Forget
  <2>2. held'[c] = NoConn
    <3>1. CASE RegisterReply(c) \/ Ack(c) \/ CloseConn(c)
      BY <3>1 DEF RegisterReply, Ack, CloseConn, Forget, Identity, Holding
    <3>2. CASE ListReply(c) \/ Forward(c)
      BY <3>2 DEF ListReply, Forward, Forget
    <3> QED
      BY <1>5, <3>1, <3>2
  <2> QED
    BY <2>1, <2>2, IdentityKept
<1> QED
  BY <1>1, <1>2, <1>3, <1>4, <1>5 DEF HandlerStep

\* The presence goroutine closes what it collected under that id, if it is
\* still in the registry under it.
LEMMA IdentityPresence ==
  ASSUME TypeOK, Identity, PresenceStep \/ Tick
  PROVE  Identity'
<1> USE DEF TypeOK, registryVars, socketVars, routerVars, Goto
<1>1. CASE Telling(Presence)
  BY <1>1, IdentityTelling
<1>2. CASE Scan \/ EndCheck
  <2>1. held[Presence] = NoConn
    BY <1>2 DEF Scan, EndCheck, Identity, Holding
  <2> QED
    BY <1>2, <2>1, IdentityKept DEF Scan, EndCheck
<1>3. CASE Kick
  BY <1>3, IdentityKept DEF Kick
<1>4. CASE Tick
  BY <1>4, IdentityKept DEF Tick
<1>5. ASSUME NEW d \in DeviceId, NEW c \in Conn, RemoveStale(d, c)
      PROVE  Identity'
  <2>1. CASE ~Removable(d, c)
    BY <1>5, <2>1, IdentityKept DEF RemoveStale, Unregister
  <2>2. CASE Removable(d, c)
    <3>1. /\ owner[d] = c /\ owner' = [owner EXCEPT ![d] = NoConn]
          /\ pc' = [pc EXCEPT ![Presence] = "kicking"]
          /\ arg' = [arg EXCEPT ![Presence] = d]
          /\ held' = [held EXCEPT ![Presence] = c]
          /\ UNCHANGED rt
      BY <1>5, <2>2 DEF RemoveStale, Unregister, Removable
    <3>2. Asked' /\ Owned' /\ Holding'
      BY <3>1 DEF Identity, Asked, Owned, Holding, Registered
    <3>3. ActsOnRightConn'
      BY <3>1 DEF Identity, Owned, ActsOnRightConn
    <3> QED
      BY <3>2, <3>3 DEF Identity
  <2> QED
    BY <2>1, <2>2
<1> QED
  BY <1>1, <1>2, <1>3, <1>4, <1>5 DEF PresenceStep

\* With one id per connection the identities always agree.
LEMMA IdentityInvariant ==
  ASSUME SingleIdentity
  PROVE  Spec => []Identity
<1>1. Init => Identity
  BY DEF Init, TypeOK, Identity, Asked, Owned, Holding, ActsOnRightConn, Registered
<1>2. TypeOK /\ Identity /\ [Next]_vars => Identity'
  <2> SUFFICES ASSUME TypeOK, Identity, [Next]_vars PROVE Identity'
    OBVIOUS
  <2>1. CASE UNCHANGED vars
    BY <2>1, IdentityKept DEF vars
  <2> QED
    BY <2>1, IdentityFrame, IdentityHandler, IdentityPresence DEF Next
<1> QED
  BY <1>1, <1>2, TypeCorrect, PTL DEF Spec

\* When peers register one id per connection, whatever a goroutine closes or
\* writes to on behalf of a device is a connection of that device.
THEOREM RightConnection ==
  ASSUME SingleIdentity
  PROVE  Spec => []ActsOnRightConn
<1>1. Identity => ActsOnRightConn
  BY DEF Identity
<1> QED
  BY <1>1, IdentityInvariant, PTL

\* When peers register one id per connection, a connection whose handler has
\* cleaned up is not in the registry under any id.
THEOREM NoGhosts ==
  ASSUME SingleIdentity
  PROVE  Spec => []NoGhostEntry
<1>1. Identity /\ CleanedUp => NoGhostEntry
  BY DEF Identity, Owned, CleanedUp, NoGhostEntry
<1> QED
  BY <1>1, IdentityInvariant, CleanupIsFinal, PTL

-----------------------------------------------------------------------------
(* The relay implements the directory                                      *)

\* A handler that is about to register knows a device id.
ArgKnown == \A c \in Conn : pc[c] \in {"evicting", "claiming"} => arg[c] \in DeviceId

\* A handler that is about to register knows which id.
LEMMA ArgKnownStep == TypeOK /\ ArgKnown /\ [Next]_vars => ArgKnown'
<1> SUFFICES ASSUME TypeOK, ArgKnown, [Next]_vars, NEW k \in Conn,
                    pc'[k] \in {"evicting", "claiming"}
             PROVE  arg'[k] \in DeviceId
  BY DEF ArgKnown
<1> USE DEF TypeOK, registryVars, socketVars, routerVars, Goto
<1>1. CASE UNCHANGED vars
  BY <1>1 DEF vars, ArgKnown
<1>2. ASSUME NEW c \in Conn, Dial(c) \/ PeerGone(c) \/ ReadError(c) \/ Frame(c)
      PROVE  arg'[k] \in DeviceId
  <2>1. ASSUME NEW d \in DeviceId, OnRegister(c, d) \/ OnSend(c, d) \/ OnBinary(c, d)
        PROVE  arg'[k] \in DeviceId
    BY <2>1 DEF OnRegister, OnSend, OnBinary, LookUp, ArgKnown
  <2>2. CASE OnHeartbeat(c)
    BY <2>2 DEF OnHeartbeat, ArgKnown
  <2>3. CASE Dial(c) \/ PeerGone(c) \/ ReadError(c) \/ OnListOnline(c)
    BY <2>3 DEF Dial, PeerGone, ReadError, OnListOnline, ArgKnown
  <2> QED
    BY <1>2, <2>1, <2>2, <2>3 DEF Frame
<1>3. ASSUME NEW a \in Actor, Telling(a)
      PROVE  arg'[k] \in DeviceId
  BY <1>3 DEF Telling, BeginTelling, Tell, EndTelling, Forget, ArgKnown
<1>4. ASSUME NEW c \in Conn, HandlerStep(c), ~Telling(c)
      PROVE  arg'[k] \in DeviceId
  <2>1. CASE Leave(c)
    <3>1. k # c /\ pc'[k] = pc[k] /\ arg'[k] = arg[k]
      BY <2>1 DEF Leave
    <3> QED
      BY <3>1 DEF ArgKnown
  <2>2. CASE Evict(c) \/ Claim(c) \/ RegisterReply(c) \/ ListReply(c) \/ Forward(c) \/ Ack(c) \/ CloseConn(c)
    BY <2>2 DEF Evict, Claim, RegisterReply, ListReply, Forward, Ack, CloseConn,
                Forget, ArgKnown
  <2> QED
    BY <1>4, <2>1, <2>2 DEF HandlerStep
<1>5. ASSUME NEW d \in DeviceId, NEW c \in Conn, RemoveStale(d, c)
      PROVE  arg'[k] \in DeviceId
  BY <1>5 DEF RemoveStale, ArgKnown
<1>6. CASE Scan \/ Kick \/ EndCheck \/ Tick
  BY <1>6 DEF Scan, Kick, EndCheck, Tick, ArgKnown
<1> QED
  BY <1>1, <1>2, <1>3, <1>4, <1>5, <1>6 DEF Next, PresenceStep

Claiming  == {"replying", "tell_online", "telling_online"}
Removing == {"kicking", "tell_offline", "telling_offline"}

\* What an actor owes depends on its own control point and argument.
LEMMA OwesOf ==
  ASSUME NEW a \in Actor
  PROVE  /\ pc[a] \in Claiming => owes[a] = <<"online", arg[a]>>
         /\ pc[a] \in Removing => owes[a] = <<"offline", arg[a]>>
         /\ pc[a] \notin Claiming \cup Removing => owes[a] = Nothing
  BY DEF owes, Claiming, Removing

\* The same in the next state.
LEMMA OwesOfNext ==
  ASSUME NEW a \in Actor
  PROVE  /\ pc'[a] \in Claiming => owes'[a] = <<"online", arg'[a]>>
         /\ pc'[a] \in Removing => owes'[a] = <<"offline", arg'[a]>>
         /\ pc'[a] \notin Claiming \cup Removing => owes'[a] = Nothing
  BY DEF owes, Claiming, Removing

\* A step of one actor changes at most what that actor owes.
LEMMA OwesChange ==
  ASSUME TypeOK, NEW a \in Actor,
         \A b \in Actor \ {a} : pc'[b] = pc[b] /\ arg'[b] = arg[b]
  PROVE  owes' = [owes EXCEPT ![a] = owes'[a]]
<1>1. \A b \in Actor \ {a} : owes'[b] = owes[b]
  BY OwesOf, OwesOfNext
<1> QED
  BY <1>1 DEF owes

\* The steps that owe the same before and after and leave the registry alone.
LEMMA DirStutter ==
  ASSUME TypeOK, UNCHANGED owner, NEW a \in Actor,
         \A b \in Actor \ {a} : pc'[b] = pc[b] /\ arg'[b] = arg[b],
         \/ {pc[a], pc'[a]} \cap (Claiming \cup Removing) = {}
         \/ {pc[a], pc'[a]} \subseteq Claiming /\ arg'[a] = arg[a]
         \/ {pc[a], pc'[a]} \subseteq Removing /\ arg'[a] = arg[a]
  PROVE  UNCHANGED Dir!dirVars
<1>1. owes'[a] = owes[a]
  BY OwesOf, OwesOfNext
<1>2. owes' = [owes EXCEPT ![a] = owes[a]]
  BY <1>1, OwesChange
<1>3. owes' = owes
  BY <1>2 DEF owes
<1> QED
  BY <1>3 DEF Dir!dirVars

\* Ending a broadcast, or giving it up, settles what was owed.
LEMMA DirAnnounce ==
  ASSUME TypeOK, UNCHANGED owner, NEW a \in Actor,
         \A b \in Actor \ {a} : pc'[b] = pc[b] /\ arg'[b] = arg[b],
         pc[a] \in Claiming \cup Removing,
         pc'[a] \notin Claiming \cup Removing
  PROVE  Dir!Announce(a)
<1>1. owes'[a] = Nothing
  BY OwesOfNext
<1>2. owes' = [owes EXCEPT ![a] = Nothing]
  BY <1>1, OwesChange
<1>3. owes[a] # Nothing
  <2>1. PICK s \in {"online", "offline"} : owes[a] = <<s, arg[a]>>
    BY OwesOf
  <2>2. arg[a] \in DeviceId \cup {NoDevice}
    BY DEF TypeOK
  <2>3. owes[a] \in {"online", "offline"} \X (DeviceId \cup {NoDevice})
    BY <2>1, <2>2
  <2> QED
    BY <2>3, NothingAssumption
<1> QED
  BY <1>2, <1>3 DEF Dir!Announce

\* A broadcast is an announcement of the directory, or a stutter.
LEMMA DirTelling ==
  ASSUME TypeOK, NEW a \in Actor, Telling(a)
  PROVE  [Dir!DirNext]_(Dir!dirVars)
<1> USE DEF TypeOK, registryVars, socketVars, routerVars, Goto
<1>1. CASE BeginTelling(a)
  BY <1>1, DirStutter DEF BeginTelling, Claiming, Removing
<1>2. ASSUME NEW o \in DeviceId, Tell(a, o)
      PROVE  UNCHANGED Dir!dirVars
  BY <1>2, DirStutter DEF Tell, Claiming, Removing
<1>3. CASE EndTelling(a)
  <2>1. /\ UNCHANGED owner
        /\ \A b \in Actor \ {a} : pc'[b] = pc[b] /\ arg'[b] = arg[b]
        /\ pc[a] \in Claiming \cup Removing
        /\ pc'[a] \in {"reading", "removing", "closing"}
    BY <1>3 DEF EndTelling, Forget, Claiming, Removing
  <2>2. Dir!Announce(a)
    BY <2>1, DirAnnounce DEF Claiming, Removing
  <2> QED
    BY <2>2 DEF Dir!DirNext, Dir!Actor
<1> QED
  BY <1>1, <1>2, <1>3 DEF Telling

\* Reading a frame changes neither the registry nor what is owed, a heartbeat
\* included.
LEMMA DirFrame ==
  ASSUME TypeOK, NEW c \in Conn,
         Dial(c) \/ PeerGone(c) \/ ReadError(c) \/ Frame(c)
  PROVE  UNCHANGED Dir!dirVars
<1> USE DEF TypeOK, registryVars, socketVars, routerVars, Goto
<1>1. /\ UNCHANGED owner
      /\ \A b \in Actor \ {c} : pc'[b] = pc[b] /\ arg'[b] = arg[b]
  BY DEF Dial, PeerGone, ReadError, Frame, OnRegister, OnSend, OnBinary, LookUp, OnListOnline,
         OnHeartbeat, UpdateLastSeen
<1>2. \/ pc'[c] = pc[c] /\ arg'[c] = arg[c]
      \/ {pc[c], pc'[c]} \subseteq {"unused", "reading", "leaving", "evicting",
             "claiming", "listing", "forwarding", "forwarding_binary"}
  <2>1. CASE PeerGone(c)
    BY <2>1 DEF PeerGone
  <2>2. CASE Dial(c) \/ ReadError(c) \/ OnListOnline(c)
    BY <2>2 DEF Dial, ReadError, OnListOnline, CanRead
  <2>3. ASSUME NEW d \in DeviceId, OnRegister(c, d)
        PROVE  {pc[c], pc'[c]} \subseteq {"reading", "evicting", "claiming"}
    BY <2>3 DEF OnRegister, CanRead
  <2>4. ASSUME NEW t \in DeviceId, OnSend(c, t) \/ OnBinary(c, t)
        PROVE  {pc[c], pc'[c]} \subseteq
                 {"reading", "forwarding", "forwarding_binary"}
    BY <2>4 DEF OnSend, OnBinary, LookUp, CanRead
  <2>5. CASE OnHeartbeat(c)
    BY <2>5 DEF OnHeartbeat, CanRead
  <2> QED
    BY <2>1, <2>2, <2>3, <2>4, <2>5 DEF Frame
<1>3. CASE pc'[c] = pc[c] /\ arg'[c] = arg[c]
  BY <1>1, <1>3, DirStutter DEF Claiming, Removing
<1>4. CASE {pc[c], pc'[c]} \cap (Claiming \cup Removing) = {}
  BY <1>1, <1>4, DirStutter
<1> QED
  BY <1>2, <1>3, <1>4 DEF Claiming, Removing

\* What a handler does by itself is a claim, a removal of its own entry, an
\* announcement or a stutter.
LEMMA DirHandler ==
  ASSUME TypeOK, ArgKnown, NEW c \in Conn, HandlerStep(c)
  PROVE  [Dir!DirNext]_(Dir!dirVars)
<1> USE DEF TypeOK, registryVars, socketVars, routerVars, Goto
<1>1. CASE Telling(c)
  BY <1>1, DirTelling
<1>2. CASE Claim(c)
  <2>1. /\ pc[c] = "claiming" /\ pc' = [pc EXCEPT ![c] = "replying"]
        /\ owner' = [owner EXCEPT ![arg[c]] = c]
        /\ UNCHANGED arg /\ arg[c] \in DeviceId
    BY <1>2 DEF Claim, Register, ArgKnown
  <2>2. owes[c] = Nothing /\ owes'[c] = <<"online", arg[c]>>
    BY <2>1, OwesOf, OwesOfNext DEF Claiming, Removing
  <2>3. owes' = [owes EXCEPT ![c] = <<"online", arg[c]>>]
    BY <2>1, <2>2, OwesChange
  <2>4. Dir!Claim(c, arg[c])
    BY <2>1, <2>2, <2>3 DEF Dir!Claim
  <2> QED
    BY <2>1, <2>4 DEF Dir!DirNext
<1>3. CASE Leave(c)
  <2>1. CASE ~Registered(c)
    <3>1. /\ UNCHANGED <<owner, arg>>
          /\ pc[c] = "leaving" /\ pc' = [pc EXCEPT ![c] = "closing"]
      BY <1>3, <2>1 DEF Leave
    <3> QED
      BY <3>1, DirStutter DEF Claiming, Removing
  <2>2. CASE Registered(c) /\ ~Removable(rt[c], c)
    <3>1. /\ UNCHANGED <<owner, arg>>
          /\ pc[c] = "leaving" /\ pc' = [pc EXCEPT ![c] = "closing"]
      BY <1>3, <2>2 DEF Leave, Unregister
    <3> QED
      BY <3>1, DirStutter DEF Claiming, Removing
  <2>3. CASE Registered(c) /\ Removable(rt[c], c)
    <3>1. /\ pc[c] = "leaving" /\ pc' = [pc EXCEPT ![c] = "tell_offline"]
          /\ arg' = [arg EXCEPT ![c] = rt[c]]
          /\ rt[c] \in DeviceId /\ owner[rt[c]] = c
          /\ owner' = [owner EXCEPT ![rt[c]] = NoConn]
      BY <1>3, <2>3 DEF Leave, Unregister, Removable, Registered
    <3>2. owes[c] = Nothing /\ owes'[c] = <<"offline", rt[c]>>
      BY <3>1, OwesOf, OwesOfNext DEF Claiming, Removing
    <3>3. owes' = [owes EXCEPT ![c] = <<"offline", rt[c]>>]
      BY <3>1, <3>2, OwesChange
    <3>4. Dir!Remove(c, rt[c])
      BY <3>1, <3>2, <3>3 DEF Dir!Remove
    <3> QED
      BY <3>1, <3>4 DEF Dir!DirNext, Dir!Actor
  <2> QED
    BY <2>1, <2>2, <2>3
<1>4. CASE RegisterReply(c)
  <2>1. /\ UNCHANGED owner /\ pc[c] = "replying"
        /\ \A b \in Actor \ {c} : pc'[b] = pc[b] /\ arg'[b] = arg[b]
        /\ \/ pc'[c] = "tell_online" /\ arg'[c] = arg[c]
           \/ pc'[c] = "leaving"
    BY <1>4 DEF RegisterReply, Forget
  <2>2. CASE pc'[c] = "leaving"
    <3>1. Dir!Announce(c)
      BY <2>1, <2>2, DirAnnounce DEF Claiming, Removing
    <3> QED
      BY <3>1 DEF Dir!DirNext, Dir!Actor
  <2>3. CASE pc'[c] = "tell_online" /\ arg'[c] = arg[c]
    BY <2>1, <2>3, DirStutter DEF Claiming, Removing
  <2> QED
    BY <2>1, <2>2, <2>3
<1>5. CASE Evict(c) \/ ListReply(c) \/ Forward(c) \/ Ack(c) \/ CloseConn(c)
  <2>1. /\ UNCHANGED owner
        /\ \A b \in Actor \ {c} : pc'[b] = pc[b] /\ arg'[b] = arg[b]
        /\ {pc[c], pc'[c]} \subseteq
             {"evicting", "claiming", "listing", "reading", "leaving",
              "forwarding", "forwarding_binary", "acking", "closing", "done"}
    BY <1>5 DEF Evict, ListReply, Forward, Ack, CloseConn, Forget
  <2>2. {pc[c], pc'[c]} \cap (Claiming \cup Removing) = {}
    BY <2>1 DEF Claiming, Removing
  <2> QED
    BY <2>1, <2>2, DirStutter
<1> QED
  BY <1>1, <1>2, <1>3, <1>4, <1>5 DEF HandlerStep

\* The presence check removes an entry, announces or stutters.
LEMMA DirPresence ==
  ASSUME TypeOK, PresenceStep \/ Tick
  PROVE  [Dir!DirNext]_(Dir!dirVars)
<1> USE DEF TypeOK, registryVars, socketVars, routerVars, Goto
<1>1. CASE Telling(Presence)
  BY <1>1, DirTelling
<1>2. CASE Scan \/ EndCheck
  BY <1>2, DirStutter DEF Scan, EndCheck, Claiming, Removing
<1>3. CASE Kick
  BY <1>3, DirStutter DEF Kick, Claiming, Removing
<1>4. CASE Tick
  BY <1>4 DEF Tick, Dir!dirVars, owes
<1>5. ASSUME NEW d \in DeviceId, NEW c \in Conn, RemoveStale(d, c)
      PROVE  [Dir!DirNext]_(Dir!dirVars)
  <2>1. CASE ~Removable(d, c)
    BY <1>5, <2>1 DEF RemoveStale, Unregister, Dir!dirVars, owes
  <2>2. CASE Removable(d, c)
    <3>1. /\ owner[d] = c /\ owner' = [owner EXCEPT ![d] = NoConn]
          /\ pc[Presence] = "removing" /\ pc' = [pc EXCEPT ![Presence] = "kicking"]
          /\ arg' = [arg EXCEPT ![Presence] = d]
      BY <1>5, <2>2 DEF RemoveStale, Unregister, Removable
    <3>2. owes[Presence] = Nothing /\ owes'[Presence] = <<"offline", d>>
      BY <3>1, OwesOf, OwesOfNext DEF Claiming, Removing
    <3>3. owes' = [owes EXCEPT ![Presence] = <<"offline", d>>]
      BY <3>1, <3>2, OwesChange
    <3>4. Dir!Remove(Presence, d)
      BY <3>1, <3>2, <3>3 DEF Dir!Remove
    <3> QED
      BY <3>4 DEF Dir!DirNext, Dir!Actor
  <2> QED
    BY <2>1, <2>2
<1> QED
  BY <1>1, <1>2, <1>3, <1>4, <1>5 DEF PresenceStep

\* The registry and its broadcasts implement the directory: at most one
\* connection per id, and every removal announced once by whoever removed it.
THEOREM RelayImplementsDirectory == Spec => ImplementsDirectory
<1>1. Init => Dir!DirInit
  BY DEF Init, Dir!DirInit, Dir!Actor, owes
<1>2. TypeOK /\ ArgKnown /\ [Next]_vars => [Dir!DirNext]_(Dir!dirVars)
  <2> SUFFICES ASSUME TypeOK, ArgKnown, [Next]_vars
               PROVE  [Dir!DirNext]_(Dir!dirVars)
    OBVIOUS
  <2>1. CASE UNCHANGED vars
    BY <2>1 DEF vars, Dir!dirVars, owes
  <2> QED
    BY <2>1, DirFrame, DirHandler, DirPresence DEF Next
<1>3. Init => ArgKnown
  BY DEF Init, ArgKnown
<1> QED
  BY <1>1, <1>2, <1>3, TypeCorrect, ArgKnownStep, PTL
  DEF Spec, ImplementsDirectory, Dir!DirSpec
=============================================================================
