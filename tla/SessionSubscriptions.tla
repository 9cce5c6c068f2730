------------------------ MODULE SessionSubscriptions ------------------------
(***************************************************************************)
(* Subscriptions to the output of sessions (session/manager.go): a channel *)
(* per subscription, filled by the readers of the sessions under the read  *)
(* lock of Manager.mu, closed under its write lock by UnsubscribeOutput,   *)
(* Destroy or CloseAll.                                                    *)
(*                                                                         *)
(* Nobody keeps the lock over a wait: a holder of the write lock is one    *)
(* step, a holder of the read lock is a reader at work on a chunk.         *)
(* Channels are known by who subscribes, and only what they hold is        *)
(* counted.                                                                *)
(***************************************************************************)
EXTENDS Naturals

CONSTANTS
  Session,
  Subscriber,
  Caller, \* calls of Destroy and CloseAll
  Cap,    \* capacity of a channel (256)
  MaxOut, \* bound: chunks a session prints
  Nobody  \* no session

ASSUME SubscriptionsAssumption ==
  Cap \in Nat \ {0} /\ MaxOut \in Nat /\ Nobody \notin Session

VARIABLES
  sessions, \* sessions in pty.Manager
  reader,   \* what the readOutput goroutine of each session does
  printed,  \* chunks it has passed on
  todo,     \* subscribers it has yet to send the chunk in hand to
  subs,     \* Manager.outputSubs: those whose channel is there
  of,       \* the session each subscriber asked for
  at,       \* where each subscriber is
  closed,   \* subscribers whose channel is closed
  buffer,   \* chunks in each channel
  past,     \* chunks from before each was subscribed, received or dropped (history)
  caller,   \* where each call is
  whose,    \* the sessions it destroys
  late,     \* channels added when those of the session had been closed (history)
  crashed   \* panic: close of a closed channel, or send on one

ptyVars  == <<sessions, reader, printed, todo>>
subVars  == <<subs, of, at, closed, late>>
chanVars == <<buffer, past>>
callVars == <<caller, whose>>
vars == <<ptyVars, subVars, chanVars, callVars, crashed>>

TypeOK ==
  /\ sessions \subseteq Session
  /\ reader \in [Session -> {"none", "reading", "sending", "ended"}]
  /\ printed \in [Session -> 0 .. MaxOut] /\ todo \in [Session -> SUBSET Subscriber]
  /\ \A s \in Session : todo[s] # {} => reader[s] = "sending"
  /\ subs \subseteq Subscriber /\ closed \subseteq Subscriber /\ late \subseteq Subscriber
  /\ of \in [Subscriber -> Session \cup {Nobody}]
  /\ at \in [Subscriber -> {"idle", "checked", "subscribed", "left"}]
  /\ buffer \in [Subscriber -> 0 .. Cap]
  /\ past \in [Subscriber -> 0 .. MaxOut]
  /\ caller \in [Caller -> {"idle", "locking", "destroying", "done"}]
  /\ whose \in [Caller -> SUBSET Session]
  /\ crashed \in BOOLEAN

Init ==
  /\ sessions = {} /\ reader = [s \in Session |-> "none"]
  /\ printed = [s \in Session |-> 0] /\ todo = [s \in Session |-> {}]
  /\ subs = {} /\ closed = {} /\ late = {}
  /\ of = [c \in Subscriber |-> Nobody] /\ at = [c \in Subscriber |-> "idle"]
  /\ buffer = [c \in Subscriber |-> 0] /\ past = [c \in Subscriber |-> 0]
  /\ caller = [d \in Caller |-> "idle"] /\ whose = [d \in Caller |-> {}]
  /\ crashed = FALSE

\* Lock waits for the readers to release theirs.
CanLock == \A s \in Session : reader[s] # "sending"

SubsOf(s) == {c \in subs : of[c] = s}

\* Its channels have been closed, and it is destroyed or about to be.
Doomed(s) ==
  s \notin sessions \/ \E d \in Caller : caller[d] = "destroying" /\ s \in whose[d]

\* A channel that is closed already panics.
Close(channels) ==
  /\ closed' = closed \cup channels
  /\ crashed' = (channels \cap closed # {})

-----------------------------------------------------------------------------
(* Sessions and their readers *)

Create(s) ==
  /\ reader[s] = "none"
  /\ sessions' = sessions \cup {s}
  /\ reader' = [reader EXCEPT ![s] = "reading"]
  /\ UNCHANGED <<printed, todo, subVars, chanVars, callVars, crashed>>

\* broadcastOutput, from the reader of s.  What was read before the session was
\* destroyed comes here after that.
Broadcast(s) ==
  /\ reader[s] = "reading" /\ printed[s] < MaxOut
  /\ reader' = [reader EXCEPT ![s] = "sending"]
  /\ printed' = [printed EXCEPT ![s] = @ + 1]
  /\ todo' = [todo EXCEPT ![s] = SubsOf(s)]
  /\ UNCHANGED <<sessions, subVars, chanVars, callVars, crashed>>

\* Mutation: the send waits for room.
Send_Blocking(s, c) ==
  /\ c \in todo[s] /\ buffer[c] < Cap
  /\ buffer' = [buffer EXCEPT ![c] = @ + 1]
  /\ crashed' = (c \in closed)
  /\ todo' = [todo EXCEPT ![s] = @ \ {c}]
  /\ UNCHANGED <<sessions, reader, printed, past, subVars, callVars>>

\* A full channel drops the chunk.
Send(s, c) ==
  /\ c \in todo[s]
  /\ IF buffer[c] < Cap
     THEN buffer' = [buffer EXCEPT ![c] = @ + 1] /\ past' = past
     ELSE past' = [past EXCEPT ![c] = @ + 1] /\ buffer' = buffer
  /\ crashed' = (c \in closed)
  /\ todo' = [todo EXCEPT ![s] = @ \ {c}]
  /\ UNCHANGED <<sessions, reader, printed, subVars, callVars>>

\* Mutation: a full channel ends the round.
EndBroadcast_Early(s) ==
  /\ reader[s] = "sending" /\ \A c \in todo[s] : buffer[c] = Cap
  /\ reader' = [reader EXCEPT ![s] = "reading"]
  /\ todo' = [todo EXCEPT ![s] = {}]
  /\ UNCHANGED <<sessions, printed, subVars, chanVars, callVars, crashed>>

\* Mutation: the read lock is given up before the round is over.
EndBroadcast_Unlock(s) ==
  /\ reader[s] = "sending"
  /\ reader' = [reader EXCEPT ![s] = "reading"]
  /\ UNCHANGED <<sessions, printed, todo, subVars, chanVars, callVars, crashed>>

EndBroadcast(s) ==
  /\ reader[s] = "sending" /\ todo[s] = {}
  /\ reader' = [reader EXCEPT ![s] = "reading"]
  /\ UNCHANGED <<sessions, printed, todo, subVars, chanVars, callVars, crashed>>

\* The program ends, or its session is destroyed; its channels stay open.
EndReading(s) ==
  /\ reader[s] = "reading"
  /\ reader' = [reader EXCEPT ![s] = "ended"]
  /\ UNCHANGED <<sessions, printed, todo, subVars, chanVars, callVars, crashed>>

-----------------------------------------------------------------------------
(* Subscribers *)

\* SubscribeOutput looks for the session first, without Manager.mu.
Check(c, s) ==
  /\ at[c] = "idle" /\ s \in sessions
  /\ at' = [at EXCEPT ![c] = "checked"] /\ of' = [of EXCEPT ![c] = s]
  /\ UNCHANGED <<ptyVars, subs, closed, late, chanVars, callVars, crashed>>

\* Nothing looks whether it is still there.
Subscribe(c) ==
  /\ at[c] = "checked" /\ CanLock
  /\ at' = [at EXCEPT ![c] = "subscribed"]
  /\ subs' = subs \cup {c}
  /\ past' = [past EXCEPT ![c] = printed[of[c]]]
  /\ late' = IF Doomed(of[c]) THEN late \cup {c} ELSE late
  /\ UNCHANGED <<ptyVars, of, closed, buffer, callVars, crashed>>

Receive(c) ==
  /\ at[c] = "subscribed" /\ buffer[c] > 0
  /\ buffer' = [buffer EXCEPT ![c] = @ - 1]
  /\ past' = [past EXCEPT ![c] = @ + 1]
  /\ UNCHANGED <<ptyVars, subVars, callVars, crashed>>

\* Mutation: it does not wait for the readers.
Unsubscribe_NoLock(c) ==
  /\ at[c] = "subscribed"
  /\ at' = [at EXCEPT ![c] = "left"]
  /\ subs' = subs \ {c}
  /\ Close({c} \cap subs)
  /\ UNCHANGED <<ptyVars, of, late, chanVars, callVars>>

\* A channel that is no longer there has been closed.
Unsubscribe(c) ==
  /\ at[c] = "subscribed" /\ CanLock
  /\ at' = [at EXCEPT ![c] = "left"]
  /\ subs' = subs \ {c}
  /\ Close({c} \cap subs)
  /\ UNCHANGED <<ptyVars, of, late, chanVars, callVars>>

-----------------------------------------------------------------------------
(* Destroy and CloseAll *)

BeginCall(d, ss) ==
  /\ caller[d] = "idle"
  /\ caller' = [caller EXCEPT ![d] = "locking"] /\ whose' = [whose EXCEPT ![d] = ss]
  /\ UNCHANGED <<ptyVars, subVars, chanVars, crashed>>

Destroy(d, s) == reader[s] # "none" /\ BeginCall(d, {s})
CloseAll(d) == BeginCall(d, Session)

\* Mutation: the entry of the session stays.
CloseSubs_Keep(d) ==
  /\ caller[d] = "locking" /\ CanLock
  /\ caller' = [caller EXCEPT ![d] = "destroying"]
  /\ Close({c \in subs : of[c] \in whose[d]})
  /\ UNCHANGED <<ptyVars, subs, of, at, late, chanVars, whose>>

\* First the channels ...
CloseSubs(d) ==
  /\ caller[d] = "locking" /\ CanLock
  /\ caller' = [caller EXCEPT ![d] = "destroying"]
  /\ Close({c \in subs : of[c] \in whose[d]})
  /\ subs' = {c \in subs : of[c] \notin whose[d]}
  /\ UNCHANGED <<ptyVars, of, at, late, chanVars, whose>>

\* ... then the sessions, without Manager.mu.
DestroySession(d) ==
  /\ caller[d] = "destroying"
  /\ caller' = [caller EXCEPT ![d] = "done"]
  /\ sessions' = sessions \ whose[d]
  /\ UNCHANGED <<reader, printed, todo, subVars, chanVars, whose, crashed>>

-----------------------------------------------------------------------------
Reader(s) ==
  \/ Broadcast(s) \/ EndBroadcast(s) \/ EndReading(s) \/ \E c \in Subscriber : Send(s, c)

Client(c) ==
  \/ Subscribe(c) \/ Receive(c) \/ Unsubscribe(c) \/ \E s \in Session : Check(c, s)

Begin(d) == CloseAll(d) \/ \E s \in Session : Destroy(d, s)
Go(d) == CloseSubs(d) \/ DestroySession(d)

Next ==
  /\ ~crashed
  /\ \/ \E s \in Session : Create(s) \/ Reader(s)
     \/ \E c \in Subscriber : Client(c)
     \/ \E d \in Caller : Begin(d) \/ Go(d)

Spec == Init /\ [][Next]_vars

\* A round of sends goes on; a writer that waits for an RWMutex gets it, as it
\* keeps later readers out.  Subscribers need not receive.
Fairness ==
  /\ \A s \in Session :
       WF_vars(~crashed /\ (EndBroadcast(s) \/ \E c \in Subscriber : Send(s, c)))
  /\ \A d \in Caller : SF_vars(~crashed /\ Go(d))

FairSpec == Spec /\ Fairness

-----------------------------------------------------------------------------
(* Properties *)

\* Whoever closes a channel first, Unsubscribe, Destroy or CloseAll, nobody
\* closes it again and no reader sends on it.
NoPanic == ~crashed

\* A subscriber is left with an open channel of a session that is gone only if it
\* was added between the two halves of Destroy, or after them.
OrphansAreLate == \A c \in subs : of[c] \in sessions \/ c \in late

\* Every chunk since the subscription was received, is in the channel, was
\* dropped for want of room, or is being sent: none is skipped when others
\* subscribe and leave, none is sent twice.
EveryChunk ==
  \A c \in subs :
    past[c] + buffer[c] + (IF c \in todo[of[c]] THEN 1 ELSE 0) = printed[of[c]]

\* What each subscriber listens to while its channel is there, and who has yet to
\* be sent the chunk in a reader's hand.
ListensTo == [c \in Subscriber |-> IF c \in subs THEN of[c] ELSE Nobody]
Due == UNION {todo[s] : s \in Session}

Cast == INSTANCE Multicast
        WITH Topic <- Session, Listener <- Subscriber, Room <- Cap, NoTopic <- Nobody,
             listens <- ListensTo, due <- Due, holds <- buffer, over <- closed

\* broadcastOutput, one channel after another, amounts to a multicast: a chunk is due
\* to all subscribers of its session at once, no channel is closed while it is due
\* one, and a closed channel gets nothing more.
ImplementsMulticast == Cast!CastSpec

\* Subscribers that do not receive hold up no call of Destroy or CloseAll.
CallsEnd == \A d \in Caller : caller[d] = "locking" ~> caller[d] = "done" \/ crashed
=============================================================================
