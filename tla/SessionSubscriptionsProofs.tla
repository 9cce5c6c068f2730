--------------------- MODULE SessionSubscriptionsProofs ---------------------
(* Proofs about SessionSubscriptions.                                       *)
EXTENDS SessionSubscriptions, TLAPS

-----------------------------------------------------------------------------
(* The inductive invariant                                                  *)

\* A channel is open exactly while it is in outputSubs.
Channels ==
  /\ crashed = FALSE
  /\ \A c \in Subscriber :
       /\ at[c] # "idle" => of[c] \in Session
       /\ at[c] \in {"idle", "checked"} => c \notin subs \cup closed /\ buffer[c] = 0
       /\ at[c] \in {"subscribed", "left"} => (c \in closed <=> c \notin subs)

\* A reader sends to channels that are there.
Rounds == \A s \in Session : todo[s] \subseteq SubsOf(s)

\* The channels of a session that is closed down were added after that.
Lates == \A c \in subs : c \in late \/ ~Doomed(of[c])

\* What is behind a subscriber, or before it, was printed.
Counts ==
  \A c \in Subscriber :
    at[c] \in {"subscribed", "left"} => past[c] + buffer[c] <= printed[of[c]]

IInv == TypeOK /\ Channels /\ Rounds /\ Lates /\ Counts /\ EveryChunk

\* Nobody has subscribed at the start.
LEMMA IInit == Init => IInv
<1> USE SubscriptionsAssumption DEF Init
<1> SUFFICES ASSUME Init PROVE IInv
  OBVIOUS
<1>1. /\ reader \in [Session -> {"none", "reading", "sending", "ended"}]
      /\ printed \in [Session -> 0 .. MaxOut] /\ todo \in [Session -> SUBSET Subscriber]
      /\ \A s \in Session : todo[s] # {} => reader[s] = "sending"
  OBVIOUS
<1>2. /\ of \in [Subscriber -> Session \cup {Nobody}]
      /\ at \in [Subscriber -> {"idle", "checked", "subscribed", "left"}]
      /\ buffer \in [Subscriber -> 0 .. Cap] /\ past \in [Subscriber -> 0 .. MaxOut]
  OBVIOUS
<1>3. /\ caller \in [Caller -> {"idle", "locking", "destroying", "done"}]
      /\ whose \in [Caller -> SUBSET Session]
  OBVIOUS
<1>4. crashed \in BOOLEAN
  BY Zenon
<1>5. TypeOK
  BY <1>1, <1>2, <1>3, <1>4 DEF TypeOK
<1> QED
  BY <1>5 DEF IInv, Channels, Rounds, Lates, Counts, EveryChunk, SubsOf

-----------------------------------------------------------------------------
(* Every step keeps it                                                      *)

\* A session and its reader.
LEMMA ReaderStep ==
  ASSUME IInv, NEW s \in Session, Create(s) \/ Reader(s) PROVE IInv'
<1> USE SubscriptionsAssumption DEF IInv, ptyVars, subVars, chanVars, callVars
<1>1. CASE Create(s)
  <2> USE <1>1 DEF Create
  <2>1. TypeOK'
    BY DEF TypeOK, Channels, Counts, EveryChunk, Rounds, SubsOf
  <2>2. Channels'
    BY DEF TypeOK, Channels, Rounds, SubsOf
  <2>3. Rounds'
    BY DEF TypeOK, Channels, Rounds, SubsOf
  <2>4. Lates'
    BY DEF TypeOK, Channels, Lates, Doomed
  <2>5. Counts' /\ EveryChunk'
    BY DEF TypeOK, Channels, Rounds, SubsOf, Counts, EveryChunk
  <2> QED
    BY <2>1, <2>2, <2>3, <2>4, <2>5
<1>2. CASE Broadcast(s)
  <2> USE <1>2 DEF Broadcast
  <2>1. TypeOK'
    BY DEF TypeOK, Channels, Counts, EveryChunk, Rounds, SubsOf
  <2>2. Channels'
    BY DEF TypeOK, Channels, Rounds, SubsOf
  <2>3. Rounds'
    BY DEF TypeOK, Channels, Rounds, SubsOf
  <2>4. Lates'
    BY DEF TypeOK, Channels, Lates, Doomed
  <2>5. Counts' /\ EveryChunk'
    BY DEF TypeOK, Channels, Rounds, SubsOf, Counts, EveryChunk
  <2> QED
    BY <2>1, <2>2, <2>3, <2>4, <2>5
<1>3. CASE EndBroadcast(s)
  <2> USE <1>3 DEF EndBroadcast
  <2>1. TypeOK'
    BY DEF TypeOK, Channels, Counts, EveryChunk, Rounds, SubsOf
  <2>2. Channels'
    BY DEF TypeOK, Channels, Rounds, SubsOf
  <2>3. Rounds'
    BY DEF TypeOK, Channels, Rounds, SubsOf
  <2>4. Lates'
    BY DEF TypeOK, Channels, Lates, Doomed
  <2>5. Counts' /\ EveryChunk'
    BY DEF TypeOK, Channels, Rounds, SubsOf, Counts, EveryChunk
  <2> QED
    BY <2>1, <2>2, <2>3, <2>4, <2>5
<1>4. CASE EndReading(s)
  <2> USE <1>4 DEF EndReading
  <2>1. TypeOK'
    BY DEF TypeOK, Channels, Counts, EveryChunk, Rounds, SubsOf
  <2>2. Channels'
    BY DEF TypeOK, Channels, Rounds, SubsOf
  <2>3. Rounds'
    BY DEF TypeOK, Channels, Rounds, SubsOf
  <2>4. Lates'
    BY DEF TypeOK, Channels, Lates, Doomed
  <2>5. Counts' /\ EveryChunk'
    BY DEF TypeOK, Channels, Rounds, SubsOf, Counts, EveryChunk
  <2> QED
    BY <2>1, <2>2, <2>3, <2>4, <2>5
<1>5. CASE \E c \in Subscriber : Send(s, c)
  <2> USE <1>5 DEF Send
  <2>1. TypeOK'
    BY DEF TypeOK, Channels, Counts, EveryChunk, Rounds, SubsOf
  <2>2. Channels'
    BY DEF TypeOK, Channels, Rounds, SubsOf
  <2>3. Rounds'
    BY DEF TypeOK, Channels, Rounds, SubsOf
  <2>4. Lates'
    BY DEF TypeOK, Channels, Lates, Doomed
  <2>5. Counts' /\ EveryChunk'
    BY DEF TypeOK, Channels, Rounds, SubsOf, Counts, EveryChunk
  <2> QED
    BY <2>1, <2>2, <2>3, <2>4, <2>5
<1> QED
  BY <1>1, <1>2, <1>3, <1>4, <1>5 DEF Reader

\* A subscriber.
LEMMA ClientStep ==
  ASSUME IInv, NEW c \in Subscriber, Client(c) PROVE IInv'
<1> USE SubscriptionsAssumption DEF IInv, ptyVars, subVars, chanVars, callVars
<1>1. CASE \E s \in Session : Check(c, s)
  <2> USE <1>1 DEF Check
  <2>1. TypeOK'
    BY DEF TypeOK, Channels, Counts, EveryChunk, Rounds, SubsOf
  <2>2. Channels'
    BY DEF TypeOK, Channels, Rounds, SubsOf
  <2>3. Rounds'
    BY DEF TypeOK, Channels, Rounds, SubsOf
  <2>4. Lates'
    BY DEF TypeOK, Channels, Lates, Doomed
  <2>5. Counts' /\ EveryChunk'
    BY DEF TypeOK, Channels, Rounds, SubsOf, Counts, EveryChunk
  <2> QED
    BY <2>1, <2>2, <2>3, <2>4, <2>5
<1>2. CASE Subscribe(c)
  <2> USE <1>2 DEF Subscribe, CanLock
  <2>1. TypeOK'
    BY DEF TypeOK, Channels, Counts, EveryChunk, Rounds, SubsOf
  <2>2. Channels'
    BY DEF TypeOK, Channels, Rounds, SubsOf
  <2>3. Rounds'
    BY DEF TypeOK, Channels, Rounds, SubsOf
  <2>4. Lates'
    BY DEF TypeOK, Channels, Lates, Doomed
  <2>5. Counts' /\ EveryChunk'
    BY DEF TypeOK, Channels, Rounds, SubsOf, Counts, EveryChunk
  <2> QED
    BY <2>1, <2>2, <2>3, <2>4, <2>5
<1>3. CASE Receive(c)
  <2> USE <1>3 DEF Receive
  <2>1. TypeOK'
    BY DEF TypeOK, Channels, Counts, EveryChunk, Rounds, SubsOf
  <2>2. Channels'
    BY DEF TypeOK, Channels, Rounds, SubsOf
  <2>3. Rounds'
    BY DEF TypeOK, Channels, Rounds, SubsOf
  <2>4. Lates'
    BY DEF TypeOK, Channels, Lates, Doomed
  <2>5. \A x \in Subscriber : past'[x] + buffer'[x] = past[x] + buffer[x]
    <3> SUFFICES ASSUME NEW x \in Subscriber PROVE past'[x] + buffer'[x] = past[x] + buffer[x]
      OBVIOUS
    <3>1. past[x] \in Nat /\ buffer[x] \in Nat /\ past \in [Subscriber -> 0 .. MaxOut]
          /\ buffer \in [Subscriber -> 0 .. Cap]
      BY DEF TypeOK
    <3> QED
      BY <3>1
  <2>6. Counts'
    BY <2>5 DEF TypeOK, Channels, Counts
  <2>7. EveryChunk'
    <3> SUFFICES ASSUME NEW x \in subs
                 PROVE past'[x] + buffer'[x] + (IF x \in todo[of[x]] THEN 1 ELSE 0) = printed[of[x]]
      BY DEF EveryChunk
    <3>1. x \in Subscriber /\ past'[x] + buffer'[x] = past[x] + buffer[x]
      BY <2>5 DEF TypeOK
    <3> QED
      BY <3>1 DEF EveryChunk
  <2> QED
    BY <2>1, <2>2, <2>3, <2>4, <2>6, <2>7
<1>4. CASE Unsubscribe(c)
  <2> USE <1>4 DEF Unsubscribe, CanLock, Close
  <2>1. TypeOK'
    BY DEF TypeOK, Channels, Counts, EveryChunk, Rounds, SubsOf
  <2>2. Channels'
    BY DEF TypeOK, Channels, Rounds, SubsOf
  <2>3. Rounds'
    BY DEF TypeOK, Channels, Rounds, SubsOf
  <2>4. Lates'
    BY DEF TypeOK, Channels, Lates, Doomed
  <2>5. Counts' /\ EveryChunk'
    BY DEF TypeOK, Channels, Rounds, SubsOf, Counts, EveryChunk
  <2> QED
    BY <2>1, <2>2, <2>3, <2>4, <2>5
<1> QED
  BY <1>1, <1>2, <1>3, <1>4 DEF Client

\* Destroy and CloseAll.
LEMMA CallStep ==
  ASSUME IInv, NEW d \in Caller, Begin(d) \/ Go(d) PROVE IInv'
<1> USE SubscriptionsAssumption DEF IInv, ptyVars, subVars, chanVars, callVars
<1>1. CASE Begin(d)
  <2> USE <1>1 DEF Begin, Destroy, CloseAll, BeginCall
  <2>1. TypeOK'
    BY DEF TypeOK, Channels, Counts, EveryChunk, Rounds, SubsOf
  <2>2. Channels'
    BY DEF TypeOK, Channels, Rounds, SubsOf
  <2>3. Rounds'
    BY DEF TypeOK, Channels, Rounds, SubsOf
  <2>4. Lates'
    BY DEF TypeOK, Channels, Lates, Doomed
  <2>5. Counts' /\ EveryChunk'
    BY DEF TypeOK, Channels, Rounds, SubsOf, Counts, EveryChunk
  <2> QED
    BY <2>1, <2>2, <2>3, <2>4, <2>5
<1>2. CASE CloseSubs(d)
  <2> USE <1>2 DEF CloseSubs, CanLock, Close
  <2>1. TypeOK'
    BY DEF TypeOK, Channels, Counts, EveryChunk, Rounds, SubsOf
  <2>2. Channels'
    BY DEF TypeOK, Channels, Rounds, SubsOf
  <2>3. Rounds'
    BY DEF TypeOK, Channels, Rounds, SubsOf
  <2>4. Lates'
    BY DEF TypeOK, Channels, Lates, Doomed
  <2>5. Counts' /\ EveryChunk'
    BY DEF TypeOK, Channels, Rounds, SubsOf, Counts, EveryChunk
  <2> QED
    BY <2>1, <2>2, <2>3, <2>4, <2>5
<1>3. CASE DestroySession(d)
  <2> USE <1>3 DEF DestroySession
  <2>1. TypeOK'
    BY DEF TypeOK, Channels, Counts, EveryChunk, Rounds, SubsOf
  <2>2. Channels'
    BY DEF TypeOK, Channels, Rounds, SubsOf
  <2>3. Rounds'
    BY DEF TypeOK, Channels, Rounds, SubsOf
  <2>4. Lates'
    BY DEF TypeOK, Channels, Lates, Doomed
  <2>5. Counts' /\ EveryChunk'
    BY DEF TypeOK, Channels, Rounds, SubsOf, Counts, EveryChunk
  <2> QED
    BY <2>1, <2>2, <2>3, <2>4, <2>5
<1> QED
  BY <1>1, <1>2, <1>3 DEF Go

\* Any step keeps the invariant.
LEMMA IStep == IInv /\ [Next]_vars => IInv'
<1> SUFFICES ASSUME IInv, [Next]_vars PROVE IInv'
  OBVIOUS
<1>1. CASE UNCHANGED vars
  BY <1>1 DEF vars, ptyVars, subVars, chanVars, callVars, IInv, TypeOK, Channels, Rounds, SubsOf,
              Lates, Doomed, Counts, EveryChunk
<1> QED
  BY <1>1, ReaderStep, ClientStep, CallStep DEF Next

\* It holds throughout.
LEMMA Invariant == Spec => []IInv
BY IInit, IStep, PTL DEF Spec

-----------------------------------------------------------------------------
(* What follows from it                                                     *)

\* Type correctness, for any number of sessions, subscribers and calls.
THEOREM SubscriptionsTypeCorrect == Spec => []TypeOK
<1>1. IInv => TypeOK
  BY DEF IInv
<1> QED
  BY <1>1, Invariant, PTL

\* No channel is closed twice, or sent on once it is closed.
THEOREM ChannelsNeverPanic == Spec => []NoPanic
<1>1. IInv => NoPanic
  BY DEF IInv, Channels, NoPanic
<1> QED
  BY <1>1, Invariant, PTL

\* The only channels left behind are those added when the session was going.
THEOREM OrphansComeLate == Spec => []OrphansAreLate
<1>1. IInv => OrphansAreLate
  BY DEF IInv, Lates, Doomed, OrphansAreLate
<1> QED
  BY <1>1, Invariant, PTL

\* No chunk is skipped or sent twice, for any capacity.
THEOREM ChunksAccountedFor == Spec => []EveryChunk
<1>1. IInv => EveryChunk
  BY DEF IInv
<1> QED
  BY <1>1, Invariant, PTL
-----------------------------------------------------------------------------
(* The channels implement Multicast                                         *)

\* What is due to a subscriber is in the round of its session.
LEMMA DueInRound ==
  ASSUME IInv, NEW s \in Session, NEW c, c \in Due, ListensTo[c] = s
  PROVE  c \in todo[s]
BY SubscriptionsAssumption DEF IInv, Rounds, SubsOf, Due, ListensTo, TypeOK

\* While somebody has the write lock nothing is due.
LEMMA NothingDueUnderLock == ASSUME TypeOK, CanLock PROVE Due = {}
BY DEF TypeOK, CanLock, Due

\* Nothing the subscribers see is touched.
CastSame == UNCHANGED <<subs, of, todo, buffer, closed>>

LEMMA CastStutters == CastSame => UNCHANGED Cast!castVars
BY DEF CastSame, Cast!castVars, ListensTo, Due

\* Broadcast publishes a chunk.
LEMMA BroadcastPublishes ==
  ASSUME IInv, NEW s \in Session, Broadcast(s) PROVE Cast!Publish(s)
<1> USE SubscriptionsAssumption DEF Broadcast, subVars, chanVars, callVars
<1>1. todo[s] = {}
  BY DEF IInv, TypeOK
<1>2. SubsOf(s) = Cast!Audience(s)
  BY DEF IInv, TypeOK, SubsOf, Cast!Audience, ListensTo
<1>3. Due \cap Cast!Audience(s) = {}
  BY <1>1, DueInRound DEF Cast!Audience
<1>4. todo' = [todo EXCEPT ![s] = SubsOf(s)] /\ todo \in [Session -> SUBSET Subscriber]
  BY DEF IInv, TypeOK
<1>5. Due' = Due \cup Cast!Audience(s)
  BY <1>1, <1>2, <1>4, Zenon DEF Due
<1>6. ListensTo' = ListensTo
  BY DEF ListensTo
<1> QED
  BY <1>3, <1>5, <1>6 DEF Cast!Publish

\* Send gives it to a subscriber, or loses it.
LEMMA SendOffers ==
  ASSUME IInv, NEW s \in Session, NEW c \in Subscriber, Send(s, c)
  PROVE  Cast!Give(c) \/ Cast!Lose(c)
<1> USE SubscriptionsAssumption DEF Send, ptyVars, subVars, callVars
<1>1. /\ todo \in [Session -> SUBSET Subscriber]
      /\ buffer[c] \in 0 .. Cap /\ c \in todo[s] /\ c \in Due
  BY DEF IInv, TypeOK, Due
<1>2. \A r \in Session : c \in todo[r] => r = s
  BY <1>1 DEF IInv, Rounds, SubsOf
<1>3. todo' = [todo EXCEPT ![s] = @ \ {c}]
  OBVIOUS
<1>4. Due' = Due \ {c}
  BY <1>1, <1>2, <1>3 DEF Due
<1>5. ListensTo' = ListensTo
  BY DEF ListensTo
<1>6. CASE buffer[c] < Cap
  BY <1>1, <1>4, <1>5, <1>6 DEF Cast!Give
<1>7. CASE ~(buffer[c] < Cap)
  <2>1. buffer[c] = Cap
    BY <1>1, <1>7
  <2> QED
    BY <1>1, <1>4, <1>5, <1>7, <2>1 DEF Cast!Lose
<1> QED
  BY <1>6, <1>7

\* Subscribe joins.
LEMMA SubscribeJoins ==
  ASSUME IInv, NEW c \in Subscriber, Subscribe(c) PROVE Cast!Join(c, of[c]) /\ of[c] \in Session
<1> USE DEF Subscribe, ptyVars, callVars
<1>1. of[c] \in Session /\ c \notin subs /\ c \notin closed
  BY DEF IInv, Channels
<1>2. ListensTo[c] = Nobody
  BY <1>1 DEF ListensTo
<1>3. ListensTo' = [ListensTo EXCEPT ![c] = of[c]]
  BY DEF ListensTo
<1>4. Due' = Due
  BY DEF Due
<1> QED
  BY <1>1, <1>2, <1>3, <1>4 DEF Cast!Join

\* Channels that are there and closed under the write lock stop listening.
LEMMA ClosingStops ==
  ASSUME IInv, CanLock, NEW gone \in SUBSET subs, subs' = subs \ gone, closed' = closed \cup gone,
         UNCHANGED <<of, todo, buffer>>
  PROVE  Cast!Stop(gone) /\ gone \in SUBSET Subscriber
<1> USE SubscriptionsAssumption
<1>1. gone \in SUBSET Subscriber
  BY DEF IInv, TypeOK
<1>2. Due = {} /\ Due' = Due
  BY NothingDueUnderLock DEF IInv, Due
<1>3. \A c \in gone : ListensTo[c] # Nobody
  <2> SUFFICES ASSUME NEW c \in gone PROVE ListensTo[c] # Nobody
    OBVIOUS
  <2>1. c \in subs /\ c \in Subscriber
    BY <1>1
  <2>2. at[c] \in {"idle", "checked", "subscribed", "left"} /\ at[c] # "idle"
    BY <2>1 DEF IInv, Channels, TypeOK
  <2>3. of[c] \in Session
    BY <2>1, <2>2 DEF IInv, Channels
  <2> QED
    BY <2>1, <2>3 DEF ListensTo
<1>4. ListensTo' = [c \in Subscriber |-> IF c \in gone THEN Nobody ELSE ListensTo[c]]
  BY DEF ListensTo
<1> QED
  BY <1>1, <1>2, <1>3, <1>4 DEF Cast!Stop

\* Every step is one of the multicast, or none.
LEMMA CastStep == IInv /\ [Next]_vars => [Cast!CastNext]_Cast!castVars
<1> USE DEF ptyVars, subVars, chanVars, callVars
<1> SUFFICES ASSUME IInv, [Next]_vars PROVE [Cast!CastNext]_Cast!castVars
  OBVIOUS
<1>1. CASE UNCHANGED vars
  BY <1>1, CastStutters DEF vars, CastSame
<1>2. ASSUME NEW s \in Session, Create(s) \/ EndBroadcast(s) \/ EndReading(s)
      PROVE  [Cast!CastNext]_Cast!castVars
  BY <1>2, CastStutters DEF Create, EndBroadcast, EndReading, CastSame
<1>3. ASSUME NEW s \in Session, Broadcast(s) PROVE Cast!CastNext
  BY <1>3, BroadcastPublishes DEF Cast!CastNext
<1>4. ASSUME NEW s \in Session, NEW c \in Subscriber, Send(s, c) PROVE Cast!CastNext
  BY <1>4, SendOffers DEF Cast!CastNext
<1>5. ASSUME NEW c \in Subscriber, NEW s \in Session, Check(c, s)
      PROVE  [Cast!CastNext]_Cast!castVars
  <2>1. c \notin subs
    BY <1>5 DEF IInv, Channels, Check
  <2>2. ListensTo' = ListensTo
    BY <1>5, <2>1 DEF Check, ListensTo, IInv, TypeOK
  <2>3. UNCHANGED <<Due, buffer, closed>>
    BY <1>5 DEF Check, Due
  <2> QED
    BY <2>2, <2>3 DEF Cast!castVars
<1>6. ASSUME NEW c \in Subscriber, Subscribe(c) PROVE Cast!CastNext
  BY <1>6, SubscribeJoins DEF Cast!CastNext
<1>7. ASSUME NEW c \in Subscriber, Receive(c) PROVE Cast!CastNext
  <2>1. Cast!Take(c)
    BY <1>7 DEF Receive, Cast!Take, ListensTo, Due
  <2> QED
    BY <2>1 DEF Cast!CastNext
<1>8. ASSUME NEW c \in Subscriber, Unsubscribe(c) PROVE Cast!CastNext
  <2>1. {c} \cap subs \in SUBSET subs /\ subs' = subs \ ({c} \cap subs)
    BY <1>8 DEF Unsubscribe
  <2>2. Cast!Stop({c} \cap subs) /\ {c} \cap subs \in SUBSET Subscriber
    BY <1>8, <2>1, ClosingStops DEF Unsubscribe, Close
  <2> QED
    BY <2>2 DEF Cast!CastNext
<1>9. ASSUME NEW d \in Caller, CloseSubs(d) PROVE Cast!CastNext
  <2> DEFINE gone == {c \in subs : of[c] \in whose[d]}
  <2>1. gone \in SUBSET subs /\ subs' = subs \ gone
    BY <1>9 DEF CloseSubs
  <2>2. Cast!Stop(gone) /\ gone \in SUBSET Subscriber
    BY <1>9, <2>1, ClosingStops DEF CloseSubs, Close
  <2> QED
    BY <2>2 DEF Cast!CastNext
<1>10. ASSUME NEW d \in Caller, Begin(d) \/ DestroySession(d)
       PROVE  [Cast!CastNext]_Cast!castVars
  BY <1>10, CastStutters DEF Begin, Destroy, CloseAll, BeginCall, DestroySession, CastSame
<1> QED
  BY <1>1, <1>2, <1>3, <1>4, <1>5, <1>6, <1>7, <1>8, <1>9, <1>10
  DEF Next, Reader, Client, Go

\* The channels implement Multicast, for any sessions, subscribers, calls and
\* capacity.
THEOREM SubscriptionsImplementMulticast == Spec => ImplementsMulticast
<1>1. Init => Cast!CastInit
  <2>1. ASSUME Init PROVE ListensTo = [c \in Subscriber |-> Nobody] /\ Due = {}
    BY <2>1 DEF Init, ListensTo, Due
  <2> QED
    BY <2>1 DEF Init, Cast!CastInit
<1> QED
  BY <1>1, CastStep, Invariant, PTL DEF Spec, ImplementsMulticast, Cast!CastSpec
=============================================================================
