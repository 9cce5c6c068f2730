--------------------------- MODULE AgentApiProofs ---------------------------
(* Proofs about AgentApi.                                                   *)
EXTENDS AgentApi, FiniteSetTheorems, TLAPS

-----------------------------------------------------------------------------
(* Types                                                                    *)

\* What the variables of one actor say of each other.
Coherent ==
  /\ \A s \in Session : taken[s] <= printed[s]
  /\ \A s \in Session : reader[s] = "sending" => taken[s] >= 1
  /\ loop # "receiving" => message \in Session \X (1 .. MaxOut)
  /\ loop = "writing" => target \in Client
  /\ \A c \in Client :
       at[c] \in {"looking_up", "locking", "feeding", "destroying", "killing"}
         => arg[c] \in Session

TypeInv == TypeOK /\ Coherent

\* The same, one actor at a time.
TerminalsOK ==
  /\ printed \in [Session -> 0 .. MaxOut] /\ taken \in [Session -> 0 .. MaxOut]
  /\ reader \in [Session -> {"reading", "sending", "ended"}]
  /\ input \in [Session -> 0 .. InputCap]
  /\ \A s \in Session : taken[s] <= printed[s]
  /\ \A s \in Session : reader[s] = "sending" => taken[s] >= 1

LocksOK ==
  /\ sessions \subseteq Session
  /\ managerMu \in Client \cup {Nobody}
  /\ sessionMu \in [Session -> Client \cup {Nobody}]

QueueOK == queue \in Seq(Session \X (1 .. MaxOut)) /\ Len(queue) <= QueueCap

LoopOK ==
  /\ loop \in {"receiving", "locking", "sending", "writing"}
  /\ message \in (Session \X (1 .. MaxOut)) \cup {None}
  /\ batch \subseteq Client
  /\ target \in Client \cup {Nobody}
  /\ loop # "receiving" => message \in Session \X (1 .. MaxOut)
  /\ loop = "writing" => target \in Client

PlacesOK ==
  /\ at \in [Client -> {"absent", "adding", "reading", "looking_up", "locking",
                        "feeding", "destroying", "killing", "replying", "writing",
                        "removing", "done"}]
  /\ arg \in [Client -> Session \cup {Nobody}]
  /\ \A c \in Client :
       at[c] \in {"looking_up", "locking", "feeding", "destroying", "killing"}
         => arg[c] \in Session

LinksOK ==
  /\ clients \subseteq Client
  /\ got \in [Client -> [Session -> 0 .. MaxOut]]
  /\ stalled \subseteq MayStall /\ gone \subseteq Client /\ closed \subseteq Client
  /\ crashed \in BOOLEAN

Parts == TerminalsOK /\ LocksOK /\ QueueOK /\ LoopOK /\ PlacesOK /\ LinksOK

\* The whole has its parts, and the parts make the whole, before and after a step.
LEMMA TypeParts == TypeInv => Parts
BY ZenonT(60) DEF TypeInv, TypeOK, Coherent, Parts, TerminalsOK, LocksOK, QueueOK, LoopOK,
   PlacesOK, LinksOK

LEMMA PartsType == Parts => TypeInv
BY ZenonT(60) DEF TypeInv, TypeOK, Coherent, Parts, TerminalsOK, LocksOK, QueueOK, LoopOK,
   PlacesOK, LinksOK

LEMMA PartsTypeNext == Parts' => TypeInv'
BY PartsType, PTL

\* A part none of whose variables changes stays in order.
LEMMA KeepTerminals == TerminalsOK /\ UNCHANGED terminalVars => TerminalsOK'
BY DEF TerminalsOK, terminalVars

LEMMA KeepLocks == LocksOK /\ UNCHANGED managerVars => LocksOK'
BY DEF LocksOK, managerVars

LEMMA KeepQueue == QueueOK /\ UNCHANGED queue => QueueOK'
BY DEF QueueOK

LEMMA KeepLoop == LoopOK /\ UNCHANGED loopVars => LoopOK'
BY DEF LoopOK, loopVars, None

LEMMA KeepPlaces == PlacesOK /\ UNCHANGED handlerVars => PlacesOK'
BY DEF PlacesOK, handlerVars

LEMMA KeepLinks == LinksOK /\ UNCHANGED <<clients, linkVars, crashed>> => LinksOK'
BY DEF LinksOK, linkVars

\* Nobody has read, sent or asked anything at the start.
LEMMA TypeInit == Init => TypeInv
<1> SUFFICES ASSUME Init PROVE Parts
  BY PartsType
<1>1. TerminalsOK
  BY ApiAssumption DEF Init, TerminalsOK
<1>2. LocksOK /\ LoopOK /\ PlacesOK
  BY DEF Init, LocksOK, LoopOK, PlacesOK
<1>3. QueueOK
  BY ApiAssumption DEF Init, QueueOK
<1>4. got \in [Client -> [Session -> 0 .. MaxOut]]
  BY ApiAssumption DEF Init
<1>5. LinksOK
  BY <1>4 DEF Init, LinksOK
<1> QED
  BY <1>1, <1>2, <1>3, <1>5 DEF Parts

\* The terminals and their readers keep the types.
LEMMA TypeTerminal ==
  ASSUME TypeInv, NEW s \in Session,
         Emit(s) \/ Consume(s) \/ ReaderStep(s)
  PROVE  TypeInv'
<1> Parts
  BY TypeParts
<1> UNCHANGED <<managerVars, loopVars, clients, handlerVars, linkVars, crashed>>
  BY DEF Emit, Consume, ReaderStep, Read, Enqueue, EndReading
<1>1. LocksOK' /\ LoopOK' /\ PlacesOK' /\ LinksOK'
  BY KeepLocks, KeepLoop, KeepPlaces, KeepLinks DEF Parts
<1>2. TerminalsOK
  BY DEF Parts
<1>3. TerminalsOK'
  <2>1. CASE Emit(s)
    BY <1>2, <2>1, ApiAssumption DEF Emit, HasRoom, TerminalsOK
  <2>2. CASE Consume(s)
    BY <1>2, <2>2, ApiAssumption DEF Consume, TerminalsOK
  <2>3. CASE Read(s)
    BY <1>2, <2>3, ApiAssumption DEF Read, TerminalsOK
  <2>4. CASE Enqueue(s)
    BY <1>2, <2>4 DEF Enqueue, TerminalsOK
  <2>5. CASE EndReading(s)
    BY <1>2, <2>5 DEF EndReading, TerminalsOK
  <2> QED
    BY <2>1, <2>2, <2>3, <2>4, <2>5 DEF ReaderStep
<1>4. QueueOK'
  <2>1. CASE Enqueue(s)
    <3>1. <<s, taken[s]>> \in Session \X (1 .. MaxOut)
      BY <1>2, <2>1, ApiAssumption DEF Enqueue, TerminalsOK
    <3> QED
      BY <2>1, <3>1, ApiAssumption DEF Enqueue, Parts, QueueOK
  <2>2. CASE ~Enqueue(s)
    BY <2>2, KeepQueue DEF Emit, Consume, ReaderStep, Read, EndReading, Parts
  <2> QED
    BY <2>1, <2>2
<1> QED
  BY <1>1, <1>3, <1>4, PartsTypeNext DEF Parts

\* broadcastLoop keeps the types.
LEMMA TypeLoop ==
  ASSUME TypeInv, LoopStep PROVE TypeInv'
<1> Parts
  BY TypeParts
<1> UNCHANGED <<terminalVars, managerVars, handlerVars>>
  BY DEF LoopStep, Receive, LockClients, SendOk, SendFails, UnlockClients, BeginSend,
         SendPanics
<1>1. TerminalsOK' /\ LocksOK' /\ PlacesOK'
  BY KeepTerminals, KeepLocks, KeepPlaces DEF Parts
<1>2. LoopOK /\ LinksOK
  BY DEF Parts
<1>3. QueueOK' /\ LoopOK' /\ LinksOK'
  <2>1. CASE Receive
    <3>1. Head(queue) \in Session \X (1 .. MaxOut)
      BY <2>1 DEF Receive, Parts, QueueOK
    <3>2. QueueOK'
      BY <2>1, ApiAssumption DEF Receive, Parts, QueueOK
    <3>3. LoopOK'
      BY <1>2, <2>1, <3>1 DEF Receive, LoopOK
    <3>4. LinksOK'
      BY <1>2, <2>1, KeepLinks DEF Receive
    <3> QED
      BY <3>2, <3>3, <3>4
  <2>2. CASE ~Receive
    <3>1. QueueOK'
      BY <2>2, KeepQueue DEF LoopStep, LockClients, SendOk, SendFails, UnlockClients,
         BeginSend, SendPanics, Parts
    <3>2. CASE LockClients
      BY <1>2, <3>1, <3>2, KeepLinks DEF LockClients, LoopOK, LinksOK
    <3>3. CASE SendOk
      <4>1. /\ target \in Client
            /\ message[1] \in Session /\ message[2] \in 0 .. MaxOut
        BY <1>2, <3>3 DEF SendOk, LoopOK
      <4>2. got' \in [Client -> [Session -> 0 .. MaxOut]]
        BY <1>2, <3>3, <4>1 DEF SendOk, LinksOK
      <4> QED
        BY <1>2, <3>1, <3>3, <4>2 DEF SendOk, LoopOK, LinksOK
    <3>4. CASE SendFails
      BY <1>2, <3>1, <3>4 DEF SendFails, LoopOK, LinksOK
    <3>5. CASE UnlockClients
      BY <1>2, <3>1, <3>5, KeepLinks DEF UnlockClients, LoopOK, None
    <3>6. ASSUME NEW c \in Client, BeginSend(c) PROVE LoopOK' /\ LinksOK'
      BY <1>2, <3>6, KeepLinks DEF BeginSend, LoopOK
    <3>7. ASSUME NEW c \in Client, SendPanics(c) PROVE LoopOK' /\ LinksOK'
      BY <1>2, <3>7, KeepLoop DEF SendPanics, LinksOK, linkVars
    <3> QED
      BY <2>2, <3>1, <3>2, <3>3, <3>4, <3>5, <3>6, <3>7 DEF LoopStep
  <2> QED
    BY <2>1, <2>2
<1> QED
  BY <1>1, <1>3, PartsTypeNext DEF Parts

\* A request that is carried out leaves places and requests in order.
LEMMA AnsweredType ==
  ASSUME PlacesOK, NEW c \in Client, NEW from, Answered(c, from)
  PROVE  PlacesOK'
BY DEF PlacesOK, Answered, Move

\* So does one that goes on with its session.
LEMMA MoveType ==
  ASSUME PlacesOK, NEW c \in Client, NEW from, arg[c] \in Session,
         NEW to \in {"locking", "feeding", "killing"},
         Move(c, from, to), UNCHANGED arg
  PROVE  PlacesOK'
BY DEF PlacesOK, Move

\* And a goroutine that is about no session.
LEMMA FreeMoveType ==
  ASSUME PlacesOK, NEW c \in Client, NEW from,
         NEW to \in {"adding", "reading", "replying", "writing", "removing", "done"},
         Move(c, from, to), UNCHANGED arg
  PROVE  PlacesOK'
BY DEF PlacesOK, Move

\* A connection and its goroutine keep the types.
LEMMA TypeHandler ==
  ASSUME TypeInv, NEW c \in Client, HandlerStep(c) PROVE TypeInv'
<1> Parts
  BY TypeParts
<1> UNCHANGED <<queue, loopVars>>
  BY DEF HandlerStep, Add, LookUp, LockSession, Feed, LockManager, Kill, BeginReply,
         NoReply, ReplyPanics, EndReply, ReadFails, Remove
<1>1. QueueOK' /\ LoopOK'
  BY KeepQueue, KeepLoop DEF Parts
<1>2. TerminalsOK /\ LocksOK /\ PlacesOK /\ LinksOK
  BY DEF Parts
<1>p. arg[c] \in Session \cup {Nobody}
  BY <1>2 DEF PlacesOK
<1>3. CASE Add(c) \/ Remove(c)
  <2>1. PlacesOK'
    BY <1>2, <1>3, FreeMoveType DEF Add, Remove
  <2>2. LinksOK'
    BY <1>2, <1>3 DEF Add, Remove, LinksOK, linkVars
  <2>3. TerminalsOK' /\ LocksOK'
    BY <1>2, <1>3, KeepTerminals, KeepLocks DEF Add, Remove
  <2> QED
    BY <1>1, <2>1, <2>2, <2>3, PartsTypeNext DEF Parts
<1>4. CASE BeginReply(c) \/ NoReply(c) \/ ReplyPanics(c) \/ EndReply(c) \/ ReadFails(c)
  <2>1. PlacesOK'
    BY <1>2, <1>4, FreeMoveType DEF BeginReply, NoReply, ReplyPanics, EndReply, ReadFails
  <2>2. TerminalsOK' /\ LocksOK' /\ LinksOK'
    BY <1>2, <1>4, KeepTerminals, KeepLocks, KeepLinks
       DEF BeginReply, NoReply, ReplyPanics, EndReply, ReadFails
  <2> QED
    BY <1>1, <2>1, <2>2, PartsTypeNext DEF Parts
<1>5. CASE LookUp(c)
  <2>1. PlacesOK'
    <3>1. CASE arg[c] \in sessions
      <4>1. arg[c] \in Session
        BY <1>2, <3>1 DEF LocksOK
      <4> QED
        BY <1>2, <1>5, <3>1, <4>1, MoveType DEF LookUp
    <3>2. CASE arg[c] \notin sessions
      BY <1>2, <1>5, <3>2, AnsweredType DEF LookUp
    <3> QED
      BY <3>1, <3>2
  <2>2. TerminalsOK' /\ LocksOK' /\ LinksOK'
    BY <1>2, <1>5, KeepTerminals, KeepLocks, KeepLinks DEF LookUp
  <2> QED
    BY <1>1, <2>1, <2>2, PartsTypeNext DEF Parts
<1>6. CASE LockSession(c) \/ LockManager(c)
  <2>1. PlacesOK'
    <3>1. CASE arg[c] \in sessions
      <4>1. arg[c] \in Session
        BY <1>2, <3>1 DEF LocksOK
      <4> QED
        BY <1>2, <1>6, <3>1, <4>1, MoveType DEF LockSession, LockManager
    <3>2. CASE arg[c] \notin sessions
      BY <1>2, <1>6, <3>2, AnsweredType DEF LockSession, LockManager
    <3> QED
      BY <3>1, <3>2
  <2>2. LocksOK'
    <3>1. CASE LockSession(c)
      <4>1. /\ \/ sessionMu' = [sessionMu EXCEPT ![arg[c]] = c]
               \/ UNCHANGED sessionMu
            /\ UNCHANGED <<sessions, managerMu>>
        BY <3>1 DEF LockSession
      <4> QED
        BY <1>2, <4>1 DEF LocksOK
    <3>2. CASE LockManager(c)
      BY <1>2, <3>2 DEF LockManager, LocksOK
    <3> QED
      BY <1>6, <3>1, <3>2
  <2>3. TerminalsOK' /\ LinksOK'
    BY <1>2, <1>6, KeepTerminals, KeepLinks DEF LockSession, LockManager
  <2> QED
    BY <1>1, <2>1, <2>2, <2>3, PartsTypeNext DEF Parts
<1>7. CASE Feed(c) \/ Kill(c)
  <2>1. PlacesOK'
    BY <1>2, <1>7, AnsweredType DEF Feed, Kill
  <2>2. arg[c] \in Session
    BY <1>2, <1>7 DEF Feed, Kill, PlacesOK
  <2>3. LocksOK'
    BY <1>2, <1>7, <2>2 DEF Feed, Kill, LocksOK
  <2>4. /\ \/ input' = [input EXCEPT ![arg[c]] = @ + 1] /\ input[arg[c]] < InputCap
           \/ input' = [input EXCEPT ![arg[c]] = 0]
        /\ UNCHANGED <<printed, taken, reader>>
    BY <1>7 DEF Feed, Kill
  <2>5. input' \in [Session -> 0 .. InputCap]
    BY <1>2, <2>2, <2>4, ApiAssumption DEF TerminalsOK
  <2>6. TerminalsOK'
    BY <1>2, <2>4, <2>5 DEF TerminalsOK
  <2>7. LinksOK'
    BY <1>2, <1>7, KeepLinks DEF Feed, Kill
  <2> QED
    BY <1>1, <2>1, <2>3, <2>6, <2>7, PartsTypeNext DEF Parts
<1> QED
  BY <1>3, <1>4, <1>5, <1>6, <1>7 DEF HandlerStep

\* So does what a peer may do.
LEMMA TypePeer ==
  ASSUME TypeInv, NEW c \in Client, Peer(c) PROVE TypeInv'
<1> Parts
  BY TypeParts
<1> UNCHANGED <<terminalVars, managerVars, queue, loopVars>>
  BY DEF Peer, Connect, Leave, Stall, Request
<1>1. TerminalsOK' /\ LocksOK' /\ QueueOK' /\ LoopOK'
  BY KeepTerminals, KeepLocks, KeepQueue, KeepLoop DEF Parts
<1>2. PlacesOK /\ LinksOK
  BY DEF Parts
<1>3. PlacesOK' /\ LinksOK'
  <2>1. CASE Connect(c)
    BY <1>2, <2>1, FreeMoveType, KeepLinks DEF Connect
  <2>2. CASE Leave(c) \/ Stall(c)
    <3>1. PlacesOK'
      BY <1>2, <2>2, KeepPlaces DEF Leave, Stall
    <3>2. LinksOK'
      BY <1>2, <2>2 DEF Leave, Stall, LinksOK
    <3> QED
      BY <3>1, <3>2
  <2>3. ASSUME NEW s \in Session, NEW what \in {"looking_up", "destroying", "replying"},
               Request(c, s, what)
        PROVE  PlacesOK' /\ LinksOK'
    <3>1. LinksOK'
      BY <1>2, <2>3, KeepLinks DEF Request
    <3>2. PlacesOK'
      BY <1>2, <2>3 DEF Request, Move, PlacesOK
    <3> QED
      BY <3>1, <3>2
  <2> QED
    BY <2>1, <2>2, <2>3 DEF Peer
<1> QED
  BY <1>1, <1>3, PartsTypeNext DEF Parts

\* Any step keeps the types.
LEMMA TypeStep == TypeInv /\ [Next]_vars => TypeInv'
<1> SUFFICES ASSUME TypeInv, [Next]_vars PROVE TypeInv'
  OBVIOUS
<1>1. CASE UNCHANGED vars
  BY <1>1, TypeParts, PartsTypeNext, KeepTerminals, KeepLocks, KeepQueue, KeepLoop,
     KeepPlaces, KeepLinks
     DEF vars, Parts
<1> QED
  BY <1>1, TypeTerminal, TypeLoop, TypeHandler, TypePeer DEF Next

\* Type correctness, for any sessions, clients and capacities.
THEOREM ApiTypeCorrect == Spec => []TypeOK
<1>1. TypeInv => TypeOK
  BY DEF TypeInv
<1> QED
  BY <1>1, TypeInit, TypeStep, PTL DEF Spec

-----------------------------------------------------------------------------
(* Input                                                                    *)

\* A WriteInput that waits for the terminal holds Session.mu of a session that
\* is in the map: it cannot be destroyed before the write is over.
Feeding ==
  \A c \in Client :
    at[c] = "feeding" => arg[c] \in sessions /\ sessionMu[arg[c]] = c

FeedInv == TypeInv /\ Feeding

\* No step but those of a goroutine touches places, locks and sessions.
LEMMA FeedElsewhere ==
  ASSUME Feeding, UNCHANGED <<managerVars, handlerVars>> PROVE Feeding'
BY DEF Feeding, managerVars, handlerVars

\* Of a goroutine that goes anywhere but to its write, nothing is asked.
LEMMA FeedMove ==
  ASSUME TypeInv, Feeding, NEW c \in Client, NEW from, NEW to, to # "feeding",
         Move(c, from, to),
         \A d \in Client \ {c} : arg'[d] = arg[d],
         UNCHANGED <<sessions, sessionMu>>
  PROVE  Feeding'
BY DEF Feeding, Move, TypeInv, TypeOK

\* Every step keeps a write under its lock.
LEMMA FeedStep == FeedInv /\ [Next]_vars => Feeding'
<1> SUFFICES ASSUME FeedInv, [Next]_vars PROVE Feeding'
  OBVIOUS
<1> USE DEF FeedInv
<1>1. ASSUME NEW s \in Session, Emit(s) \/ Consume(s) \/ ReaderStep(s) PROVE Feeding'
  BY <1>1, FeedElsewhere DEF Emit, Consume, ReaderStep, Read, Enqueue, EndReading
<1>2. CASE LoopStep
  BY <1>2, FeedElsewhere
     DEF LoopStep, Receive, LockClients, SendOk, SendFails, UnlockClients, BeginSend,
         SendPanics
<1>3. ASSUME NEW c \in Client, HandlerStep(c) PROVE Feeding'
  <2> USE DEF managerVars
  <2>a. TypeInv /\ at \in [Client -> {"absent", "adding", "reading", "looking_up",
                        "locking", "feeding", "destroying", "killing", "replying",
                        "writing", "removing", "done"}]
        /\ arg \in [Client -> Session \cup {Nobody}]
        /\ sessionMu \in [Session -> Client \cup {Nobody}]
        /\ sessions \subseteq Session
    BY DEF TypeInv, TypeOK
  <2>1. CASE Add(c)
    BY <2>1, FeedMove DEF Add
  <2>2. CASE LookUp(c)
    <3>1. CASE arg[c] \in sessions
      BY <2>2, <3>1, FeedMove DEF LookUp
    <3>2. CASE arg[c] \notin sessions
      BY <2>2, <3>2, <2>a, FeedMove DEF LookUp, Answered
    <3> QED
      BY <3>1, <3>2
  <2>3. CASE LockSession(c)
    <3>1. CASE arg[c] \in sessions
      BY <2>3, <3>1, <2>a, ApiAssumption DEF LockSession, Feeding, Move
    <3>2. CASE arg[c] \notin sessions
      BY <2>3, <3>2, <2>a, FeedMove DEF LockSession, Answered
    <3> QED
      BY <3>1, <3>2
  <2>4. CASE Feed(c)
    BY <2>4, <2>a DEF Feed, Answered, Move, Feeding
  <2>5. CASE LockManager(c)
    <3>1. CASE arg[c] \in sessions
      BY <2>5, <3>1, FeedMove DEF LockManager
    <3>2. CASE arg[c] \notin sessions
      BY <2>5, <3>2, <2>a, FeedMove DEF LockManager, Answered
    <3> QED
      BY <3>1, <3>2
  <2>6. CASE Kill(c)
    BY <2>6, <2>a, ApiAssumption DEF Kill, Answered, Move, Feeding
  <2>7. CASE BeginReply(c) \/ NoReply(c) \/ ReplyPanics(c) \/ ReadFails(c)
    BY <2>7, FeedMove DEF BeginReply, NoReply, ReplyPanics, ReadFails
  <2>8. CASE EndReply(c)
    BY <2>8, FeedMove DEF EndReply
  <2>9. CASE Remove(c)
    BY <2>9, FeedMove DEF Remove
  <2> QED
    BY <1>3, <2>1, <2>2, <2>3, <2>4, <2>5, <2>6, <2>7, <2>8, <2>9 DEF HandlerStep
<1>4. ASSUME NEW c \in Client, Peer(c) PROVE Feeding'
  <2>1. CASE Connect(c)
    BY <2>1, FeedMove DEF Connect, managerVars
  <2>2. CASE Leave(c) \/ Stall(c)
    BY <2>2, FeedElsewhere DEF Leave, Stall
  <2>3. ASSUME NEW s \in Session, NEW what \in {"looking_up", "destroying", "replying"},
               Request(c, s, what)
        PROVE  Feeding'
    BY <2>3, FeedMove DEF Request, managerVars, TypeInv, TypeOK
  <2> QED
    BY <1>4, <2>1, <2>2, <2>3 DEF Peer
<1>5. CASE UNCHANGED vars
  BY <1>5, FeedElsewhere DEF vars
<1> QED
  BY <1>1, <1>2, <1>3, <1>4, <1>5 DEF Next

\* Only a write feeds a terminal.
LEMMA OnlyFeedFeeds ==
  ASSUME FeedInv, [Next]_vars, NEW s \in Session, input'[s] > input[s]
  PROVE  s \in sessions /\ s \in sessions'
<1>1. input \in [Session -> Nat]
  BY ApiAssumption DEF FeedInv, TypeInv, TypeOK
<1>2. ~(UNCHANGED input)
  BY <1>1
<1>3. ASSUME NEW c \in Client, Feed(c) PROVE s \in sessions /\ s \in sessions'
  <2>1. s = arg[c]
    BY <1>1, <1>3 DEF Feed
  <2> QED
    BY <1>3, <2>1 DEF Feed, FeedInv, Feeding
<1>4. ASSUME NEW t \in Session PROVE ~Consume(t)
  BY <1>1, <1>4 DEF Consume
<1>5. ASSUME NEW c \in Client PROVE ~Kill(c)
  BY <1>1, <1>5 DEF Kill
<1>6. ASSUME NEW t \in Session PROVE ~Emit(t) /\ ~ReaderStep(t)
  BY <1>2 DEF Emit, ReaderStep, Read, Enqueue, EndReading
<1>7. ~LoopStep
  BY <1>2 DEF LoopStep, Receive, LockClients, SendOk, SendFails, UnlockClients,
              BeginSend, SendPanics, terminalVars
<1>8. ASSUME NEW c \in Client PROVE ~Peer(c)
  BY <1>2 DEF Peer, Connect, Leave, Stall, Request, terminalVars
<1>9. ASSUME NEW c \in Client, HandlerStep(c) PROVE Feed(c) \/ Kill(c)
  BY <1>2, <1>9 DEF HandlerStep, Add, LookUp, LockSession, LockManager, BeginReply,
              NoReply, ReplyPanics, EndReply, ReadFails, Remove, terminalVars
<1>10. ~(UNCHANGED vars)
  BY <1>2 DEF vars, terminalVars
<1> QED
  BY <1>3, <1>4, <1>5, <1>6, <1>7, <1>8, <1>9, <1>10 DEF Next

\* A destroyed session gets no more input, whenever its handle was looked up.
THEOREM DestroyedGetsNothing == Spec => DestroyedTakesNoInput
<1>1. Init => FeedInv
  <2>1. Init => Feeding
    BY DEF Init, Feeding
  <2> QED
    BY <2>1, TypeInit DEF FeedInv
<1>2. FeedInv /\ [Next]_vars => FeedInv'
  BY FeedStep, TypeStep DEF FeedInv
<1>3. FeedInv /\ [Next]_vars =>
        [\A s \in Session : input'[s] > input[s] => s \in sessions /\ s \in sessions']_vars
  BY OnlyFeedFeeds
<1> QED
  BY <1>1, <1>2, <1>3, PTL DEF Spec, DestroyedTakesNoInput

-----------------------------------------------------------------------------
(* Waiting                                                                  *)

\* Who holds a mutex beyond one step is at the place that needs it, and a
\* reader ends only after its session.
Holders ==
  /\ managerMu # Nobody => at[managerMu] = "killing"
  /\ \A s \in Session : sessionMu[s] # Nobody =>
       at[sessionMu[s]] = "feeding" /\ arg[sessionMu[s]] = s
  /\ \A s \in Session : reader[s] = "ended" => s \notin sessions

\* What has to change for them to be disturbed.
LEMMA HoldersElsewhere ==
  ASSUME Holders, UNCHANGED <<managerVars, handlerVars, reader>> PROVE Holders'
BY DEF Holders, managerVars, handlerVars

\* A goroutine that holds no mutex may go anywhere.
LEMMA HoldersMove ==
  ASSUME TypeInv, Holders, NEW c \in Client, NEW from, NEW to,
         from \notin {"killing", "feeding"}, Move(c, from, to),
         \A d \in Client \ {c} : arg'[d] = arg[d],
         UNCHANGED <<managerVars, reader>>
  PROVE  Holders'
BY DEF Holders, Move, TypeInv, TypeOK, managerVars

\* Every step leaves the mutexes with those that use them.
LEMMA HoldersStep == FeedInv /\ Holders /\ [Next]_vars => Holders'
<1> SUFFICES ASSUME FeedInv, Holders, [Next]_vars PROVE Holders'
  OBVIOUS
<1> USE DEF FeedInv
<1>1. ASSUME NEW s \in Session, Emit(s) \/ Consume(s) \/ ReaderStep(s) PROVE Holders'
  <2>1. /\ UNCHANGED <<managerVars, handlerVars>>
        /\ \A r \in Session : reader'[r] = "ended" => reader[r] = "ended" \/ r \notin sessions
    BY <1>1 DEF Emit, Consume, ReaderStep, Read, Enqueue, EndReading, TypeInv, TypeOK
  <2> QED
    BY <2>1 DEF Holders, managerVars, handlerVars
<1>2. CASE LoopStep
  BY <1>2, HoldersElsewhere
     DEF LoopStep, Receive, LockClients, SendOk, SendFails, UnlockClients, BeginSend,
         SendPanics, terminalVars
<1>3. ASSUME NEW c \in Client, HandlerStep(c) PROVE Holders'
  <2> USE DEF terminalVars, managerVars
  <2>a. TypeInv /\ at \in [Client -> {"absent", "adding", "reading", "looking_up",
                        "locking", "feeding", "destroying", "killing", "replying",
                        "writing", "removing", "done"}]
        /\ arg \in [Client -> Session \cup {Nobody}]
        /\ sessionMu \in [Session -> Client \cup {Nobody}]
        /\ managerMu \in Client \cup {Nobody}
        /\ sessions \subseteq Session
        /\ (at[c] \in {"locking", "feeding", "killing"} => arg[c] \in Session)
    BY DEF TypeInv, TypeOK, Coherent
  <2>1. CASE Add(c)
    BY <2>1, HoldersMove DEF Add
  <2>2. CASE LookUp(c)
    <3>1. CASE arg[c] \in sessions
      BY <2>2, <3>1, HoldersMove DEF LookUp
    <3>2. CASE arg[c] \notin sessions
      BY <2>2, <3>2, <2>a, HoldersMove DEF LookUp, Answered
    <3> QED
      BY <3>1, <3>2
  <2>3. CASE LockSession(c)
    <3>1. CASE arg[c] \in sessions
      BY <2>3, <3>1, <2>a, ApiAssumption DEF LockSession, Holders, Move
    <3>2. CASE arg[c] \notin sessions
      BY <2>3, <3>2, <2>a, HoldersMove DEF LockSession, Answered
    <3> QED
      BY <3>1, <3>2
  <2>4. CASE Feed(c)
    BY <2>4, <2>a, ApiAssumption DEF Feed, Answered, Move, Holders
  <2>5. CASE LockManager(c)
    <3>1. CASE arg[c] \in sessions
      BY <2>5, <3>1, <2>a DEF LockManager, Holders, Move
    <3>2. CASE arg[c] \notin sessions
      BY <2>5, <3>2, <2>a, HoldersMove DEF LockManager, Answered
    <3> QED
      BY <3>1, <3>2
  <2>6. CASE Kill(c)
    BY <2>6, <2>a, ApiAssumption DEF Kill, Answered, Move, Holders
  <2>7. CASE BeginReply(c) \/ NoReply(c) \/ ReplyPanics(c) \/ ReadFails(c)
    BY <2>7, HoldersMove DEF BeginReply, NoReply, ReplyPanics, ReadFails
  <2>8. CASE EndReply(c)
    BY <2>8, HoldersMove DEF EndReply
  <2>9. CASE Remove(c)
    BY <2>9, HoldersMove DEF Remove
  <2> QED
    BY <1>3, <2>1, <2>2, <2>3, <2>4, <2>5, <2>6, <2>7, <2>8, <2>9 DEF HandlerStep
<1>4. ASSUME NEW c \in Client, Peer(c) PROVE Holders'
  <2> USE DEF terminalVars
  <2>1. CASE Connect(c)
    BY <2>1, HoldersMove DEF Connect
  <2>2. CASE Leave(c) \/ Stall(c)
    BY <2>2, HoldersElsewhere DEF Leave, Stall
  <2>3. ASSUME NEW s \in Session, NEW what \in {"looking_up", "destroying", "replying"},
               Request(c, s, what)
        PROVE  Holders'
    BY <2>3, HoldersMove DEF Request, TypeInv, TypeOK
  <2> QED
    BY <1>4, <2>1, <2>2, <2>3 DEF Peer
<1>5. CASE UNCHANGED vars
  BY <1>5, HoldersElsewhere DEF vars, terminalVars
<1> QED
  BY <1>1, <1>2, <1>3, <1>4, <1>5 DEF Next

Waits(t) == \E u \in Thread : Working(u) /\ WaitsFor(t, u) /\ Rank(u) < Rank(t)

\* broadcastLoop waits for nobody but the client it writes to.
LEMMA LoopWaitsForClients ==
  Working(Loop) => CanGo(Loop) \/ Hangs(Loop)
BY DEF CanGo, Hangs

\* A reader waits for the loop only: a full queue is not empty.
LEMMA ReaderWaitsForLoop ==
  ASSUME TypeInv, NEW s \in Session, Working(Reader(s))
  PROVE  CanGo(Reader(s)) \/ Waits(Reader(s))
<1>1. reader[s] \in {"reading", "sending"}
  BY DEF Working, Reader, Conn, Program, Loop, TypeInv, TypeOK
<1>2. CASE reader[s] = "reading" \/ Len(queue) < QueueCap
  BY <1>2 DEF CanGo
<1>3. CASE reader[s] = "sending" /\ ~(Len(queue) < QueueCap)
  <2>1. queue # <<>>
    BY <1>3, ApiAssumption
  <2>2. Loop \in Thread /\ Working(Loop)
    BY <2>1 DEF Thread, Working
  <2>3. WaitsFor(Reader(s), Loop)
    BY DEF WaitsFor
  <2>4. Rank(Loop) < Rank(Reader(s))
    BY DEF Rank, Loop, Reader
  <2> QED
    BY <2>2, <2>3, <2>4 DEF Waits
<1> QED
  BY <1>1, <1>2, <1>3

\* A program that cannot print has a reader with something to read or to send.
LEMMA ProgramWaitsForReader ==
  ASSUME TypeInv, Holders, NEW s \in Session, s \in sessions
  PROVE  CanGo(Program(s)) \/ Waits(Program(s))
<1>1. CASE HasRoom(s)
  BY <1>1 DEF CanGo
<1>2. CASE ~HasRoom(s)
  <2>1. taken[s] < printed[s]
    BY <1>2, ApiAssumption DEF HasRoom, TypeInv, TypeOK
  <2>2. Reader(s) \in Thread /\ Working(Reader(s))
    BY <2>1 DEF Thread, Working, Holders
  <2>3. WaitsFor(Program(s), Reader(s))
    BY DEF WaitsFor
  <2>4. Rank(Reader(s)) < Rank(Program(s))
    BY DEF Rank, Reader, Program
  <2> QED
    BY <2>2, <2>3, <2>4 DEF Waits
<1> QED
  BY <1>1, <1>2

\* A request waits for a thread nearer to the clients.
LEMMA HandlerWaits ==
  ASSUME FeedInv, Holders, NEW c \in Client, Working(Conn(c))
  PROVE  CanGo(Conn(c)) \/ Hangs(Conn(c)) \/ Waits(Conn(c))
<1> USE DEF FeedInv
<1>a. /\ at \in [Client -> {"absent", "adding", "reading", "looking_up",
                        "locking", "feeding", "destroying", "killing", "replying",
                        "writing", "removing", "done"}]
      /\ at[c] \notin {"absent", "reading", "done"}
      /\ managerMu \in Client \cup {Nobody}
      /\ sessionMu \in [Session -> Client \cup {Nobody}]
      /\ loop \in {"receiving", "locking", "sending", "writing"}
      /\ (at[c] \in {"locking", "feeding", "killing"} => arg[c] \in Session)
  BY DEF Working, Reader, Conn, Program, Loop, TypeInv, TypeOK, Coherent
<1>b. \A d \in Client : Rank(Conn(d)) = HandlerRank[at[d]]
  BY DEF Rank, Conn
<1>c. Rank(Loop) = 0
  BY DEF Rank, Loop
<1>d. \A s : Rank(Program(s)) = 2
  BY DEF Rank, Program
<1>1. CASE at[c] \in {"adding", "removing"}
  <2>1. CASE MuHeld
    <3>1. Loop \in Thread /\ Working(Loop)
      BY <2>1 DEF Thread, Working, MuHeld
    <3>2. WaitsFor(Conn(c), Loop)
      BY <1>1 DEF WaitsFor
    <3>3. Rank(Loop) < Rank(Conn(c))
      BY <1>1, <1>b, <1>c DEF HandlerRank
    <3> QED
      BY <3>1, <3>2, <3>3 DEF Waits
  <2>2. CASE ~MuHeld
    BY <1>1, <2>2 DEF CanGo, HandlerCanGo
  <2> QED
    BY <2>1, <2>2
<1>2. CASE at[c] \in {"looking_up", "destroying"}
  <2>1. CASE managerMu = Nobody
    BY <1>2, <2>1 DEF CanGo, HandlerCanGo
  <2>2. CASE managerMu # Nobody
    <3>1. managerMu \in Client /\ at[managerMu] = "killing"
      BY <1>a, <2>2 DEF Holders
    <3>2. Conn(managerMu) \in Thread /\ Working(Conn(managerMu))
      BY <3>1 DEF Thread, Working
    <3>3. WaitsFor(Conn(c), Conn(managerMu))
      BY <1>2 DEF WaitsFor
    <3>4. Rank(Conn(managerMu)) < Rank(Conn(c))
      BY <1>2, <1>b, <3>1 DEF HandlerRank
    <3> QED
      BY <3>2, <3>3, <3>4 DEF Waits
  <2> QED
    BY <2>1, <2>2
<1>3. CASE at[c] \in {"locking", "killing"}
  <2> DEFINE d == sessionMu[arg[c]]
  <2>1. CASE d = Nobody
    BY <1>3, <2>1 DEF CanGo, HandlerCanGo
  <2>2. CASE d # Nobody
    <3>1. d \in Client /\ at[d] = "feeding"
      BY <1>3, <1>a, <2>2 DEF Holders
    <3>2. Conn(d) \in Thread /\ Working(Conn(d))
      BY <3>1 DEF Thread, Working
    <3>3. WaitsFor(Conn(c), Conn(d))
      BY <1>3 DEF WaitsFor
    <3>4. Rank(Conn(d)) < Rank(Conn(c))
      BY <1>3, <1>b, <3>1 DEF HandlerRank
    <3> QED
      BY <3>2, <3>3, <3>4 DEF Waits
  <2> QED
    BY <2>1, <2>2
<1>4. CASE at[c] = "feeding"
  <2>1. CASE input[arg[c]] < InputCap
    BY <1>4, <2>1 DEF CanGo, HandlerCanGo
  <2>2. CASE ~(input[arg[c]] < InputCap)
    <3>1. arg[c] \in Session /\ arg[c] \in sessions
      BY <1>4, <1>a DEF Feeding
    <3>2. input[arg[c]] > 0
      BY <2>2, <3>1, ApiAssumption DEF TypeInv, TypeOK
    <3>3. Program(arg[c]) \in Thread /\ Working(Program(arg[c]))
      BY <3>1, <3>2 DEF Thread, Working
    <3>4. WaitsFor(Conn(c), Program(arg[c]))
      BY <1>4 DEF WaitsFor
    <3>5. Rank(Program(arg[c])) < Rank(Conn(c))
      BY <1>4, <1>b, <1>d DEF HandlerRank
    <3> QED
      BY <3>3, <3>4, <3>5 DEF Waits
  <2> QED
    BY <2>1, <2>2
<1>5. CASE at[c] = "replying"
  BY <1>5 DEF CanGo, HandlerCanGo
<1>6. CASE at[c] = "writing"
  BY <1>6 DEF CanGo, HandlerCanGo, Hangs
<1> QED
  BY <1>a, <1>1, <1>2, <1>3, <1>4, <1>5, <1>6

\* In every reachable state, for any sessions, clients and capacities, whoever
\* has work can go on, hangs in a write to a client that does not read, or
\* waits for a thread of lower rank that has work.
THEOREM NoWaitCycle == Spec => []OnlyClientsBlock
<1>1. Init => FeedInv /\ Holders
  <2>1. Init => Feeding /\ Holders
    BY DEF Init, Feeding, Holders
  <2> QED
    BY <2>1, TypeInit DEF FeedInv
<1>2. FeedInv /\ Holders /\ [Next]_vars => FeedInv' /\ Holders'
  BY FeedStep, TypeStep, HoldersStep DEF FeedInv
<1>3. FeedInv /\ Holders => OnlyClientsBlock
  <2> SUFFICES ASSUME FeedInv, Holders, NEW t \in Thread, Working(t)
               PROVE  CanGo(t) \/ Hangs(t) \/ Waits(t)
    BY DEF OnlyClientsBlock, Waits
  <2>1. ASSUME NEW c \in Client, t = Conn(c) PROVE CanGo(t) \/ Hangs(t) \/ Waits(t)
    BY <2>1, HandlerWaits
  <2>2. ASSUME NEW s \in Session, t = Reader(s) PROVE CanGo(t) \/ Waits(t)
    BY <2>2, ReaderWaitsForLoop DEF FeedInv
  <2>3. ASSUME NEW s \in Session, t = Program(s) PROVE CanGo(t) \/ Waits(t)
    <3>1. s \in sessions
      BY <2>3 DEF Working, Reader, Conn, Program, Loop
    <3> QED
      BY <2>3, <3>1, ProgramWaitsForReader DEF FeedInv
  <2>4. CASE t = Loop
    BY <2>4, LoopWaitsForClients
  <2> QED
    BY <2>1, <2>2, <2>3, <2>4 DEF Thread
<1> QED
  BY <1>1, <1>2, <1>3, PTL DEF Spec

-----------------------------------------------------------------------------
(* Counting the queue                                                       *)

\* The places behind the i-th are finitely many.
LEMMA AfterFinite ==
  ASSUME NEW T, NEW q \in Seq(T), NEW i, NEW s
  PROVE  /\ IsFiniteSet(After(q, i, s))
         /\ Cardinality(After(q, i, s)) \in Nat
<1>1. IsFiniteSet(1 .. Len(q))
  BY FS_Interval
<1>2. After(q, i, s) \subseteq 1 .. Len(q)
  BY DEF After
<1> QED
  BY <1>1, <1>2, FS_Subset, FS_CardinalityType

\* An element appended counts, for its own session, behind all the others.
LEMMA AfterAppend ==
  ASSUME NEW T, NEW q \in Seq(T), NEW m \in T, NEW s, NEW i \in 0 .. Len(q)
  PROVE  Cardinality(After(Append(q, m), i, s))
           = Cardinality(After(q, i, s)) + (IF m[1] = s THEN 1 ELSE 0)
<1>1. /\ DOMAIN Append(q, m) = 1 .. Len(q) + 1
      /\ \A j \in 1 .. Len(q) : Append(q, m)[j] = q[j]
      /\ Append(q, m)[Len(q) + 1] = m
      /\ DOMAIN q = 1 .. Len(q)
  OBVIOUS
<1>2. Len(q) + 1 \notin After(q, i, s)
  BY <1>1 DEF After
<1>3. CASE m[1] = s
  <2>1. After(Append(q, m), i, s) = After(q, i, s) \cup {Len(q) + 1}
    BY <1>1, <1>3 DEF After
  <2> QED
    BY <1>2, <1>3, <2>1, AfterFinite, FS_AddElement
<1>4. CASE m[1] # s
  <2>1. After(Append(q, m), i, s) = After(q, i, s)
    BY <1>1, <1>4 DEF After
  <2> QED
    BY <1>4, <2>1, AfterFinite
<1> QED
  BY <1>3, <1>4

\* Nothing is behind it.
LEMMA AfterLast ==
  ASSUME NEW T, NEW q \in Seq(T), NEW m \in T, NEW s
  PROVE  Cardinality(After(Append(q, m), Len(q) + 1, s)) = 0
<1>1. After(Append(q, m), Len(q) + 1, s) = {}
  BY DEF After
<1> QED
  BY <1>1, FS_EmptySet

\* Without its head, every place of a queue moves up by one.
LEMMA AfterTail ==
  ASSUME NEW T, NEW q \in Seq(T), q # <<>>, NEW s, NEW i \in 0 .. Len(q) - 1
  PROVE  Cardinality(After(Tail(q), i, s)) = Cardinality(After(q, i + 1, s))
<1> DEFINE f == [j \in After(q, i + 1, s) |-> j - 1]
<1>1. /\ DOMAIN Tail(q) = 1 .. Len(q) - 1
      /\ \A j \in 1 .. Len(q) - 1 : Tail(q)[j] = q[j + 1]
      /\ DOMAIN q = 1 .. Len(q)
  OBVIOUS
<1>2. \A j \in After(q, i + 1, s) : j \in Nat /\ f[j] = j - 1 /\ f[j] \in After(Tail(q), i, s)
  BY <1>1 DEF After
<1>3. \A k \in After(Tail(q), i, s) : k \in Nat /\ k + 1 \in After(q, i + 1, s)
  BY <1>1 DEF After
<1>4. f \in Bijection(After(q, i + 1, s), After(Tail(q), i, s))
  <2>1. f \in [After(q, i + 1, s) -> After(Tail(q), i, s)]
    BY <1>2
  <2>2. f \in Injection(After(q, i + 1, s), After(Tail(q), i, s))
    <3>1. \A a, b \in After(q, i + 1, s) : f[a] = f[b] => a = b
      BY <1>2
    <3> QED
      BY <2>1, <3>1 DEF Injection, IsInjective
  <2>3. f \in Surjection(After(q, i + 1, s), After(Tail(q), i, s))
    <3>1. \A k \in After(Tail(q), i, s) : f[k + 1] = k
      BY <1>2, <1>3
    <3> QED
      BY <2>1, <1>3, <3>1 DEF Surjection
  <2> QED
    BY <2>2, <2>3 DEF Bijection
<1>5. ExistsBijection(After(q, i + 1, s), After(Tail(q), i, s))
  BY <1>4 DEF ExistsBijection
<1> QED
  BY <1>5, AfterFinite, FS_Bijection

\* The head counts for its own session.
LEMMA AfterHead ==
  ASSUME NEW T, NEW q \in Seq(T), q # <<>>, NEW s
  PROVE  Cardinality(After(q, 0, s))
           = Cardinality(After(q, 1, s)) + (IF Head(q)[1] = s THEN 1 ELSE 0)
<1>1. 1 \notin After(q, 1, s)
  BY DEF After
<1>2. CASE Head(q)[1] = s
  <2>1. After(q, 0, s) = After(q, 1, s) \cup {1}
    BY <1>2 DEF After
  <2> QED
    BY <1>1, <1>2, <2>1, AfterFinite, FS_AddElement
<1>3. CASE Head(q)[1] # s
  <2>1. After(q, 0, s) = After(q, 1, s)
    BY <1>3 DEF After
  <2> QED
    BY <1>3, <2>1, AfterFinite
<1> QED
  BY <1>2, <1>3

-----------------------------------------------------------------------------
(* Output                                                                   *)

\* What the reader of each session has in hand, and what it and the queue hold.
InHand == [s \in Session |-> IF reader[s] = "sending" THEN 1 ELSE 0]
Held   == [s \in Session |-> Cardinality(After(queue, 0, s)) + InHand[s]]

\* Chunks are numbered in the order they were read: the number of one in the
\* queue, or in the hand of broadcastLoop, and what is behind it make up all
\* that was read.
Numbered ==
  /\ \A i \in 1 .. Len(queue) :
       queue[i][2] + Cardinality(After(queue, i, queue[i][1])) + InHand[queue[i][1]]
         = taken[queue[i][1]]
  /\ loop # "receiving" => message[2] + Held[message[1]] = taken[message[1]]

\* A round goes over clients of the map, none of them twice.
Round ==
  /\ loop \in {"receiving", "locking"} => batch = {}
  /\ loop # "writing" => target = Nobody
  /\ loop = "writing" => target \in clients /\ target \notin batch
  /\ batch \subseteq clients

\* A client that is not in the map yet was sent nothing.
Fresh ==
  /\ \A c \in clients : at[c] \notin {"absent", "adding"}
  /\ \A c \in Client : at[c] \in {"absent", "adding"} => \A s \in Session : got[c][s] = 0

FlowInv == TypeInv /\ Numbered /\ Round /\ Fresh /\ NothingLost

\* The start: nothing was read.
LEMMA FlowInit == Init => FlowInv
<1> SUFFICES ASSUME Init PROVE FlowInv
  OBVIOUS
<1>1. TypeInv
  BY TypeInit
<1>2. Numbered
  BY DEF Init, Numbered
<1>3. Round /\ Fresh /\ NothingLost
  BY DEF Init, Round, Fresh, NothingLost
<1> QED
  BY <1>1, <1>2, <1>3 DEF FlowInv

\* What leaves the feed alone, but for clients that come or go.
FeedVars == <<taken, reader, queue, loop, message, batch, target, got>>

\* Such a step breaks nothing if those who come were sent nothing.
LEMMA FlowElsewhere ==
  ASSUME FlowInv, UNCHANGED FeedVars,
         \A c \in clients' \ clients : \A s \in Session : got[c][s] = 0
  PROVE  Numbered' /\ NothingLost'
<1>1. UNCHANGED <<taken, reader, queue, loop, message, batch, target, got>>
  BY DEF FeedVars
<1>2. Numbered'
  BY <1>1 DEF FlowInv, Numbered, Held, InHand
<1>3. \A c, s : Pending(c, s)' = Pending(c, s)
  BY <1>1 DEF Pending, Behind, Due
<1>4. NothingLost'
  BY <1>1, <1>3 DEF FlowInv, NothingLost
<1> QED
  BY <1>2, <1>4

\* Nothing but clients, places and rounds matters to the other two.
LEMMA RoundElsewhere ==
  ASSUME FlowInv, UNCHANGED <<loop, batch, target, clients, at, got>>
  PROVE  Round' /\ Fresh'
BY DEF FlowInv, Round, Fresh

\* Reader and queue: a chunk goes from the terminal to the hand, to the queue.
LEMMA FlowTerminal ==
  ASSUME FlowInv, TypeInv', NEW s \in Session, Emit(s) \/ Consume(s) \/ ReaderStep(s)
  PROVE  FlowInv'
<1>1. UNCHANGED <<loop, message, batch, target, clients, at, got>>
  BY DEF Emit, Consume, ReaderStep, Read, Enqueue, EndReading, loopVars, handlerVars,
         linkVars
<1>2. Round' /\ Fresh'
  BY <1>1, RoundElsewhere
<1>a. queue \in Seq(Session \X (1 .. MaxOut))
  BY DEF FlowInv, TypeInv, TypeOK
<1>n. \A i, t : Cardinality(After(queue, i, t)) \in Nat
  BY <1>a, AfterFinite
<1>q. \A i \in 1 .. Len(queue) : queue[i][1] \in Session /\ queue[i][2] \in Nat
  BY <1>a
<1>m. loop # "receiving" => message[1] \in Session /\ message[2] \in Nat
  BY DEF FlowInv, TypeInv, Coherent
<1>t. /\ taken \in [Session -> 0 .. MaxOut]
      /\ reader \in [Session -> {"reading", "sending", "ended"}]
      /\ got \in [Client -> [Session -> 0 .. MaxOut]]
      /\ clients \subseteq Client /\ MaxOut \in Nat
  BY ApiAssumption DEF FlowInv, TypeInv, TypeOK
<1>d. \A c, t : Due(c, t)' = Due(c, t)
  BY <1>1 DEF Due
<1>b. NothingLost' <=> \A c \in clients, t \in Session :
        got[c][t] # 0 => got[c][t] + (Held'[t] + (IF Due(c, t) THEN 1 ELSE 0)) = taken'[t]
  <2>1. \A t \in Session : Behind(t)' = Held'[t]
    BY DEF Behind, Held, InHand
  <2>2. \A c, t : Due(c, t)' \in BOOLEAN /\ Due(c, t) \in BOOLEAN
    BY DEF Due
  <2> QED
    BY <1>1, <1>d, <2>1, <2>2 DEF NothingLost, Pending
<1>l. \A c \in clients, t \in Session :
        got[c][t] # 0 => got[c][t] + (Held[t] + (IF Due(c, t) THEN 1 ELSE 0)) = taken[t]
  <2>1. \A t \in Session : Behind(t) = Held[t]
    BY DEF Behind, Held, InHand
  <2>2. NothingLost
    BY DEF FlowInv
  <2> QED
    BY <2>1, <2>2 DEF NothingLost, Pending
<1>h. /\ InHand \in [Session -> {0, 1}] /\ InHand' \in [Session -> {0, 1}]
      /\ Held \in [Session -> Nat]
  BY <1>n DEF InHand, Held
<1>3. CASE Emit(s) \/ Consume(s) \/ EndReading(s)
  <2>1. UNCHANGED <<taken, queue>>
    BY <1>3 DEF Emit, Consume, EndReading
  <2>2. InHand' = InHand
    BY <1>3, <1>t DEF Emit, Consume, EndReading, InHand
  <2>3. Held' = Held
    BY <2>1, <2>2 DEF Held
  <2>4. Numbered'
    BY <1>1, <2>1, <2>2, <2>3 DEF FlowInv, Numbered
  <2>5. NothingLost'
    BY <1>b, <1>l, <2>1, <2>3
  <2> QED
    BY <1>2, <2>4, <2>5 DEF FlowInv
<1>4. CASE Read(s)
  <2>1. /\ UNCHANGED queue /\ InHand'[s] = InHand[s] + 1 /\ taken'[s] = taken[s] + 1
        /\ \A t \in Session \ {s} : InHand'[t] = InHand[t] /\ taken'[t] = taken[t]
    BY <1>4, <1>t DEF Read, InHand
  <2>2. /\ Held'[s] = Held[s] + 1
        /\ \A t \in Session \ {s} : Held'[t] = Held[t]
    BY <1>n, <1>h, <2>1 DEF Held
  <2>3. Numbered'
    <3>1. \A n \in Nat, k \in Nat, t \in Session :
            n + k + InHand[t] = taken[t] => n + k + InHand'[t] = taken'[t]
      BY <1>h, <1>t, <2>1
    <3>2. \A n \in Nat, t \in Session : n + Held[t] = taken[t] => n + Held'[t] = taken'[t]
      BY <1>h, <1>t, <2>2, <2>1
    <3>3. \A i \in 1 .. Len(queue) :
            queue[i][2] + Cardinality(After(queue, i, queue[i][1])) + InHand[queue[i][1]]
              = taken[queue[i][1]]
      BY DEF FlowInv, Numbered
    <3>4. \A i \in 1 .. Len(queue) :
            queue[i][2] + Cardinality(After(queue, i, queue[i][1])) + InHand'[queue[i][1]]
              = taken'[queue[i][1]]
      BY <1>q, <1>n, <3>1, <3>3
    <3>5. loop # "receiving" => message[2] + Held'[message[1]] = taken'[message[1]]
      BY <1>m, <3>2 DEF FlowInv, Numbered
    <3> QED
      BY <1>1, <2>1, <3>4, <3>5 DEF Numbered
  <2>4. NothingLost'
    <3> SUFFICES ASSUME NEW c \in clients, NEW t \in Session, got[c][t] # 0
                 PROVE  got[c][t] + (Held'[t] + (IF Due(c, t) THEN 1 ELSE 0)) = taken'[t]
      BY <1>b
    <3> DEFINE n == IF Due(c, t) THEN 1 ELSE 0
    <3>1. got[c][t] \in Nat /\ Held[t] \in Nat /\ n \in Nat
      BY <1>t, <1>h
    <3>2. got[c][t] + (Held[t] + n) = taken[t]
      BY <1>l
    <3> HIDE DEF n
    <3>3. got[c][t] + (Held'[t] + n) = taken'[t]
      <4>1. CASE t = s
        BY <2>1, <2>2, <3>1, <3>2, <4>1
      <4>2. CASE t # s
        BY <2>1, <2>2, <3>2, <4>2
      <4> QED
        BY <4>1, <4>2
    <3> QED
      BY <3>3 DEF n
  <2> QED
    BY <1>2, <2>3, <2>4 DEF FlowInv
<1>5. CASE Enqueue(s)
  <2> DEFINE m == <<s, taken[s]>>
  <2>1. /\ queue' = Append(queue, m) /\ UNCHANGED taken
        /\ InHand[s] = 1 /\ InHand'[s] = 0
        /\ \A t \in Session \ {s} : InHand'[t] = InHand[t]
    BY <1>5, <1>t DEF Enqueue, InHand
  <2>2. m \in Session \X (1 .. MaxOut) /\ m[1] = s /\ m[2] = taken[s] /\ m[2] \in Nat
    BY <1>5, <1>t DEF Enqueue, FlowInv, TypeInv, Coherent
  <2> HIDE DEF m
  <2>3. \A i \in 0 .. Len(queue), t \in Session :
          Cardinality(After(queue', i, t)) + InHand'[t]
            = Cardinality(After(queue, i, t)) + InHand[t]
    <3> TAKE i \in 0 .. Len(queue), t \in Session
    <3>1. Cardinality(After(queue', i, t))
            = Cardinality(After(queue, i, t)) + (IF m[1] = t THEN 1 ELSE 0)
      BY <1>a, <2>1, <2>2, AfterAppend
    <3> QED
      BY <1>n, <1>h, <2>1, <2>2, <3>1
  <2>4. Held' = Held
    BY <1>a, <2>3 DEF Held
  <2>q. /\ Len(queue') = Len(queue) + 1 /\ Len(queue) \in Nat
        /\ \A i \in 1 .. Len(queue) : queue'[i] = queue[i]
        /\ queue'[Len(queue) + 1] = m
    BY <1>a, <2>1, <2>2
  <2>5. Numbered'
    <3>1. ASSUME NEW i \in 1 .. Len(queue)
          PROVE  queue'[i][2] + Cardinality(After(queue', i, queue'[i][1])) + InHand'[queue'[i][1]]
                   = taken'[queue'[i][1]]
      <4>1. queue'[i] = queue[i] /\ taken' = taken /\ i \in 0 .. Len(queue)
        BY <2>1, <2>q
      <4>2. PICK t \in Session : t = queue[i][1]
        BY <1>q
      <4>3. queue[i][2] + Cardinality(After(queue, i, t)) + InHand[t] = taken[t]
        BY <4>2 DEF FlowInv, Numbered
      <4>4. queue[i][2] \in Nat
        BY <1>q
      <4>5. queue' \in Seq(Session \X (1 .. MaxOut))
        BY <1>a, <2>1, <2>2
      <4>6. /\ Cardinality(After(queue', i, t)) \in Nat
            /\ Cardinality(After(queue, i, t)) \in Nat
        BY <1>n, <4>5, AfterFinite
      <4>7. Cardinality(After(queue', i, t)) + InHand'[t]
              = Cardinality(After(queue, i, t)) + InHand[t]
        BY <2>3, <4>1
      <4>8. InHand[t] \in Nat /\ InHand'[t] \in Nat
        BY <1>h
      <4>9. queue[i][2] + Cardinality(After(queue', i, t)) + InHand'[t] = taken[t]
        <5> DEFINE a == queue[i][2]
                   b == Cardinality(After(queue', i, t))
                   d == Cardinality(After(queue, i, t))
                   h == InHand'[t]
                   k == InHand[t]
        <5>1. a \in Nat /\ b \in Nat /\ d \in Nat /\ h \in Nat /\ k \in Nat
          BY <4>4, <4>6, <4>8
        <5>2. a + d + k = taken[t] /\ b + h = d + k
          BY <4>3, <4>7
        <5> HIDE DEF a, b, d, h, k
        <5>3. a + b + h = taken[t]
          BY <5>1, <5>2
        <5> QED
          BY <5>3 DEF a, b, h
      <4> QED
        BY <4>1, <4>2, <4>9
    <3>2. Cardinality(After(queue', Len(queue) + 1, s)) = 0
      BY <1>a, <2>1, <2>2, AfterLast
    <3>3. ASSUME NEW i \in 1 .. Len(queue'), i = Len(queue) + 1
          PROVE  queue'[i][2] + Cardinality(After(queue', i, queue'[i][1])) + InHand'[queue'[i][1]]
                   = taken'[queue'[i][1]]
      BY <1>t, <2>1, <2>2, <2>q, <3>2, <3>3
    <3>4. loop # "receiving" => message[2] + Held'[message[1]] = taken'[message[1]]
      BY <2>1, <2>4 DEF FlowInv, Numbered
    <3>5. \A i \in 1 .. Len(queue') : i \in 1 .. Len(queue) \/ i = Len(queue) + 1
      BY <2>q
    <3> QED
      BY <1>1, <3>1, <3>3, <3>4, <3>5 DEF Numbered
  <2>6. NothingLost'
    BY <1>b, <1>l, <2>1, <2>4
  <2> QED
    BY <1>2, <2>5, <2>6 DEF FlowInv
<1> QED
  BY <1>3, <1>4, <1>5 DEF ReaderStep

\* NothingLost in terms of Held, for a client and a session.
Whole(c, s) ==
  got[c][s] # 0 => got[c][s] + (Held[s] + (IF Due(c, s) THEN 1 ELSE 0)) = taken[s]

LEMMA NothingLostIsWhole ==
  /\ NothingLost <=> \A c \in clients, s \in Session : Whole(c, s)
  /\ NothingLost' <=> \A c \in clients', s \in Session : Whole(c, s)'
<1>1. \A t \in Session : Behind(t) = Held[t]
  BY DEF Behind, Held, InHand
<1>2. \A t \in Session : Behind(t)' = Held'[t]
  BY DEF Behind, Held, InHand
<1> QED
  BY <1>1, <1>2 DEF NothingLost, Pending, Whole

\* Queue and hand of broadcastLoop: the head of the queue is the next one.
LEMMA FlowReceive ==
  ASSUME FlowInv, TypeInv', Receive PROVE FlowInv'
<1>a. queue \in Seq(Session \X (1 .. MaxOut)) /\ queue # <<>>
  BY DEF FlowInv, TypeInv, TypeOK, Receive
<1>n. \A i, t : Cardinality(After(queue, i, t)) \in Nat
  BY <1>a, AfterFinite
<1>1. /\ message' = queue[1] /\ queue' = Tail(queue) /\ loop' = "locking"
      /\ loop = "receiving" /\ Head(queue) = queue[1]
      /\ UNCHANGED <<taken, reader, batch, target, clients, at, got>>
  BY <1>a DEF Receive, terminalVars, handlerVars, linkVars
<1>2. Round' /\ Fresh'
  BY <1>1 DEF FlowInv, Round, Fresh
<1>3. queue[1][1] \in Session /\ queue[1][2] \in Nat /\ Len(queue) \in Nat /\ Len(queue) >= 1
  BY <1>a
<1>h. InHand \in [Session -> {0, 1}] /\ InHand' = InHand
  BY <1>1 DEF InHand
<1>4. \A t \in Session : Cardinality(After(queue', 0, t)) = Cardinality(After(queue, 1, t))
  <2>1. 0 \in 0 .. Len(queue) - 1
    BY <1>3
  <2> QED
    BY <1>a, <1>1, <2>1, AfterTail
<1>5. \A t \in Session : Held[t] = Held'[t] + (IF queue[1][1] = t THEN 1 ELSE 0)
  <2> TAKE t \in Session
  <2>1. Cardinality(After(queue, 0, t))
          = Cardinality(After(queue, 1, t)) + (IF queue[1][1] = t THEN 1 ELSE 0)
    BY <1>a, <1>1, AfterHead
  <2>2. /\ Held[t] = Cardinality(After(queue, 0, t)) + InHand[t]
        /\ Held'[t] = Cardinality(After(queue, 1, t)) + InHand[t]
    BY <1>4, <1>h DEF Held
  <2>3. Cardinality(After(queue, 1, t)) \in Nat /\ InHand[t] \in Nat
    BY <1>n, <1>h
  <2> QED
    BY <2>1, <2>2, <2>3
<1>6. Numbered'
  <2>1. ASSUME NEW i \in 1 .. Len(queue')
        PROVE  queue'[i][2] + Cardinality(After(queue', i, queue'[i][1])) + InHand'[queue'[i][1]]
                 = taken'[queue'[i][1]]
    <3>1. queue'[i] = queue[i + 1] /\ i + 1 \in 1 .. Len(queue) /\ i \in 0 .. Len(queue) - 1
      BY <1>a, <1>1
    <3>2. Cardinality(After(queue', i, queue[i + 1][1]))
            = Cardinality(After(queue, i + 1, queue[i + 1][1]))
      BY <1>a, <1>1, <3>1, AfterTail
    <3>3. queue[i + 1][2] + Cardinality(After(queue, i + 1, queue[i + 1][1]))
            + InHand[queue[i + 1][1]] = taken[queue[i + 1][1]]
      BY <3>1 DEF FlowInv, Numbered
    <3> QED
      BY <1>1, <1>h, <3>1, <3>2, <3>3
  <2>2. message'[2] + Held'[message'[1]] = taken'[message'[1]]
    <3>1. PICK t \in Session : t = queue[1][1]
      BY <1>3
    <3>2. queue[1][2] + Cardinality(After(queue, 1, t)) + InHand[t] = taken[t]
      BY <1>3, <3>1 DEF FlowInv, Numbered
    <3>3. Held'[t] = Cardinality(After(queue, 1, t)) + InHand[t]
      BY <1>4, <1>h DEF Held
    <3>4. Cardinality(After(queue, 1, t)) \in Nat /\ InHand[t] \in Nat
      BY <1>n, <1>h
    <3>5. queue[1][2] + Held'[t] = taken[t]
      BY <1>3, <3>2, <3>3, <3>4
    <3> QED
      BY <1>1, <3>1, <3>5
  <2> QED
    BY <2>1, <2>2 DEF Numbered
<1>7. NothingLost'
  <2> SUFFICES ASSUME NEW c \in clients, NEW t \in Session PROVE Whole(c, t)'
    BY <1>1, NothingLostIsWhole
  <2>1. Whole(c, t)
    BY NothingLostIsWhole DEF FlowInv
  <2>2. ~Due(c, t)
    <3>1. c \in Client /\ c # Nobody
      BY ApiAssumption DEF FlowInv, TypeInv, TypeOK
    <3>2. batch = {} /\ target = Nobody
      BY <1>1 DEF FlowInv, Round
    <3> QED
      BY <1>1, <3>1, <3>2 DEF Due
  <2>3. Due(c, t)' <=> queue[1][1] = t
    BY <1>1 DEF Due
  <2>4. Held[t] = Held'[t] + (IF queue[1][1] = t THEN 1 ELSE 0)
    BY <1>5
  <2>5. Held'[t] \in Nat
    <3>1. Held'[t] = Cardinality(After(queue, 1, t)) + InHand[t]
      BY <1>4, <1>h DEF Held
    <3> QED
      BY <1>n, <1>h, <3>1
  <2> QED
    BY <1>1, <2>1, <2>2, <2>3, <2>4, <2>5 DEF Whole
<1> QED
  BY <1>2, <1>6, <1>7 DEF FlowInv

\* The other steps of broadcastLoop.
LEMMA FlowLoop ==
  ASSUME FlowInv, TypeInv', LoopStep PROVE FlowInv'
<1> USE ApiAssumption
<1>t. /\ got \in [Client -> [Session -> 0 .. MaxOut]] /\ MaxOut \in Nat
      /\ clients \subseteq Client /\ Nobody \notin Client
      /\ loop \in {"receiving", "locking", "sending", "writing"}
  BY DEF FlowInv, TypeInv, TypeOK
<1>1. CASE Receive
  BY <1>1, FlowReceive
<1>w. NothingLost <=> \A c \in clients, s \in Session : Whole(c, s)
  BY NothingLostIsWhole
<1>v. NothingLost' <=> \A c \in clients', s \in Session : Whole(c, s)'
  BY NothingLostIsWhole
<1>2. ASSUME UNCHANGED <<taken, reader, queue, message>>, loop # "receiving"
      PROVE  Held' = Held /\ Numbered'
  BY <1>2 DEF FlowInv, Numbered, Held, InHand
<1>3. CASE LockClients
  <2>1. /\ UNCHANGED <<taken, reader, queue, message, target, clients, at, got>>
        /\ loop = "locking" /\ loop' = "sending" /\ batch' = clients
    BY <1>3 DEF LockClients, terminalVars, handlerVars, linkVars
  <2>2. Round' /\ Fresh'
    BY <2>1 DEF FlowInv, Round, Fresh
  <2>3. \A c \in clients, s \in Session : Due(c, s)' <=> Due(c, s)
    BY <2>1 DEF Due
  <2>4. NothingLost'
    BY <1>2, <1>w, <1>v, <2>1, <2>3 DEF FlowInv, Whole
  <2> QED
    BY <1>2, <2>1, <2>2, <2>4 DEF FlowInv
<1>4. ASSUME NEW c \in Client, BeginSend(c) PROVE FlowInv'
  <2>1. /\ UNCHANGED <<taken, reader, queue, message, clients, at, got>>
        /\ loop = "sending" /\ loop' = "writing" /\ c \in batch
        /\ batch' = batch \ {c} /\ target' = c
    BY <1>4 DEF BeginSend, terminalVars, handlerVars, linkVars
  <2>2. Round' /\ Fresh'
    BY <2>1 DEF FlowInv, Round, Fresh
  <2>3. \A d \in clients, s \in Session : Due(d, s)' <=> Due(d, s)
    BY <2>1, <1>t DEF Due, FlowInv, Round
  <2>4. NothingLost'
    BY <1>2, <1>w, <1>v, <2>1, <2>3 DEF FlowInv, Whole
  <2> QED
    BY <1>2, <2>1, <2>2, <2>4 DEF FlowInv
<1>5. CASE SendOk
  <2>1. /\ UNCHANGED <<taken, reader, queue, message, batch, clients, at>>
        /\ loop = "writing" /\ loop' = "sending" /\ target' = Nobody
        /\ got' = [got EXCEPT ![target][message[1]] = message[2]]
    BY <1>5 DEF SendOk, terminalVars, handlerVars
  <2>2. /\ target \in clients /\ target \notin batch
        /\ message[1] \in Session /\ message[2] \in Nat
    BY <2>1 DEF FlowInv, Round, TypeInv, Coherent
  <2>3. Round'
    BY <2>1 DEF FlowInv, Round
  <2>4. Fresh'
    BY <2>1, <2>2, <1>t DEF FlowInv, Fresh
  <2>5. NothingLost'
    <3> SUFFICES ASSUME NEW c \in clients, NEW s \in Session PROVE Whole(c, s)'
      BY <1>v, <2>1
    <3>1. Whole(c, s)
      BY <1>w DEF FlowInv
    <3>2. CASE c = target /\ s = message[1]
      <4>1. got'[c][s] = message[2]
        BY <1>t, <2>1, <2>2, <3>2
      <4>2. ~(Due(c, s)')
        BY <1>t, <2>1, <2>2, <3>2 DEF Due
      <4>3. message[2] + Held[message[1]] = taken[message[1]]
        BY <2>1 DEF FlowInv, Numbered
      <4>4. Held[s] \in Nat
        <5>1. Cardinality(After(queue, 0, s)) \in Nat
          BY AfterFinite DEF FlowInv, TypeInv, TypeOK
        <5> QED
          BY <5>1 DEF Held, InHand
      <4> QED
        BY <1>2, <2>1, <2>2, <3>2, <4>1, <4>2, <4>3, <4>4 DEF Whole
    <3>3. CASE c # target \/ s # message[1]
      <4>1. got'[c][s] = got[c][s]
        BY <1>t, <2>1, <2>2, <3>3
      <4>2. Due(c, s)' <=> Due(c, s)
        BY <1>t, <2>1, <2>2, <3>3 DEF Due
      <4> QED
        BY <1>2, <2>1, <3>1, <4>1, <4>2 DEF Whole
    <3> QED
      BY <3>2, <3>3
  <2> QED
    BY <1>2, <2>1, <2>3, <2>4, <2>5 DEF FlowInv
<1>6. CASE SendFails
  <2>1. /\ UNCHANGED <<taken, reader, queue, message, batch, at, got>>
        /\ loop = "writing" /\ loop' = "sending" /\ target' = Nobody
        /\ clients' = clients \ {target}
    BY <1>6 DEF SendFails, terminalVars, handlerVars
  <2>2. Round' /\ Fresh'
    BY <2>1 DEF FlowInv, Round, Fresh
  <2>3. \A d \in clients', s \in Session : Due(d, s)' <=> Due(d, s)
    BY <2>1, <1>t DEF Due
  <2>4. NothingLost'
    BY <1>2, <1>w, <1>v, <2>1, <2>3 DEF FlowInv, Whole
  <2> QED
    BY <1>2, <2>1, <2>2, <2>4 DEF FlowInv
<1>7. CASE UnlockClients
  <2>1. /\ UNCHANGED <<taken, reader, queue, batch, target, clients, at, got>>
        /\ loop = "sending" /\ loop' = "receiving" /\ batch = {}
    BY <1>7 DEF UnlockClients, terminalVars, handlerVars, linkVars
  <2>2. Round' /\ Fresh'
    BY <2>1 DEF FlowInv, Round, Fresh
  <2>3. target = Nobody
    BY <2>1 DEF FlowInv, Round
  <2>4. \A d \in clients, s \in Session : ~Due(d, s) /\ ~(Due(d, s)')
    BY <1>t, <2>1, <2>3 DEF Due
  <2>5. Held' = Held /\ Numbered'
    BY <2>1 DEF FlowInv, Numbered, Held, InHand
  <2>6. NothingLost'
    BY <1>w, <1>v, <2>1, <2>4, <2>5 DEF FlowInv, Whole
  <2> QED
    BY <2>2, <2>5, <2>6 DEF FlowInv
<1>8. ASSUME NEW c \in Client, SendPanics(c) PROVE FlowInv'
  <2>1. UNCHANGED <<taken, reader, queue, loop, message, batch, target, clients, at, got>>
    BY <1>8 DEF SendPanics, terminalVars, loopVars, handlerVars, linkVars
  <2>2. Round' /\ Fresh'
    BY <2>1, RoundElsewhere
  <2>3. Numbered' /\ NothingLost'
    BY <2>1, FlowElsewhere DEF FeedVars
  <2> QED
    BY <2>2, <2>3 DEF FlowInv
<1> QED
  BY <1>1, <1>3, <1>4, <1>5, <1>6, <1>7, <1>8 DEF LoopStep

\* Connections come and go between rounds.
LEMMA FlowConnection ==
  ASSUME FlowInv, TypeInv', NEW c \in Client, HandlerStep(c) \/ Peer(c) PROVE FlowInv'
<1>t. at \in [Client -> {"absent", "adding", "reading", "looking_up", "locking",
                        "feeding", "destroying", "killing", "replying", "writing",
                        "removing", "done"}]
      /\ clients \subseteq Client
      /\ loop \in {"receiving", "locking", "sending", "writing"}
  BY DEF FlowInv, TypeInv, TypeOK
<1>1. UNCHANGED FeedVars
  BY DEF HandlerStep, Add, LookUp, LockSession, Feed, LockManager, Kill, BeginReply,
         NoReply, ReplyPanics, EndReply, ReadFails, Remove, Peer, Connect, Leave,
         Stall, Request, FeedVars, terminalVars, loopVars, linkVars
<1>2. CASE Add(c)
  <2>1. Round' /\ Fresh'
    BY <1>1, <1>2, <1>t DEF FeedVars, Add, Move, FlowInv, Round, Fresh
  <2>2. \A d \in clients' \ clients : \A s \in Session : got[d][s] = 0
    BY <1>2 DEF Add, Move, FlowInv, Fresh
  <2> QED
    BY <1>1, <2>1, <2>2, FlowElsewhere DEF FlowInv
<1>3. CASE Remove(c)
  <2>1. batch = {} /\ target = Nobody /\ clients' = clients \ {c} /\ loop # "writing"
    BY <1>3, <1>t DEF Remove, MuHeld, FlowInv, Round
  <2>2. Round' /\ Fresh'
    BY <1>1, <1>3, <1>t, <2>1 DEF FeedVars, Remove, Move, FlowInv, Round, Fresh
  <2> QED
    BY <1>1, <2>1, <2>2, FlowElsewhere DEF FlowInv
<1>4. CASE Connect(c)
  <2>1. UNCHANGED clients /\ at[c] = "absent" /\ at' = [at EXCEPT ![c] = "adding"]
    BY <1>4 DEF Connect, Move
  <2>2. Round' /\ Fresh'
    BY <1>1, <1>t, <2>1 DEF FeedVars, FlowInv, Round, Fresh
  <2> QED
    BY <1>1, <2>1, <2>2, FlowElsewhere DEF FlowInv
<1>5. ASSUME UNCHANGED clients, UNCHANGED at
      PROVE  FlowInv'
  <2>1. Round' /\ Fresh'
    BY <1>1, <1>5, RoundElsewhere DEF FeedVars
  <2> QED
    BY <1>1, <1>5, <2>1, FlowElsewhere DEF FlowInv
<1>6. ASSUME UNCHANGED clients, NEW from, NEW to,
             from \notin {"absent", "adding"}, to \notin {"absent", "adding"},
             Move(c, from, to)
      PROVE  FlowInv'
  <2>1. Round' /\ Fresh'
    BY <1>1, <1>t, <1>6 DEF FeedVars, Move, FlowInv, Round, Fresh
  <2> QED
    BY <1>1, <1>6, <2>1, FlowElsewhere DEF FlowInv
<1>7. CASE Leave(c) \/ Stall(c)
  BY <1>5, <1>7 DEF Leave, Stall, handlerVars
<1>8. ASSUME NEW s \in Session, NEW what \in {"looking_up", "destroying", "replying"},
             Request(c, s, what)
      PROVE  FlowInv'
  BY <1>6, <1>8 DEF Request
<1>9. CASE LookUp(c) \/ LockSession(c) \/ Feed(c) \/ LockManager(c) \/ Kill(c)
  BY <1>6, <1>9 DEF LookUp, LockSession, Feed, LockManager, Kill, Answered
<1>10. CASE BeginReply(c) \/ NoReply(c) \/ ReplyPanics(c) \/ EndReply(c) \/ ReadFails(c)
  BY <1>6, <1>10 DEF BeginReply, NoReply, ReplyPanics, EndReply, ReadFails
<1> QED
  BY <1>2, <1>3, <1>4, <1>7, <1>8, <1>9, <1>10 DEF HandlerStep, Peer

\* Any step.
LEMMA FlowStep == FlowInv /\ [Next]_vars => FlowInv'
<1> SUFFICES ASSUME FlowInv, [Next]_vars PROVE FlowInv'
  OBVIOUS
<1>1. TypeInv'
  BY TypeStep DEF FlowInv
<1>2. CASE UNCHANGED vars
  <2>1. UNCHANGED <<taken, reader, queue, loop, message, batch, target, clients, at, got>>
    BY <1>2 DEF vars, terminalVars, loopVars, handlerVars, linkVars
  <2>2. Round' /\ Fresh'
    BY <2>1, RoundElsewhere
  <2>3. Numbered' /\ NothingLost'
    BY <2>1, FlowElsewhere DEF FeedVars
  <2> QED
    BY <1>1, <2>2, <2>3 DEF FlowInv
<1> QED
  BY <1>1, <1>2, FlowTerminal, FlowLoop, FlowConnection DEF Next

\* Nothing is lost between a terminal and its clients, whatever the number of
\* sessions and clients and the size of the buffers.
THEOREM NothingIsLost == Spec => []NothingLost
<1>1. FlowInv => NothingLost
  BY DEF FlowInv
<1> QED
  BY <1>1, FlowInit, FlowStep, PTL DEF Spec
=============================================================================
