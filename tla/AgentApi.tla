------------------------------ MODULE AgentApi ------------------------------
(***************************************************************************)
(* The agent's API server (server.go, handlers.go): what a terminal prints *)
(* goes through its reader (manager.go readOutput), the output handler, a  *)
(* bounded queue and broadcastLoop to every client; input and destroy      *)
(* requests of the clients take the locks of the PTY manager.              *)
(*                                                                         *)
(* Sessions have a PTY of their own, whose buffers are bounded both ways   *)
(* (for tmux sessions neither reads nor writes wait for the program), and  *)
(* run until they are destroyed.  Output is counted in chunks, one per     *)
(* Read of the reader.  Requests that take no lock for long (create, list, *)
(* fs, git, ...) are answered at once.                                     *)
(***************************************************************************)
EXTENDS Naturals, Sequences, FiniteSets

CONSTANTS
  Session,
  Client,    \* WebSocket connections, one ServeHTTP goroutine each
  QueueCap,  \* capacity of Handler.broadcast (256)
  PtyCap,    \* chunks of output a PTY holds
  InputCap,  \* lines of input a PTY holds
  MaxOut,    \* bound: chunks each session prints
  MayStall,  \* clients that may stop reading for good
  Nobody     \* no client, no session

ASSUME ApiAssumption ==
  /\ QueueCap \in Nat \ {0} /\ PtyCap \in Nat \ {0} /\ InputCap \in Nat \ {0}
  /\ MaxOut \in Nat
  /\ MayStall \subseteq Client
  /\ Nobody \notin Client \cup Session

VARIABLES
  printed,   \* chunks each program has printed
  taken,     \* chunks each reader has read from the PTY
  reader,    \* what each readOutput goroutine does
  input,     \* lines the program has not read
  sessions,  \* Manager.sessions
  managerMu, \* holder of Manager.mu
  sessionMu, \* holder of each Session.mu
  queue,     \* Handler.broadcast: pairs of session and chunk number
  loop,      \* what broadcastLoop does
  message,   \* the pair it has in hand
  batch,     \* clients it has not written it to
  target,    \* the client it is writing to
  clients,   \* Handler.clients
  at,        \* where each ServeHTTP goroutine is
  arg,       \* the session its request is about
  got,       \* last chunk of each session each client was sent
  stalled,   \* clients that no longer read
  gone,      \* clients that have left
  closed,    \* connections the agent has closed
  crashed    \* a panic in broadcastLoop has ended the agent

terminalVars == <<printed, taken, reader, input>>
managerVars  == <<sessions, managerMu, sessionMu>>
loopVars     == <<loop, message, batch, target>>
handlerVars  == <<at, arg>>
linkVars     == <<got, stalled, gone, closed>>
vars == <<terminalVars, managerVars, queue, loopVars, clients, handlerVars,
          linkVars, crashed>>

None == <<Nobody, 0>>

TypeOK ==
  /\ printed \in [Session -> 0 .. MaxOut] /\ taken \in [Session -> 0 .. MaxOut]
  /\ reader \in [Session -> {"reading", "sending", "ended"}]
  /\ input \in [Session -> 0 .. InputCap]
  /\ sessions \subseteq Session
  /\ managerMu \in Client \cup {Nobody}
  /\ sessionMu \in [Session -> Client \cup {Nobody}]
  /\ queue \in Seq(Session \X (1 .. MaxOut)) /\ Len(queue) <= QueueCap
  /\ loop \in {"receiving", "locking", "sending", "writing"}
  /\ message \in (Session \X (1 .. MaxOut)) \cup {None}
  /\ batch \subseteq Client /\ clients \subseteq Client
  /\ target \in Client \cup {Nobody}
  /\ at \in [Client -> {"absent", "adding", "reading", "looking_up", "locking",
                        "feeding", "destroying", "killing", "replying", "writing",
                        "removing", "done"}]
  /\ arg \in [Client -> Session \cup {Nobody}]
  /\ got \in [Client -> [Session -> 0 .. MaxOut]]
  /\ stalled \subseteq MayStall /\ gone \subseteq Client /\ closed \subseteq Client
  /\ crashed \in BOOLEAN

Init ==
  /\ printed = [s \in Session |-> 0] /\ taken = [s \in Session |-> 0]
  /\ reader = [s \in Session |-> "reading"]
  /\ input = [s \in Session |-> 0]
  /\ sessions = Session
  /\ managerMu = Nobody /\ sessionMu = [s \in Session |-> Nobody]
  /\ queue = <<>>
  /\ loop = "receiving" /\ message = None /\ batch = {} /\ target = Nobody
  /\ clients = {}
  /\ at = [c \in Client |-> "absent"] /\ arg = [c \in Client |-> Nobody]
  /\ got = [c \in Client |-> [s \in Session |-> 0]]
  /\ stalled = {} /\ gone = {} /\ closed = {}
  /\ crashed = FALSE

-----------------------------------------------------------------------------
(* The program in the terminal and its reader *)

\* It prints when its PTY has room; a program that cannot print does nothing.
HasRoom(s) == printed[s] - taken[s] < PtyCap

Emit(s) ==
  /\ s \in sessions
  /\ HasRoom(s) /\ printed[s] < MaxOut
  /\ printed' = [printed EXCEPT ![s] = @ + 1]
  /\ UNCHANGED <<taken, reader, input, managerVars, queue, loopVars, clients,
                 handlerVars, linkVars, crashed>>

\* It reads its input when it is not stuck with output.
Consume(s) ==
  /\ s \in sessions
  /\ HasRoom(s) /\ input[s] > 0
  /\ input' = [input EXCEPT ![s] = @ - 1]
  /\ UNCHANGED <<printed, taken, reader, managerVars, queue, loopVars, clients,
                 handlerVars, linkVars, crashed>>

Read(s) ==
  /\ reader[s] = "reading"
  /\ taken[s] < printed[s]
  /\ taken' = [taken EXCEPT ![s] = @ + 1]
  /\ reader' = [reader EXCEPT ![s] = "sending"]
  /\ UNCHANGED <<printed, input, managerVars, queue, loopVars, clients,
                 handlerVars, linkVars, crashed>>

\* Mutation: the output handler drops what does not fit.
Enqueue_Drop(s) ==
  /\ reader[s] = "sending"
  /\ queue' = IF Len(queue) < QueueCap THEN Append(queue, <<s, taken[s]>>) ELSE queue
  /\ reader' = [reader EXCEPT ![s] = "reading"]
  /\ UNCHANGED <<printed, taken, input, managerVars, loopVars, clients,
                 handlerVars, linkVars, crashed>>

\* The output handler: a send that waits for room in the queue.
Enqueue(s) ==
  /\ reader[s] = "sending"
  /\ Len(queue) < QueueCap
  /\ queue' = Append(queue, <<s, taken[s]>>)
  /\ reader' = [reader EXCEPT ![s] = "reading"]
  /\ UNCHANGED <<printed, taken, input, managerVars, loopVars, clients,
                 handlerVars, linkVars, crashed>>

\* Destroy kills the process and closes the PTY file: Read fails, at once or
\* when it has drained what was printed.
EndReading(s) ==
  /\ reader[s] = "reading" /\ s \notin sessions
  /\ reader' = [reader EXCEPT ![s] = "ended"]
  /\ UNCHANGED <<printed, taken, input, managerVars, queue, loopVars, clients,
                 handlerVars, linkVars, crashed>>

-----------------------------------------------------------------------------
(* broadcastLoop *)

Receive ==
  /\ loop = "receiving" /\ queue # <<>>
  /\ message' = Head(queue)
  /\ queue' = Tail(queue)
  /\ loop' = "locking"
  /\ UNCHANGED <<terminalVars, managerVars, batch, target, clients,
                 handlerVars, linkVars, crashed>>

\* Handler.mu is held for the whole round; handlers hold it only for a moment.
MuHeld == loop \in {"sending", "writing"}

LockClients ==
  /\ loop = "locking"
  /\ batch' = clients
  /\ loop' = "sending"
  /\ UNCHANGED <<terminalVars, managerVars, queue, message, target, clients,
                 handlerVars, linkVars, crashed>>

BeginSend(c) ==
  /\ loop = "sending" /\ c \in batch
  /\ at[c] # "writing"
  /\ batch' = batch \ {c}
  /\ target' = c
  /\ loop' = "writing"
  /\ UNCHANGED <<terminalVars, managerVars, queue, message, clients,
                 handlerVars, linkVars, crashed>>

\* gorilla panics on a second write to a connection; nothing recovers it here.
SendPanics(c) ==
  /\ loop = "sending" /\ c \in batch
  /\ at[c] = "writing"
  /\ crashed' = TRUE
  /\ UNCHANGED <<terminalVars, managerVars, queue, loopVars, clients,
                 handlerVars, linkVars>>

\* No write has a deadline: it waits for the peer to read, to leave, or for a
\* Close.  The first writes after the peer has left may still succeed.
WriteOk(c) == c \notin stalled \cup closed
WriteFails(c) == c \in gone \cup closed

SendOk ==
  /\ loop = "writing" /\ WriteOk(target)
  /\ got' = [got EXCEPT ![target][message[1]] = message[2]]
  /\ target' = Nobody
  /\ loop' = "sending"
  /\ UNCHANGED <<terminalVars, managerVars, queue, message, batch, clients,
                 handlerVars, stalled, gone, closed, crashed>>

\* Mutation: a failed write ends the round for the clients left.
SendFails_EndRound ==
  /\ loop = "writing" /\ WriteFails(target)
  /\ clients' = clients \ {target}
  /\ closed' = closed \cup {target}
  /\ target' = Nobody
  /\ loop' = "sending"
  /\ batch' = {}
  /\ UNCHANGED <<terminalVars, managerVars, queue, message, handlerVars, got,
                 stalled, gone, crashed>>

\* A client whose write fails is closed and forgotten, the others still served.
SendFails ==
  /\ loop = "writing" /\ WriteFails(target)
  /\ clients' = clients \ {target}
  /\ closed' = closed \cup {target}
  /\ target' = Nobody
  /\ loop' = "sending"
  /\ UNCHANGED <<terminalVars, managerVars, queue, message, batch, handlerVars,
                 got, stalled, gone, crashed>>

UnlockClients ==
  /\ loop = "sending" /\ batch = {}
  /\ message' = None
  /\ loop' = "receiving"
  /\ UNCHANGED <<terminalVars, managerVars, queue, batch, target, clients,
                 handlerVars, linkVars, crashed>>

-----------------------------------------------------------------------------
(* ServeHTTP: one goroutine per connection *)

\* c goes from one place of its goroutine to another.
Move(c, from, to) ==
  /\ at[c] = from
  /\ at' = [at EXCEPT ![c] = to]

\* The upgrade.
Connect(c) ==
  /\ Move(c, "absent", "adding")
  /\ UNCHANGED <<terminalVars, managerVars, queue, loopVars, clients, arg,
                 linkVars, crashed>>

Add(c) ==
  /\ ~MuHeld
  /\ Move(c, "adding", "reading")
  /\ clients' = clients \cup {c}
  /\ UNCHANGED <<terminalVars, managerVars, queue, loopVars, arg, linkVars,
                 crashed>>

\* A request is read, for the PTY manager or answered at once.
Request(c, s, what) ==
  /\ Move(c, "reading", what)
  /\ arg' = [arg EXCEPT ![c] = IF what = "replying" THEN Nobody ELSE s]
  /\ UNCHANGED <<terminalVars, managerVars, queue, loopVars, clients, linkVars,
                 crashed>>

\* The request of c is carried out, for better or worse.
Answered(c, from) ==
  /\ Move(c, from, "replying")
  /\ arg' = [arg EXCEPT ![c] = Nobody]

\* GetSession: what it finds is used after Manager.mu is released.
LookUp(c) ==
  /\ managerMu = Nobody
  /\ IF arg[c] \in sessions
     THEN Move(c, "looking_up", "locking") /\ UNCHANGED arg
     ELSE Answered(c, "looking_up")
  /\ UNCHANGED <<terminalVars, managerVars, queue, loopVars, clients, linkVars,
                 crashed>>

\* Mutation: WriteInput does not look whether the session is closed.
LockSession_Unchecked(c) ==
  /\ at[c] = "locking" /\ sessionMu[arg[c]] = Nobody
  /\ Move(c, "locking", "feeding")
  /\ sessionMu' = [sessionMu EXCEPT ![arg[c]] = c]
  /\ UNCHANGED <<terminalVars, sessions, managerMu, queue, loopVars, clients,
                 arg, linkVars, crashed>>

\* WriteInput takes Session.mu; Session.closed is set where the session leaves
\* the map.
LockSession(c) ==
  /\ at[c] = "locking" /\ sessionMu[arg[c]] = Nobody
  /\ IF arg[c] \in sessions
     THEN /\ Move(c, "locking", "feeding") /\ UNCHANGED arg
          /\ sessionMu' = [sessionMu EXCEPT ![arg[c]] = c]
     ELSE Answered(c, "locking") /\ UNCHANGED sessionMu
  /\ UNCHANGED <<terminalVars, sessions, managerMu, queue, loopVars, clients,
                 linkVars, crashed>>

\* The write to the PTY waits for room, with Session.mu held.
Feed(c) ==
  /\ at[c] = "feeding" /\ input[arg[c]] < InputCap
  /\ input' = [input EXCEPT ![arg[c]] = @ + 1]
  /\ sessionMu' = [sessionMu EXCEPT ![arg[c]] = Nobody]
  /\ Answered(c, "feeding")
  /\ UNCHANGED <<printed, taken, reader, sessions, managerMu, queue, loopVars,
                 clients, linkVars, crashed>>

\* Mutation: the error return of DestroySession leaves Manager.mu locked.
LockManager_Kept(c) ==
  /\ managerMu = Nobody
  /\ managerMu' = c
  /\ IF arg[c] \in sessions
     THEN Move(c, "destroying", "killing") /\ UNCHANGED arg
     ELSE Answered(c, "destroying")
  /\ UNCHANGED <<terminalVars, sessions, sessionMu, queue, loopVars, clients,
                 linkVars, crashed>>

\* DestroySession takes Manager.mu and keeps it until it is done.
LockManager(c) ==
  /\ managerMu = Nobody
  /\ IF arg[c] \in sessions
     THEN Move(c, "destroying", "killing") /\ managerMu' = c /\ UNCHANGED arg
     ELSE Answered(c, "destroying") /\ UNCHANGED managerMu
  /\ UNCHANGED <<terminalVars, sessions, sessionMu, queue, loopVars, clients,
                 linkVars, crashed>>

\* It then waits for Session.mu, kills the process and removes the session.
Kill(c) ==
  /\ at[c] = "killing" /\ sessionMu[arg[c]] = Nobody
  /\ sessions' = sessions \ {arg[c]}
  /\ input' = [input EXCEPT ![arg[c]] = 0]
  /\ managerMu' = Nobody
  /\ Answered(c, "killing")
  /\ UNCHANGED <<printed, taken, reader, sessionMu, queue, loopVars, clients,
                 linkVars, crashed>>

-----------------------------------------------------------------------------
(* Replies, and the end of a connection *)

BeginReply(c) ==
  /\ target # c
  /\ Move(c, "replying", "writing")
  /\ UNCHANGED <<terminalVars, managerVars, queue, loopVars, clients, arg,
                 linkVars, crashed>>

\* A request without an id gets no reply.
NoReply(c) ==
  /\ Move(c, "replying", "reading")
  /\ UNCHANGED <<terminalVars, managerVars, queue, loopVars, clients, arg,
                 linkVars, crashed>>

\* The panic of a second write; here net/http recovers it.
ReplyPanics(c) ==
  /\ target = c
  /\ Move(c, "replying", "removing")
  /\ UNCHANGED <<terminalVars, managerVars, queue, loopVars, clients, arg,
                 linkVars, crashed>>

EndReply(c) ==
  /\ \/ WriteOk(c) /\ Move(c, "writing", "reading")
     \/ WriteFails(c) /\ Move(c, "writing", "removing")
  /\ UNCHANGED <<terminalVars, managerVars, queue, loopVars, clients, arg,
                 linkVars, crashed>>

ReadFails(c) ==
  /\ WriteFails(c)
  /\ Move(c, "reading", "removing")
  /\ UNCHANGED <<terminalVars, managerVars, queue, loopVars, clients, arg,
                 linkVars, crashed>>

\* The deferred calls: out of the map, then Close.
Remove(c) ==
  /\ ~MuHeld
  /\ Move(c, "removing", "done")
  /\ clients' = clients \ {c}
  /\ closed' = closed \cup {c}
  /\ UNCHANGED <<terminalVars, managerVars, queue, loopVars, arg, got, stalled,
                 gone, crashed>>

\* The peer leaves, or stops reading without a word: a read can tell the one,
\* a write both, so that they happen where they can make a difference.
Leave(c) ==
  /\ target = c \/ at[c] \in {"reading", "writing"}
  /\ c \notin gone \cup closed
  /\ gone' = gone \cup {c}
  /\ UNCHANGED <<terminalVars, managerVars, queue, loopVars, clients,
                 handlerVars, got, stalled, closed, crashed>>

Stall(c) ==
  /\ target = c \/ at[c] = "writing"
  /\ c \in MayStall \ (stalled \cup gone \cup closed)
  /\ stalled' = stalled \cup {c}
  /\ UNCHANGED <<terminalVars, managerVars, queue, loopVars, clients,
                 handlerVars, got, gone, closed, crashed>>

-----------------------------------------------------------------------------
ReaderStep(s) == Read(s) \/ Enqueue(s) \/ EndReading(s)

LoopStep ==
  \/ Receive \/ LockClients \/ SendOk \/ SendFails \/ UnlockClients
  \/ \E c \in Client : BeginSend(c) \/ SendPanics(c)

\* What the goroutine of a connection does by itself.
HandlerStep(c) ==
  \/ Add(c) \/ LookUp(c) \/ LockSession(c) \/ Feed(c) \/ LockManager(c) \/ Kill(c)
  \/ BeginReply(c) \/ NoReply(c) \/ ReplyPanics(c) \/ EndReply(c)
  \/ ReadFails(c) \/ Remove(c)

Peer(c) ==
  \/ Connect(c) \/ Leave(c) \/ Stall(c)
  \/ \E s \in Session, what \in {"looking_up", "destroying", "replying"} :
       Request(c, s, what)

Next ==
  /\ ~crashed
  /\ \/ \E s \in Session : Emit(s) \/ Consume(s) \/ ReaderStep(s)
     \/ LoopStep
     \/ \E c \in Client : HandlerStep(c) \/ Peer(c)

Spec == Init /\ [][Next]_vars

\* Mutexes and channels serve those that wait in turn; a program that can go
\* on reads its terminal.
Fairness ==
  /\ \A s \in Session :
       WF_vars(~crashed /\ Consume(s)) /\ SF_vars(~crashed /\ ReaderStep(s))
  /\ WF_vars(~crashed /\ LoopStep)
  /\ \A c \in Client : SF_vars(~crashed /\ HandlerStep(c))

FairSpec == Spec /\ Fairness

-----------------------------------------------------------------------------
(* Properties *)

\* The places behind the i-th of a queue that hold output of session s.
After(q, i, s) == {j \in DOMAIN q : j > i /\ q[j][1] = s}

\* What the reader and the queue hold of session s.
Behind(s) ==
  Cardinality(After(queue, 0, s)) + (IF reader[s] = "sending" THEN 1 ELSE 0)

\* The round has something of session s to send to client c.
Due(c, s) ==
  message[1] = s /\ (loop = "locking" \/ c \in batch \/ c = target)

\* What is on its way to client c of the output of session s.
Pending(c, s) == Behind(s) + (IF Due(c, s) THEN 1 ELSE 0)

\* Nothing is lost on the way: what a client was sent and what is on its way to
\* it are all that was read since its first chunk, whoever else comes, leaves or
\* fails in the middle of a round.  So it is sent no chunk twice, early or late
\* (readOutput, the bounded queue, broadcastLoop).
NothingLost ==
  \A c \in clients, s \in Session :
    got[c][s] # 0 => got[c][s] + Pending(c, s) = taken[s]

\* A session handed out by GetSession may be destroyed before WriteInput uses
\* it: nothing is written to it then.
DestroyedTakesNoInput ==
  [][\A s \in Session : input'[s] > input[s] => s \in sessions /\ s \in sessions']_vars

\* The agent's goroutines and the programs it runs.
Conn(c) == <<"conn", c>>
Reader(s) == <<"reader", s>>
Program(s) == <<"program", s>>
Loop == <<"loop", Nobody>>
Thread == {Conn(c) : c \in Client} \cup {Reader(s) : s \in Session}
            \cup {Program(s) : s \in Session} \cup {Loop}

Working(t) ==
  \/ \E c \in Client : t = Conn(c) /\ at[c] \notin {"absent", "reading", "done"}
  \/ \E s \in Session : t = Reader(s) /\ reader[s] # "ended"
                          /\ (reader[s] = "sending" \/ taken[s] < printed[s])
  \/ \E s \in Session : t = Program(s) /\ s \in sessions /\ input[s] > 0
  \/ t = Loop /\ (loop # "receiving" \/ queue # <<>>)

\* The guards of HandlerStep, ReaderStep, Consume and LoopStep.
Writable(c) == WriteOk(c) \/ WriteFails(c)

HandlerCanGo(c) ==
  \/ at[c] \in {"adding", "removing"} /\ ~MuHeld
  \/ at[c] \in {"looking_up", "destroying"} /\ managerMu = Nobody
  \/ at[c] \in {"locking", "killing"} /\ sessionMu[arg[c]] = Nobody
  \/ at[c] = "feeding" /\ input[arg[c]] < InputCap
  \/ at[c] = "replying"
  \/ at[c] = "writing" /\ Writable(c)

CanGo(t) ==
  \/ \E c \in Client : t = Conn(c) /\ HandlerCanGo(c)
  \/ \E s \in Session : t = Reader(s) /\ (reader[s] = "reading" \/ Len(queue) < QueueCap)
  \/ \E s \in Session : t = Program(s) /\ HasRoom(s)
  \/ t = Loop /\ (loop # "writing" \/ Writable(target))

\* It is in the middle of a write to a client that does not read.
Hangs(t) ==
  \/ \E c \in Client : t = Conn(c) /\ at[c] = "writing" /\ ~Writable(c)
  \/ t = Loop /\ loop = "writing" /\ ~Writable(target)

\* u has what t needs: Handler.mu, Manager.mu, Session.mu, the program's
\* attention, room in its PTY, room in the queue.
WaitsFor(t, u) ==
  \/ \E c \in Client : t = Conn(c) /\
       \/ at[c] \in {"adding", "removing"} /\ u = Loop
       \/ at[c] \in {"looking_up", "destroying"} /\ u = Conn(managerMu)
       \/ at[c] \in {"locking", "killing"} /\ u = Conn(sessionMu[arg[c]])
       \/ at[c] = "feeding" /\ u = Program(arg[c])
  \/ \E s \in Session : t = Program(s) /\ u = Reader(s)
  \/ \E s \in Session : t = Reader(s) /\ u = Loop

HandlerRank ==
  [looking_up |-> 5, destroying |-> 5, locking |-> 4, killing |-> 4, feeding |-> 3,
   adding |-> 1, removing |-> 1, replying |-> 0, writing |-> 0]

Rank(t) ==
  CASE t[1] = "conn" -> HandlerRank[at[t[2]]]
    [] t[1] = "program" -> 2
    [] t[1] = "reader" -> 1
    [] t[1] = "loop" -> 0

\* No deadlock from a request over two mutexes, a program, its terminal, the
\* queue and Handler.mu to a client and back: who has work can go on, or hangs
\* in a write to a client that does not read, or waits for a thread that has
\* work and is nearer to such a write (manager.go DestroySession, WriteInput,
\* readOutput; server.go broadcastLoop).
OnlyClientsBlock ==
  \A t \in Thread : Working(t) =>
    \/ crashed \/ CanGo(t) \/ Hangs(t)
    \/ \E u \in Thread : Working(u) /\ WaitsFor(t, u) /\ Rank(u) < Rank(t)

\* A client does not read what it is sent, or the agent has died.
Disturbed == crashed \/ \E c \in stalled : at[c] # "done"

\* The last thing a program prints, before it waits for an answer, reaches
\* every client that was there when it was read (and what comes before it with
\* it, by NothingLost), as long as every client reads: one that does not stops
\* all terminals.
OutputArrives ==
  \A c \in Client, s \in Session :
    (c \in clients /\ taken[s] < MaxOut /\ printed[s] = MaxOut)
      ~> (got[c][s] = MaxOut \/ c \notin clients \/ s \notin sessions \/ Disturbed)

\* Under the same condition every request ends, although DestroySession waits
\* for WriteInput with Manager.mu held, and WriteInput for the program.
RequestsEnd ==
  \A c \in Client :
    (at[c] \notin {"absent", "reading", "done"})
      ~> (at[c] \in {"reading", "done"} \/ Disturbed)
=============================================================================
