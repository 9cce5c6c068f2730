----------------------------- MODULE RelayClient -----------------------------
(***************************************************************************)
(* The agent's end of the relay connection (connection/relay.go): Connect  *)
(* dials, registers, reads and reconnects; a heartbeat goroutine per       *)
(* connection and the replies of the message handler (main.go) write under *)
(* RelayClient.mu; Close comes from the goroutine of main.                 *)
(*                                                                         *)
(* Connections are numbered in the order they are dialled.  A goroutine    *)
(* that holds mu for longer than a moment is writing, so the mutex needs   *)
(* no variable of its own.                                                 *)
(***************************************************************************)
EXTENDS Naturals

CONSTANTS
  MaxFaults, \* bound: dials that fail and connections that are lost
  MayStall   \* connections the network may stop serving without an error

ASSUME ClientAssumption == MaxFaults \in Nat

N == 1 .. (MaxFaults + 1)

VARIABLES
  runner,     \* where the goroutine of Connect is
  mine,       \* the connection it dialled last, 0 if none
  conn,       \* RelayClient.conn, 0 if nil
  closed,     \* RelayClient.closed
  done,       \* RelayClient.done is closed
  closer,     \* where the call of Close is
  beat,       \* where the heartbeat goroutine of each connection is
  stopped,    \* connections whose stopHeartbeat is closed
  registered, \* connections on which device.register was written
  sock,       \* state of each connection
  faults,
  late,       \* connections taken up after Close was called (history)
  crashed     \* gorilla has panicked over two writes at a time

beatVars == <<beat, stopped>>
netVars  == <<sock, faults>>
vars == <<runner, mine, conn, closed, done, closer, beatVars, registered, netVars,
          late, crashed>>

TypeOK ==
  /\ runner \in {"checking", "dialing", "dialed", "assigned", "registering", "looping",
                 "reading", "handling", "replying", "leaving", "clearing", "over",
                 "waiting", "returned"}
  /\ mine \in 0 .. (MaxFaults + 1) /\ conn \in 0 .. (MaxFaults + 1)
  /\ closed \in BOOLEAN /\ done \in BOOLEAN /\ crashed \in BOOLEAN
  /\ closer \in {"idle", "writing", "signalling", "finished"}
  /\ beat \in [N -> {"none", "waiting", "locking", "writing", "ended"}]
  /\ \A n \in N : beat[n] # "none" <=> n \in registered
  /\ registered \subseteq N /\ stopped \subseteq registered /\ late \subseteq N
  /\ sock \in [N -> {"none", "up", "stalled", "lost", "shut"}]
  /\ faults \in 0 .. MaxFaults

Init ==
  /\ runner = "checking" /\ mine = 0 /\ conn = 0
  /\ closed = FALSE /\ done = FALSE /\ closer = "idle"
  /\ beat = [n \in N |-> "none"] /\ stopped = {}
  /\ registered = {} /\ late = {}
  /\ sock = [n \in N |-> "none"] /\ faults = 0
  /\ crashed = FALSE

\* mu is free: nobody writes under it.
MuFree ==
  /\ runner # "replying" /\ closer # "writing"
  /\ \A n \in N : beat[n] # "writing"

\* A write takes its time; it returns once the peer has room, or fails.
WriteOk(n) == sock[n] \in {"up", "lost"}
WriteFails(n) == sock[n] \in {"lost", "shut"}
WriteEnds(n) == WriteOk(n) \/ WriteFails(n)

\* The registration is written without mu.
Registering(n) == runner = "registering" /\ mine = n

Go(from, to) == runner = from /\ runner' = to

-----------------------------------------------------------------------------
(* Connect and connectOnce *)

\* Mutation: the loop does not look whether the client is closed.
CheckClosed_Not ==
  /\ MuFree
  /\ Go("checking", "dialing")
  /\ UNCHANGED <<mine, conn, closed, done, closer, beatVars, registered, netVars,
                 late, crashed>>

CheckClosed ==
  /\ MuFree
  /\ Go("checking", IF closed THEN "returned" ELSE "dialing")
  /\ UNCHANGED <<mine, conn, closed, done, closer, beatVars, registered, netVars,
                 late, crashed>>

DialFails ==
  /\ Go("dialing", "over")
  /\ faults < MaxFaults
  /\ faults' = faults + 1
  /\ UNCHANGED <<mine, conn, closed, done, closer, beatVars, registered, sock, late,
                 crashed>>

DialOk ==
  /\ Go("dialing", "dialed")
  /\ mine <= MaxFaults
  /\ mine' = mine + 1
  /\ sock' = [sock EXCEPT ![mine + 1] = "up"]
  /\ UNCHANGED <<conn, closed, done, closer, beatVars, registered, faults, late,
                 crashed>>

\* Nothing looks whether Close was called meanwhile.
Assign ==
  /\ MuFree
  /\ Go("dialed", "assigned")
  /\ conn' = mine
  /\ late' = IF closed THEN late \cup {mine} ELSE late
  /\ UNCHANGED <<mine, closed, done, closer, beatVars, registered, netVars, crashed>>

\* Mutation: the heartbeat starts before the registration is written.
BeginRegister_Beating ==
  /\ Go("assigned", "registering")
  /\ beat' = [beat EXCEPT ![mine] = "waiting"]
  /\ crashed' = (closer = "writing" /\ conn = mine)
  /\ UNCHANGED <<mine, conn, closed, done, closer, stopped, registered, netVars, late>>

BeginRegister ==
  /\ Go("assigned", "registering")
  /\ crashed' = (closer = "writing" /\ conn = mine)
  /\ UNCHANGED <<mine, conn, closed, done, closer, beatVars, registered, netVars, late>>

\* onConnect, then the heartbeat goroutine starts.
Registered ==
  /\ Go("registering", "looping")
  /\ WriteOk(mine)
  /\ registered' = registered \cup {mine}
  /\ beat' = [beat EXCEPT ![mine] = "waiting"]
  /\ UNCHANGED <<mine, conn, closed, done, closer, stopped, netVars, late, crashed>>

\* The connection is closed; c.conn still points to it.
RegisterFails ==
  /\ Go("registering", "over")
  /\ WriteFails(mine)
  /\ sock' = [sock EXCEPT ![mine] = "shut"]
  /\ UNCHANGED <<mine, conn, closed, done, closer, beatVars, registered, faults, late,
                 crashed>>

\* Mutation: readLoop does not look whether the client is closed.
Loop_Unchecked ==
  /\ MuFree
  /\ Go("looping", "reading")
  /\ UNCHANGED <<mine, conn, closed, done, closer, beatVars, registered, netVars,
                 late, crashed>>

\* readLoop looks at closed, then at c.conn: a Close in between ends it as well.
Loop ==
  /\ MuFree
  /\ Go("looping", IF closed \/ conn = 0 THEN "leaving" ELSE "reading")
  /\ UNCHANGED <<mine, conn, closed, done, closer, beatVars, registered, netVars,
                 late, crashed>>

\* Mutation: a message that is not an object ends the loop.
Ignore_Leave ==
  /\ Go("reading", "leaving")
  /\ sock[mine] = "up"
  /\ UNCHANGED <<mine, conn, closed, done, closer, beatVars, registered, netVars,
                 late, crashed>>

\* A message that is no JSON object, or that asks for nothing.
Ignore ==
  /\ Go("reading", "looping")
  /\ sock[mine] = "up"
  /\ UNCHANGED <<mine, conn, closed, done, closer, beatVars, registered, netVars,
                 late, crashed>>

Receive ==
  /\ Go("reading", "handling")
  /\ sock[mine] = "up"
  /\ UNCHANGED <<mine, conn, closed, done, closer, beatVars, registered, netVars,
                 late, crashed>>

\* Reads have no deadline: they end when the connection does.
ReadFails ==
  /\ Go("reading", "leaving")
  /\ sock[mine] \in {"lost", "shut"}
  /\ UNCHANGED <<mine, conn, closed, done, closer, beatVars, registered, netVars,
                 late, crashed>>

\* The handler's answer goes out under mu (SendJSONRPC), unless Close was faster.
BeginReply ==
  /\ MuFree
  /\ Go("handling", IF conn = 0 THEN "looping" ELSE "replying")
  /\ UNCHANGED <<mine, conn, closed, done, closer, beatVars, registered, netVars,
                 late, crashed>>

EndReply ==
  /\ Go("replying", "looping")
  /\ WriteEnds(conn)
  /\ UNCHANGED <<mine, conn, closed, done, closer, beatVars, registered, netVars,
                 late, crashed>>

\* Mutation: the heartbeat of the old connection is not stopped.
StopHeartbeat_Not ==
  /\ Go("leaving", "clearing")
  /\ UNCHANGED <<mine, conn, closed, done, closer, beatVars, registered, netVars,
                 late, crashed>>

StopHeartbeat ==
  /\ Go("leaving", "clearing")
  /\ stopped' = stopped \cup {mine}
  /\ UNCHANGED <<mine, conn, closed, done, closer, beat, registered, netVars, late,
                 crashed>>

\* The connection itself is not closed here.
Clear ==
  /\ MuFree
  /\ Go("clearing", "over")
  /\ conn' = 0
  /\ UNCHANGED <<mine, closed, done, closer, beatVars, registered, netVars, late,
                 crashed>>

\* Mutation: an attempt that fails is the last one.
Retry_Not ==
  /\ MuFree
  /\ Go("over", "returned")
  /\ UNCHANGED <<mine, conn, closed, done, closer, beatVars, registered, netVars,
                 late, crashed>>

Retry ==
  /\ MuFree
  /\ Go("over", IF closed THEN "returned" ELSE "waiting")
  /\ UNCHANGED <<mine, conn, closed, done, closer, beatVars, registered, netVars,
                 late, crashed>>

\* Five seconds: goroutines that have something to do have done it by then.
Settled == \A n \in stopped : beat[n] = "ended"

Wait ==
  /\ \/ Settled /\ Go("waiting", "checking")
     \/ done /\ Go("waiting", "returned")
  /\ UNCHANGED <<mine, conn, closed, done, closer, beatVars, registered, netVars,
                 late, crashed>>

-----------------------------------------------------------------------------
(* heartbeat: one goroutine per connection *)

Beat(n, from, to) == beat[n] = from /\ beat' = [beat EXCEPT ![n] = to]

Tick(n) ==
  /\ Beat(n, "waiting", "locking")
  /\ UNCHANGED <<runner, mine, conn, closed, done, closer, stopped, registered,
                 netVars, late, crashed>>

\* It writes to whatever connection it finds.
BeginBeat(n) ==
  /\ MuFree
  /\ Beat(n, "locking", IF conn = 0 THEN "waiting" ELSE "writing")
  /\ crashed' = (conn # 0 /\ Registering(conn))
  /\ UNCHANGED <<runner, mine, conn, closed, done, closer, stopped, registered,
                 netVars, late>>

\* A heartbeat that fails is only logged.
EndBeat(n) ==
  /\ Beat(n, "writing", "waiting")
  /\ WriteEnds(conn)
  /\ UNCHANGED <<runner, mine, conn, closed, done, closer, stopped, registered,
                 netVars, late, crashed>>

EndHeartbeat(n) ==
  /\ n \in stopped \/ done
  /\ Beat(n, "waiting", "ended")
  /\ UNCHANGED <<runner, mine, conn, closed, done, closer, stopped, registered,
                 netVars, late, crashed>>

-----------------------------------------------------------------------------
(* Close *)

BeginClose ==
  /\ MuFree
  /\ closer = "idle"
  /\ closed' = TRUE
  /\ closer' = IF conn = 0 THEN "signalling" ELSE "writing"
  /\ crashed' = (conn # 0 /\ Registering(conn))
  /\ UNCHANGED <<runner, mine, conn, done, beatVars, registered, netVars, late>>

\* Mutation: the connection is forgotten, not closed.
EndClose_Forget ==
  /\ closer = "writing" /\ WriteEnds(conn)
  /\ conn' = 0
  /\ closer' = "signalling"
  /\ UNCHANGED <<runner, mine, closed, done, beatVars, registered, netVars, late,
                 crashed>>

\* The close frame is written; the connection is closed whether it was or not.
EndClose ==
  /\ closer = "writing" /\ WriteEnds(conn)
  /\ sock' = [sock EXCEPT ![conn] = "shut"]
  /\ conn' = 0
  /\ closer' = "signalling"
  /\ UNCHANGED <<runner, mine, closed, done, beatVars, registered, faults, late,
                 crashed>>

Signal ==
  /\ closer = "signalling"
  /\ done' = TRUE
  /\ closer' = "finished"
  /\ UNCHANGED <<runner, mine, conn, closed, beatVars, registered, netVars, late,
                 crashed>>

-----------------------------------------------------------------------------
(* The network and the relay *)

Lose(n) ==
  /\ sock[n] \in {"up", "stalled"} /\ faults < MaxFaults
  /\ sock' = [sock EXCEPT ![n] = "lost"]
  /\ faults' = faults + 1
  /\ UNCHANGED <<runner, mine, conn, closed, done, closer, beatVars, registered, late,
                 crashed>>

Stall(n) ==
  /\ sock[n] = "up" /\ n \in MayStall
  /\ sock' = [sock EXCEPT ![n] = "stalled"]
  /\ UNCHANGED <<runner, mine, conn, closed, done, closer, beatVars, registered, faults,
                 late, crashed>>

-----------------------------------------------------------------------------
Connect ==
  \/ CheckClosed \/ DialFails \/ DialOk \/ Assign \/ BeginRegister \/ Registered
  \/ RegisterFails \/ Loop \/ Ignore \/ Receive \/ ReadFails \/ BeginReply \/ EndReply
  \/ StopHeartbeat \/ Clear \/ Retry \/ Wait

Heartbeat(n) == Tick(n) \/ BeginBeat(n) \/ EndBeat(n) \/ EndHeartbeat(n)

Close == BeginClose \/ EndClose \/ Signal

Next ==
  /\ ~crashed
  /\ Connect \/ Close \/ \E n \in N : Heartbeat(n) \/ Lose(n) \/ Stall(n)

Spec == Init /\ [][Next]_vars

\* The mutex serves those that wait in turn and select chooses at random; when
\* main calls Close, messages come and heartbeats are due is open.
Fairness ==
  /\ SF_vars(~crashed /\ Connect)
  /\ WF_vars(~crashed /\ (EndClose \/ Signal))
  /\ \A n \in N :
       /\ SF_vars(~crashed /\ (BeginBeat(n) \/ EndBeat(n)))
       /\ SF_vars(~crashed /\ EndHeartbeat(n))

FairSpec == Spec /\ Fairness

-----------------------------------------------------------------------------
(* Properties *)

\* Heartbeats and replies, written under mu to whatever c.conn is then, go to a
\* connection the relay has seen the registration of, and never while it is
\* being written: the goroutine of an earlier connection is gone in time.
RegistersFirst ==
  (runner = "replying" \/ \E n \in N : beat[n] = "writing")
    => conn = mine /\ conn \in registered /\ ~Registering(conn)

\* So the only write that can meet another on its connection is the close frame
\* of Close, which does not wait for the registration.
OnlyCloseCollides == crashed => closed

\* The agent has at most one connection that works: it dials again only when
\* the last one is lost or closed, though readLoop closes none.
OneLive ==
  \A n, m \in N : {sock[n], sock[m]} \subseteq {"up", "stalled"} => n = m

\* The link as the relay sees it: the connection that works, if there is one.
Live(n) == sock[n] \in {"up", "stalled"}

Link ==
  IF \A n \in N : ~Live(n) THEN "down"
  ELSE IF \E n \in registered : Live(n) THEN "registered" ELSE "open"

Agent == INSTANCE AgentLink
           WITH link <- Link, asked <- closed, willing <- ~closed \/ runner = "dialing"

\* Connect, its retries, Close and the network together make one link that is
\* opened only when the last one is down, registered only after it was opened,
\* and opened at most once after Close was called (relay.go Connect, Close).
ImplementsLink == Agent!LinkSpec

\* Once Connect has returned, Close has closed the connection, except one that
\* was being dialled when Close looked for it.
ReturnsClosed ==
  runner = "returned" => \A n \in N \ late : sock[n] \notin {"up", "stalled"}

\* The network serves no connection without an error; nobody has panicked.
Stuck == crashed \/ \E n \in N : sock[n] = "stalled"

Online == conn \in registered /\ sock[conn] = "up"

\* Until it is closed the client is online again and again, however often the
\* dial, the registration or the connection fails, if no connection hangs.
Reconnects == ~closed ~> Online \/ closed \/ Stuck

\* After Close everything ends, whatever Connect was doing.
CloseEnds ==
  closed ~> (runner = "returned" /\ done /\ \A n \in N : beat[n] \in {"none", "ended"}) \/ Stuck
=============================================================================
