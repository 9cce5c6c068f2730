-------------------------- MODULE RelayClientProofs --------------------------
(* Proofs about RelayClient.                                                *)
EXTENDS RelayClient, TLAPS

-----------------------------------------------------------------------------
(* The inductive invariant                                                  *)

\* From the registration on, up to the end of readLoop.
Serving == {"looping", "reading", "handling", "replying", "leaving"}

\* Which connections there have been, which are registered, whose heartbeat is
\* to stop, by where Connect is.
Places ==
  /\ \A n \in N : n <= mine <=> sock[n] # "none"
  /\ registered \subseteq 1 .. mine
  /\ runner \in {"dialed", "assigned", "registering"} => mine # 0 /\ mine \notin registered
  /\ runner \in Serving => mine \in registered /\ registered \ stopped = {mine}
  /\ runner = "clearing" => mine \in registered
  /\ runner \notin Serving => registered = stopped

\* What c.conn points to.
Conns ==
  /\ conn <= mine
  /\ conn # 0 =>
       \/ conn = mine /\ (runner \in Serving \cup {"assigned", "registering", "clearing"}
                          \/ sock[conn] = "shut")
       \/ runner = "dialed" /\ sock[conn] = "shut"
  /\ runner \in Serving \cup {"assigned", "registering"} /\ conn = 0 => closed
  /\ (runner = "replying" \/ closer = "writing" \/ \E n \in N : beat[n] = "writing")
       => conn # 0

\* A heartbeat that is to stop has, but for a moment after readLoop.
Beats ==
  \A n \in stopped :
    beat[n] # "ended" =>
      /\ n = mine
      /\ runner = "clearing" \/ (runner \in {"over", "waiting", "returned"} /\ conn = 0)

\* How far Close is.
Closing ==
  /\ closer = "idle" <=> ~closed
  /\ done => closer = "finished"
  /\ runner = "returned" => closed /\ closer # "writing"
  /\ closer = "writing" => runner # "replying" /\ \A n \in N : beat[n] # "writing"
  /\ crashed => closed

\* Which connections work.
Working ==
  \A n \in N : Live(n) =>
    /\ n = mine
    /\ \/ runner \in {"dialed", "assigned", "registering", "looping", "reading",
                      "handling", "replying"}
       \/ runner \in {"leaving", "clearing", "over", "returned"} /\ closed
    /\ closed => runner = "dialed" \/ n \in late \/ (closer = "writing" /\ conn = n)

IInv == TypeOK /\ Places /\ Conns /\ Beats /\ Closing /\ Working

\* Nothing has been dialled or closed at the start.
LEMMA IInit == Init => IInv
<1> SUFFICES ASSUME Init PROVE IInv
  OBVIOUS
<1> USE ClientAssumption DEF Init, N
<1>1. TypeOK
  <2>1. /\ mine \in 0 .. (MaxFaults + 1) /\ conn \in 0 .. (MaxFaults + 1)
        /\ faults \in 0 .. MaxFaults
    OBVIOUS
  <2>2. /\ beat \in [N -> {"none", "waiting", "locking", "writing", "ended"}]
        /\ \A n \in N : beat[n] # "none" <=> n \in registered
        /\ sock \in [N -> {"none", "up", "stalled", "lost", "shut"}]
    OBVIOUS
  <2> QED
    BY <2>1, <2>2 DEF TypeOK
<1>2. Places
  BY DEF Places, Serving
<1>3. Conns /\ Beats /\ Closing
  BY DEF Conns, Beats, Closing, Serving
<1>4. Working
  BY DEF Working, Live
<1> QED
  BY <1>1, <1>2, <1>3, <1>4 DEF IInv

-----------------------------------------------------------------------------
(* Every step keeps it                                                      *)

\* Connect, from the dial to the wait for the next one.
LEMMA ConnectStep ==
  ASSUME IInv, ~crashed, Connect PROVE IInv'
<1> USE ClientAssumption DEF IInv, TypeOK, Places, Conns, Beats, Closing, Working, Live, Serving, N, Go, MuFree, beatVars, netVars
<1>1. CASE CheckClosed
  BY <1>1 DEF CheckClosed, Settled, WriteOk, WriteFails, WriteEnds, Registering
<1>2. CASE DialFails
  BY <1>2 DEF DialFails, Settled, WriteOk, WriteFails, WriteEnds, Registering
<1>3. CASE DialOk
  BY <1>3 DEF DialOk, Settled, WriteOk, WriteFails, WriteEnds, Registering
<1>4. CASE Assign
  BY <1>4 DEF Assign, Settled, WriteOk, WriteFails, WriteEnds, Registering
<1>5. CASE BeginRegister
  BY <1>5 DEF BeginRegister, Settled, WriteOk, WriteFails, WriteEnds, Registering
<1>6. CASE Registered
  BY <1>6 DEF Registered, Settled, WriteOk, WriteFails, WriteEnds, Registering
<1>7. CASE RegisterFails
  BY <1>7 DEF RegisterFails, Settled, WriteOk, WriteFails, WriteEnds, Registering
<1>8. CASE Loop
  BY <1>8 DEF Loop, Settled, WriteOk, WriteFails, WriteEnds, Registering
<1>9. CASE Ignore
  BY <1>9 DEF Ignore, Settled, WriteOk, WriteFails, WriteEnds, Registering
<1>10. CASE Receive
  BY <1>10 DEF Receive, Settled, WriteOk, WriteFails, WriteEnds, Registering
<1>11. CASE ReadFails
  BY <1>11 DEF ReadFails, Settled, WriteOk, WriteFails, WriteEnds, Registering
<1>12. CASE BeginReply
  BY <1>12 DEF BeginReply, Settled, WriteOk, WriteFails, WriteEnds, Registering
<1>13. CASE EndReply
  BY <1>13 DEF EndReply, Settled, WriteOk, WriteFails, WriteEnds, Registering
<1>14. CASE StopHeartbeat
  BY <1>14 DEF StopHeartbeat, Settled, WriteOk, WriteFails, WriteEnds, Registering
<1>15. CASE Clear
  BY <1>15 DEF Clear, Settled, WriteOk, WriteFails, WriteEnds, Registering
<1>16. CASE Retry
  BY <1>16 DEF Retry, Settled, WriteOk, WriteFails, WriteEnds, Registering
<1>17. CASE Wait
  BY <1>17 DEF Wait, Settled, WriteOk, WriteFails, WriteEnds, Registering
<1> QED
  BY <1>1, <1>2, <1>3, <1>4, <1>5, <1>6, <1>7, <1>8, <1>9, <1>10, <1>11, <1>12, <1>13, <1>14, <1>15, <1>16, <1>17 DEF Connect

\* Close.
LEMMA CloseStep ==
  ASSUME IInv, ~crashed, Close PROVE IInv'
<1> USE ClientAssumption DEF IInv, TypeOK, Places, Conns, Beats, Closing, Working, Live, Serving, N, Go, MuFree, beatVars, netVars
<1>1. CASE BeginClose
  BY <1>1 DEF BeginClose, Settled, WriteOk, WriteFails, WriteEnds, Registering
<1>2. CASE EndClose
  BY <1>2 DEF EndClose, Settled, WriteOk, WriteFails, WriteEnds, Registering
<1>3. CASE Signal
  BY <1>3 DEF Signal, Settled, WriteOk, WriteFails, WriteEnds, Registering
<1> QED
  BY <1>1, <1>2, <1>3 DEF Close

\* A heartbeat goroutine.
LEMMA HeartbeatStep ==
  ASSUME IInv, ~crashed, NEW h \in N, Heartbeat(h) PROVE IInv'
<1> USE ClientAssumption DEF IInv, TypeOK, Places, Conns, Beats, Closing, Working, Live, Serving, N, Beat, MuFree, beatVars, netVars
<1>1. CASE Tick(h)
  BY <1>1 DEF Tick, Settled, WriteOk, WriteFails, WriteEnds, Registering
<1>2. CASE BeginBeat(h)
  BY <1>2 DEF BeginBeat, Settled, WriteOk, WriteFails, WriteEnds, Registering
<1>3. CASE EndBeat(h)
  BY <1>3 DEF EndBeat, Settled, WriteOk, WriteFails, WriteEnds, Registering
<1>4. CASE EndHeartbeat(h)
  BY <1>4 DEF EndHeartbeat, Settled, WriteOk, WriteFails, WriteEnds, Registering
<1> QED
  BY <1>1, <1>2, <1>3, <1>4 DEF Heartbeat

\* What happens to a connection.
LEMMA NetworkStep ==
  ASSUME IInv, ~crashed, NEW h \in N, Lose(h) \/ Stall(h) PROVE IInv'
<1> USE ClientAssumption DEF IInv, TypeOK, Places, Conns, Beats, Closing, Working, Live, Serving, N, beatVars, netVars
<1>1. CASE Lose(h)
  BY <1>1 DEF Lose
<1>2. CASE Stall(h)
  BY <1>2 DEF Stall
<1> QED
  BY <1>1, <1>2

\* Any step keeps the invariant.
LEMMA IStep == IInv /\ [Next]_vars => IInv'
<1> SUFFICES ASSUME IInv, [Next]_vars PROVE IInv'
  OBVIOUS
<1>1. CASE UNCHANGED vars
  BY <1>1 DEF vars, beatVars, netVars, IInv, TypeOK, Places, Conns, Beats, Closing,
              Working, Live
<1> QED
  BY <1>1, ConnectStep, CloseStep, HeartbeatStep, NetworkStep DEF Next

\* It holds throughout.
LEMMA Invariant == Spec => []IInv
BY IInit, IStep, PTL DEF Spec

-----------------------------------------------------------------------------
(* What follows from it                                                     *)

\* Type correctness, for any number of faults.
THEOREM ClientTypeCorrect == Spec => []TypeOK
<1>1. IInv => TypeOK
  BY DEF IInv
<1> QED
  BY <1>1, Invariant, PTL

\* What is written under mu goes to a registered connection, after the
\* registration: a heartbeat goroutine that is not over is that of the connection
\* in use, and none is there while a connection is being registered.
THEOREM RegistrationComesFirst == Spec => []RegistersFirst
<1>1. IInv => RegistersFirst
  <2> SUFFICES ASSUME IInv,
                      runner = "replying" \/ \E n \in N : beat[n] = "writing"
               PROVE  conn = mine /\ conn \in registered /\ ~Registering(conn)
    BY DEF RegistersFirst
  <2> USE ClientAssumption DEF IInv, TypeOK, N, Registering
  <2>1. CASE runner = "replying"
    BY <2>1 DEF Places, Conns, Serving
  <2>2. ASSUME NEW n \in N, beat[n] = "writing"
        PROVE  conn = mine /\ conn \in registered /\ ~Registering(conn)
    <3>1. n \in registered /\ conn # 0
      BY <2>2 DEF Conns
    <3>2. n = mine /\ runner \in Serving \cup {"clearing"}
      BY <2>2, <3>1 DEF Beats, Places, Serving
    <3> QED
      BY <3>1, <3>2 DEF Conns, Serving
  <2> QED
    BY <2>1, <2>2
<1> QED
  BY <1>1, Invariant, PTL

\* Two writes meet only when Close is called during a registration.
THEOREM CollisionsNeedClose == Spec => []OnlyCloseCollides
<1>1. IInv => OnlyCloseCollides
  BY DEF IInv, Closing, OnlyCloseCollides
<1> QED
  BY <1>1, Invariant, PTL

\* The relay never sees two working connections of one agent.
THEOREM OneLiveConnection == Spec => []OneLive
<1>1. IInv => OneLive
  BY DEF IInv, Working, Live, OneLive
<1> QED
  BY <1>1, Invariant, PTL

\* c.conn is what Connect uses now, or a connection that is closed: the one whose
\* registration failed, until the next is dialled.
ConnIsCurrent == conn # 0 => conn = mine \/ sock[conn] = "shut"

\* c.conn is never an earlier connection that works.
THEOREM ConnCurrent == Spec => []ConnIsCurrent
<1>1. IInv => ConnIsCurrent
  BY DEF IInv, Conns, ConnIsCurrent
<1> QED
  BY <1>1, Invariant, PTL

\* Whenever Connect returns, no connection is left but one that Close could not see.
THEOREM CloseLeavesNothing == Spec => []ReturnsClosed
<1>1. IInv => ReturnsClosed
  BY DEF IInv, Working, Closing, Live, ReturnsClosed
<1> QED
  BY <1>1, Invariant, PTL

-----------------------------------------------------------------------------
(* The link                                                                 *)

Willing == ~closed \/ runner = "dialing"

\* With one working connection the link is open or registered as that one is.
LEMMA LinkOf ==
  ASSUME IInv, NEW n \in N, Live(n)
  PROVE  n = mine /\ Link = IF n \in registered THEN "registered" ELSE "open"
<1>1. n = mine /\ \A m \in N : Live(m) => m = n
  BY DEF IInv, Working
<1>2. registered \subseteq N
  BY DEF IInv, TypeOK
<1> QED
  BY <1>1, <1>2 DEF Link

\* The abstract link stutters when connections, registrations and the will to
\* dial stay.
LEMMA LinkStutters ==
  ASSUME UNCHANGED <<sock, registered, closed>>, Willing' = Willing
  PROVE  UNCHANGED Agent!linkVars
BY DEF Agent!linkVars, Link, Live, Willing

\* A dial needs the old connection to be down.
LEMMA DialOpens == ASSUME IInv, IInv', DialOk PROVE Agent!Open
<1> USE ClientAssumption
<1>1. \A n \in N : ~Live(n)
  BY DEF IInv, Working, DialOk, Go
<1>2. Link = "down"
  BY <1>1 DEF Link
<1>3. mine' \in N /\ mine' \notin registered /\ registered' = registered
  BY DEF IInv, TypeOK, Places, DialOk, N
<1>4. sock'[mine'] = "up"
  BY <1>3 DEF DialOk, IInv, TypeOK, N
<1>5. \A n \in registered' : ~Live(n)'
  BY <1>1, <1>3 DEF DialOk, IInv, TypeOK, Places, Live, N
<1>6. Link' = "open"
  BY <1>3, <1>4, <1>5 DEF Link, Live
<1>7. Willing /\ Willing' = ~closed /\ closed' = closed
  BY DEF Willing, DialOk, Go
<1> QED
  BY <1>2, <1>6, <1>7 DEF Agent!Open, Willing

\* The registration of a connection that works registers the link.
LEMMA RegisteredRegisters ==
  ASSUME IInv, IInv', Registered
  PROVE  Agent!Register \/ UNCHANGED Agent!linkVars
<1> USE ClientAssumption
<1>1. /\ mine \in N /\ mine \notin registered /\ registered' = registered \cup {mine}
      /\ UNCHANGED <<sock, closed, mine>> /\ Willing' = Willing
  BY DEF IInv, TypeOK, Places, Registered, Go, netVars, Willing, N
<1>2. CASE Live(mine)
  <2>1. Link = "open"
    BY <1>1, <1>2, LinkOf
  <2>2. Link' = "registered"
    BY <1>1, <1>2 DEF Link, Live
  <2> QED
    BY <1>1, <2>1, <2>2 DEF Agent!Register, Willing
<1>3. CASE ~Live(mine)
  <2>1. \A n \in N : ~Live(n) /\ ~Live(n)'
    BY <1>1, <1>3 DEF IInv, Working, Live
  <2>2. Link = "down" /\ Link' = "down"
    BY <2>1 DEF Link
  <2> QED
    BY <1>1, <2>2 DEF Agent!linkVars, Willing
<1> QED
  BY <1>2, <1>3

\* A connection that stops working breaks the link if it was the one.
LEMMA EndingBreaks ==
  ASSUME IInv, NEW n \in N, sock[n] # "none",
         NEW state \in {"lost", "shut"}, sock' = [sock EXCEPT ![n] = state],
         UNCHANGED <<registered, closed>>, Willing' = Willing
  PROVE  Agent!Break \/ UNCHANGED Agent!linkVars
<1>1. \A m \in N : Live(m)' <=> Live(m) /\ m # n
  BY DEF Live, IInv, TypeOK
<1>2. CASE Live(n)
  <2>1. Link \in {"open", "registered"}
    BY <1>2, LinkOf
  <2>2. Link' = "down"
    BY <1>1, <1>2 DEF Link, IInv, Working
  <2> QED
    BY <2>1, <2>2 DEF Agent!Break, Willing
<1>3. CASE ~Live(n)
  <2>1. \A m \in N : Live(m)' <=> Live(m)
    BY <1>1, <1>3
  <2>2. registered \subseteq N
    BY DEF IInv, TypeOK
  <2>3. Link' = Link
    BY <2>1, <2>2 DEF Link
  <2> QED
    BY <2>3 DEF Agent!linkVars, Willing
<1> QED
  BY <1>2, <1>3

\* Every step is a step of the link or a stutter.
LEMMA LinkStep == IInv /\ IInv' /\ [Next]_vars => [Agent!LinkNext]_Agent!linkVars
<1> SUFFICES ASSUME IInv, IInv', [Next]_vars
             PROVE  [Agent!LinkNext]_Agent!linkVars
  OBVIOUS
<1> USE DEF Agent!LinkNext
<1>1. CASE Connect
  <2>1. CASE DialOk
    BY <2>1, DialOpens
  <2>2. CASE DialFails
    <3>1. /\ Link' = Link /\ closed' = closed /\ Willing /\ Willing' = ~closed
      BY <2>2 DEF DialFails, Go, Link, Live, Willing
    <3> QED
      BY <3>1 DEF Agent!GiveUp, Agent!linkVars, Willing
  <2>3. CASE Registered
    BY <2>3, RegisteredRegisters
  <2>4. CASE RegisterFails
    <3>1. /\ mine \in N /\ sock[mine] # "none" /\ UNCHANGED <<registered, closed>>
          /\ sock' = [sock EXCEPT ![mine] = "shut"] /\ Willing' = Willing
      BY <2>4, ClientAssumption DEF RegisterFails, WriteFails, Go, Willing, IInv, TypeOK, Places, N
    <3> QED
      BY <3>1, EndingBreaks
  <2>5. CASE CheckClosed
    BY <2>5, LinkStutters DEF CheckClosed, Go, Willing, netVars
  <2>6. CASE Assign \/ BeginRegister \/ Loop \/ Ignore \/ Receive \/ ReadFails
    BY <2>6, LinkStutters DEF Assign, BeginRegister, Loop, Ignore, Receive, ReadFails,
                              Go, Willing, netVars
  <2>7. CASE BeginReply \/ EndReply \/ StopHeartbeat \/ Clear \/ Retry \/ Wait
    BY <2>7, LinkStutters DEF BeginReply, EndReply, StopHeartbeat, Clear, Retry, Wait,
                              Go, Willing, netVars
  <2> QED
    BY <1>1, <2>1, <2>2, <2>3, <2>4, <2>5, <2>6, <2>7 DEF Connect
<1>2. CASE BeginClose
  <2>1. ~closed /\ closed' = TRUE /\ Link' = Link /\ Willing' \in BOOLEAN
    BY <1>2 DEF BeginClose, IInv, Closing, TypeOK, Link, Live, Willing, netVars
  <2> QED
    BY <2>1 DEF Agent!AskClose, Willing
<1>3. CASE EndClose
  <2>1. conn \in N /\ sock[conn] # "none"
    BY <1>3, ClientAssumption DEF EndClose, IInv, TypeOK, Conns, Places, N
  <2>2. /\ UNCHANGED <<registered, closed>> /\ Willing' = Willing
        /\ sock' = [sock EXCEPT ![conn] = "shut"]
    BY <1>3 DEF EndClose, Willing
  <2> QED
    BY <2>1, <2>2, EndingBreaks
<1>4. CASE Signal
  BY <1>4, LinkStutters DEF Signal, Willing, netVars
<1>5. ASSUME NEW n \in N, Heartbeat(n) PROVE UNCHANGED Agent!linkVars
  BY <1>5, LinkStutters DEF Heartbeat, Tick, BeginBeat, EndBeat, EndHeartbeat, Willing,
                            netVars
<1>6. ASSUME NEW n \in N, Lose(n) PROVE Agent!Break \/ UNCHANGED Agent!linkVars
  <2>1. /\ sock[n] # "none" /\ UNCHANGED <<registered, closed>> /\ Willing' = Willing
        /\ sock' = [sock EXCEPT ![n] = "lost"]
    BY <1>6 DEF Lose, Willing
  <2> QED
    BY <2>1, EndingBreaks
<1>7. ASSUME NEW n \in N, Stall(n) PROVE UNCHANGED Agent!linkVars
  <2>1. \A m \in N : Live(m)' <=> Live(m)
    BY <1>7 DEF Stall, Live, IInv, TypeOK
  <2>2. registered \subseteq N /\ UNCHANGED <<registered, closed>> /\ Willing' = Willing
    BY <1>7 DEF Stall, IInv, TypeOK, Willing
  <2>3. Link' = Link
    BY <2>1, <2>2 DEF Link
  <2> QED
    BY <2>2, <2>3 DEF Agent!linkVars, Willing
<1>8. CASE UNCHANGED vars
  BY <1>8, LinkStutters DEF vars, netVars, Willing
<1> QED
  BY <1>1, <1>2, <1>3, <1>4, <1>5, <1>6, <1>7, <1>8 DEF Next, Close

\* The agent's end of the relay connection implements AgentLink, whatever fails
\* and whenever Close is called.
THEOREM ClientImplementsLink == Spec => ImplementsLink
<1>1. Init => Agent!LinkInit
  <2>1. Init => Link = "down"
    BY DEF Init, Link, Live
  <2> QED
    BY <2>1 DEF Init, Agent!LinkInit
<1> QED
  BY <1>1, LinkStep, Invariant, PTL DEF Spec, ImplementsLink, Agent!LinkSpec
=============================================================================
