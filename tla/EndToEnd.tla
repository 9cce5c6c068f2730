------------------------------ MODULE EndToEnd ------------------------------
(***************************************************************************)
(* What the three programs that talk to the relay write, and what the      *)
(* relay makes of it: the agent (relay.go, main.go), the app's connection  *)
(* to an agent (relay_connection.dart, connection_base.dart) and its       *)
(* presence watcher (presence_watcher.dart).  Messages are kept in order,  *)
(* nothing fails, and all three are there once.                            *)
(*                                                                         *)
(* Of a message counts what decides how it is read: the type of its id,    *)
(* its method, and for a registration the device_type.                     *)
(***************************************************************************)
EXTENDS Naturals, SequencesExt

CONSTANT MaxQueue \* bound: messages on their way between a program and the relay

Program == {"agent", "app", "watcher"}

VARIABLES
  open,       \* programs that are connected
  toRelay,    \* requests of each on their way to the relay
  toProgram,  \* what the relay has sent each
  registered, \* Router.registered of each connection, with its registry entry
  asked       \* the agent has been handed a request of the app

vars == <<open, toRelay, toProgram, registered, asked>>

Init ==
  /\ open = {}
  /\ toRelay = [p \in Program |-> <<>>] /\ toProgram = [p \in Program |-> <<>>]
  /\ registered = {}
  /\ asked = FALSE

Message(method, id, type) == [method |-> method, id |-> id, type |-> type]

\* The device.register of each, with its device_type.
Registration(p) ==
  Message("device.register", "text",
          CASE p = "agent" -> "agent" [] p = "app" -> "client"
            [] p = "watcher" -> "client_watcher")

\* What each writes besides, first to last.
Opening(p) == IF p = "watcher" THEN <<Message("device.list_online", "text", "")>> ELSE <<>>

Later(p) ==
  CASE p = "agent" -> {Message("presence.heartbeat", "text", "")}
                        \cup (IF asked THEN {Message("message.send", "text", "")} ELSE {})
    [] p = "app" -> {Message("presence.heartbeat", "none", ""),
                     Message("message.send", "text", "")}
    [] p = "watcher" -> {}

Connect(p) ==
  /\ p \notin open
  /\ open' = open \cup {p}
  /\ toRelay' = [toRelay EXCEPT ![p] = <<Registration(p)>> \o Opening(p)]
  /\ UNCHANGED <<toProgram, registered, asked>>

Write(p) ==
  /\ p \in open /\ Len(toRelay[p]) < MaxQueue
  /\ \E r \in Later(p) : toRelay' = [toRelay EXCEPT ![p] = Append(@, r)]
  /\ UNCHANGED <<open, toProgram, registered, asked>>

\* JSONRPCRequest.ID is an *int64: a text in its place is no request.
Parses(request) == request.id \in {"number", "none"}

\* Answers carry no method.
Answered(p) == {<<p, "answer">>}

Announced(p) == {<<q, "presence.online">> : q \in registered \ {p}}

\* handleRegister takes two types of devices.
Accepted(r) == r.method = "device.register" /\ r.type \in {"agent", "client"}

\* HandleText: what a request sends to whom.  The app asks the agent; the agent
\* answers the name the app was paired under, which the app does not register.
Sent(p, r) ==
  CASE Accepted(r) -> Answered(p) \cup Announced(p)
    [] r.method = "message.send" /\ p = "app" /\ {"app", "agent"} \subseteq registered ->
         Answered(p) \cup {<<"agent", "message.forward">>}
    [] OTHER -> Answered(p)

RelayReads(p) ==
  /\ toRelay[p] # <<>>
  /\ \A q \in Program : Len(toProgram[q]) < MaxQueue
  /\ toRelay' = [toRelay EXCEPT ![p] = Tail(@)]
  /\ LET r == Head(toRelay[p])
         sent == IF Parses(r) THEN Sent(p, r) ELSE Answered(p)
     IN /\ registered' = IF Parses(r) /\ Accepted(r) THEN registered \cup {p} ELSE registered
        /\ toProgram' = [q \in Program |->
             toProgram[q] \o SetToSeq({m[2] : m \in {n \in sent : n[1] = q}})]
  /\ UNCHANGED <<open, asked>>

\* The agent works on what comes as message.relay; the rest leaves no trace here.
ProgramReads(p) ==
  /\ toProgram[p] # <<>>
  /\ toProgram' = [toProgram EXCEPT ![p] = Tail(@)]
  /\ asked' = (asked \/ (p = "agent" /\ Head(toProgram[p]) = "message.relay"))
  /\ UNCHANGED <<open, toRelay, registered>>

Next == \E p \in Program : Connect(p) \/ Write(p) \/ RelayReads(p) \/ ProgramReads(p)

Spec == Init /\ [][Next]_vars

-----------------------------------------------------------------------------
(* Properties *)

\* The relay knows a program of which it has read everything: the agent logs
\* that it is registered (relay.go:122) once its request is written.  Violated:
\* the id of the request is a text, which the relay does not take.
ConnectedIsRegistered == \A p \in open : toRelay[p] = <<>> => p \in registered
=============================================================================
