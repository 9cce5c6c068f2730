------------------------------ MODULE MCRelay ------------------------------
(* Relay for TLC: three connections, and which device dials each of them.   *)
EXTENDS RelayDirectory, TLC

CONSTANTS c1, c2, c3, d1, d2

\* d1 reconnects: its second connection overlaps the first; d2 watches.
Reconnecting == (c1 :> {d1}) @@ (c2 :> {d1}) @@ (c3 :> {d2})
OneDevice == [c \in Conn |-> {d1}]
TwoEach == (c1 :> {d1}) @@ (c2 :> {d2})

\* What the peers ask once registered.
AskAll == [c \in Conn |-> Request]
AskHeartbeat == [c \in Conn |-> {"heartbeat"}]
AskNothing == [c \in Conn |-> {}]

\* No guard reads told: runs whose properties do not mention it leave it out.
ExceptTold == <<owner, age, open, peer, pc, rt, arg, held, batch, stale>>

ConnSymmetry == Permutations(Conn)
=============================================================================
