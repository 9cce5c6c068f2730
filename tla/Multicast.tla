----------------------------- MODULE Multicast -----------------------------
(***************************************************************************)
(* What the subscriptions to the output of sessions promise: a multicast.  *)
(* A chunk is due at once to all who listen to its session, and to nobody  *)
(* else; each of them is given it, or misses it for want of room, before   *)
(* the next one.  Who has stopped listening is due nothing, gets nothing   *)
(* more but what it holds, and never listens again.                        *)
(***************************************************************************)
EXTENDS Naturals

CONSTANTS
  Topic,    \* what is listened to: the sessions
  Listener,
  Room,     \* chunks a listener can hold
  NoTopic

VARIABLES
  listens, \* the topic of each listener
  due,     \* listeners that have yet to be offered the last chunk
  holds,   \* chunks each of them holds
  over     \* those that have stopped listening

castVars == <<listens, due, holds, over>>

Audience(t) == {c \in Listener : listens[c] = t}

CastInit ==
  /\ listens = [c \in Listener |-> NoTopic] /\ holds = [c \in Listener |-> 0]
  /\ due = {} /\ over = {}

Join(c, t) ==
  /\ listens[c] = NoTopic /\ c \notin over
  /\ listens' = [listens EXCEPT ![c] = t]
  /\ UNCHANGED <<due, holds, over>>

Publish(t) ==
  /\ due \cap Audience(t) = {}
  /\ due' = due \cup Audience(t)
  /\ UNCHANGED <<listens, holds, over>>

Give(c) ==
  /\ c \in due /\ holds[c] < Room
  /\ due' = due \ {c}
  /\ holds' = [holds EXCEPT ![c] = @ + 1]
  /\ UNCHANGED <<listens, over>>

Lose(c) ==
  /\ c \in due /\ holds[c] = Room
  /\ due' = due \ {c}
  /\ UNCHANGED <<listens, holds, over>>

Take(c) ==
  /\ holds[c] > 0
  /\ holds' = [holds EXCEPT ![c] = @ - 1]
  /\ UNCHANGED <<listens, due, over>>

\* One listener leaves, or all those of some sessions are sent away.
Stop(leaving) ==
  /\ \A c \in leaving : listens[c] # NoTopic /\ c \notin due
  /\ listens' = [c \in Listener |-> IF c \in leaving THEN NoTopic ELSE listens[c]]
  /\ over' = over \cup leaving
  /\ UNCHANGED <<due, holds>>

CastNext ==
  \/ \E t \in Topic : Publish(t) \/ \E c \in Listener : Join(c, t)
  \/ \E c \in Listener : Give(c) \/ Lose(c) \/ Take(c)
  \/ \E leaving \in SUBSET Listener : Stop(leaving)

CastSpec == CastInit /\ [][CastNext]_castVars
=============================================================================
