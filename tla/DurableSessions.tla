--------------------------- MODULE DurableSessions ---------------------------
(***************************************************************************)
(* What the agent promises about its terminal sessions: once a client was  *)
(* told that a tmux session exists, every agent that is up offers it until *)
(* it ends or is destroyed, however often the agent dies in between.       *)
(***************************************************************************)
CONSTANT Session

VARIABLES
  running,   \* whether an agent is up
  offered,   \* the sessions it lists, takes input for and reads
  promised   \* the sessions that must not be lost

durableVars == <<running, offered, promised>>

DurableInit == running = FALSE /\ offered = {} /\ promised = {}

Offer(s) == running /\ offered' = offered \cup {s} /\ UNCHANGED <<running, promised>>

\* A session may only be promised if it is offered.
Promise(s) ==
  /\ running => s \in offered
  /\ promised' = promised \cup {s}
  /\ UNCHANGED <<running, offered>>

\* The session ends, or somebody asks for its end.
Lapse(s) == promised' = promised \ {s} /\ UNCHANGED <<running, offered>>

Withdraw(s) ==
  /\ s \notin promised
  /\ offered' = offered \ {s}
  /\ UNCHANGED <<running, promised>>

Stop == running' = FALSE /\ offered' = {} /\ UNCHANGED promised

\* An agent that comes up offers all that was promised.
Recover ==
  /\ ~running
  /\ running' = TRUE
  /\ offered' \in SUBSET Session
  /\ promised \subseteq offered'
  /\ UNCHANGED promised

DurableNext ==
  \/ \E s \in Session : Offer(s) \/ Promise(s) \/ Lapse(s) \/ Withdraw(s)
  \/ Stop
  \/ Recover

DurableSpec == DurableInit /\ [][DurableNext]_durableVars
=============================================================================
