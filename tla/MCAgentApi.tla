----------------------------- MODULE MCAgentApi -----------------------------
(* AgentApi for TLC.                                                        *)
EXTENDS AgentApi

\* Of a connection that is over, and of an agent that is, only that it is over.
ExceptDone ==
  LET live == {c \in Client : at[c] # "done"} IN
  IF crashed THEN <<crashed>> ELSE
  <<terminalVars, managerVars, queue, loopVars, clients, handlerVars,
    [c \in live |-> got[c]], stalled \cap live, gone \cap live, closed \cap live,
    crashed>>
=============================================================================
