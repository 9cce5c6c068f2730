----------------------------- MODULE AgentLink -----------------------------
(***************************************************************************)
(* What the agent's relay client promises those who use it: one link, that *)
(* is opened, registered and lost, again and again.  Once asked to close   *)
(* it opens no more links, but the one it may be dialling already.         *)
(***************************************************************************)
VARIABLES
  link,    \* the agent's working connection to the relay
  asked,   \* whether it was asked to close
  willing  \* whether it may open a link

linkVars == <<link, asked, willing>>

LinkInit == link = "down" /\ asked = FALSE /\ willing = TRUE

Open ==
  /\ willing /\ link = "down"
  /\ link' = "open"
  /\ willing' = ~asked
  /\ UNCHANGED asked

Register ==
  /\ link = "open"
  /\ link' = "registered"
  /\ UNCHANGED <<asked, willing>>

\* The network fails, or the client closes the connection.
Break ==
  /\ link # "down"
  /\ link' = "down"
  /\ UNCHANGED <<asked, willing>>

\* It is asked once; a dial may be under way or not.
AskClose ==
  /\ ~asked
  /\ asked' = TRUE
  /\ willing' \in BOOLEAN
  /\ UNCHANGED link

\* That dial fails.
GiveUp ==
  /\ asked /\ willing
  /\ willing' = FALSE
  /\ UNCHANGED <<link, asked>>

LinkNext == Open \/ Register \/ Break \/ AskClose \/ GiveUp

LinkSpec == LinkInit /\ [][LinkNext]_linkVars
=============================================================================
