----------------------------- MODULE PtyDurable -----------------------------
(* The session manager keeps the promise of DurableSessions.                *)
EXTENDS PtyManager

running == phase = "up"
offered == IF running THEN sessions ELSE {}

Durable == INSTANCE DurableSessions WITH promised <- Promised

\* sessions persist across agent restarts (2026-05-02 plan:21): creation,
\* destruction, crashes at any step and the restore loop (manager.go) together
\* never lose a promised session, as long as tmux is found and answers and a
\* write of sessions.json is not torn.
ImplementsDurable == Durable!DurableSpec
=============================================================================
