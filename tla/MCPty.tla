------------------------------- MODULE MCPty -------------------------------
(* PtyManager for TLC.                                                      *)
EXTENDS PtyDurable, TLC

Symmetry == Permutations(Session) \cup Permutations(Worker)

\* Nothing reads the argument of an idle worker.
ExceptIdle ==
  <<phase, useTmux, sessions, reading, mem, todo, pc, file, alive, kind, acked, ended,
    [w \in {v \in Worker : pc[v] # "idle"} |-> arg[w]]>>
=============================================================================
