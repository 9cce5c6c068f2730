----------------------------- MODULE PtyManager -----------------------------
(***************************************************************************)
(* The agent's terminal sessions (manager.go) across crashes and restarts: *)
(* the map of sessions in memory, the processes and tmux sessions outside, *)
(* the store in memory and its file on disk (session_store.go).            *)
(*                                                                         *)
(* CreateSession takes three steps another goroutine or a crash can come   *)
(* between (start the process, enter it in the map, write its record) and  *)
(* DestroySession two (kill, then forget) under Manager.mu.  tmux sessions *)
(* outlive the agent, processes on a PTY of its own do not.                *)
(*                                                                         *)
(* A record is abstracted to the session it names: command, directory and  *)
(* times are carried along and never read.  Session.closed is left out: a  *)
(* session that is in the map under Manager.mu is never closed.            *)
(***************************************************************************)
EXTENDS Naturals

CONSTANTS
  Session,    \* session ids; uuid.New never repeats one
  Worker,     \* goroutines that serve API requests
  TmuxFound,  \* what HasTmux may say when the agent starts
  Faults      \* what may go wrong outside

Fault == {"new",    \* tmux new-session fails
          "kill",   \* tmux kill-session fails
          "has",    \* tmux has-session fails although the session exists
          "disk",   \* WriteFile fails after it has truncated the file
          "torn"}   \* the agent dies during WriteFile

ASSUME PtyAssumption ==
  /\ TmuxFound \subseteq BOOLEAN
  /\ Faults \subseteq Fault

VARIABLES
  phase,     \* the main goroutine: down, restoring, up or closing
  useTmux,   \* Manager.useTmux
  sessions,  \* Manager.sessions
  reading,   \* sessions whose readOutput goroutine runs
  mem,       \* SessionStore.sessions
  todo,      \* records RestoreSessions has not come to
  pc,        \* where each worker is
  arg,       \* the session it is working on
  file,      \* the records in sessions.json; a torn file yields none
  alive,     \* processes and tmux sessions that exist
  kind,      \* Session.UsesTmux of the sessions ever started
  acked,     \* sessions whose CreateSession has returned
  ended      \* sessions a DestroySession has been called for

managerVars == <<phase, useTmux>>
storeVars   == <<mem, todo, file>>
workerVars  == <<pc, arg>>
historyVars == <<acked, ended>>
vars == <<phase, useTmux, sessions, reading, mem, todo, pc, arg,
          file, alive, kind, acked, ended>>

-----------------------------------------------------------------------------

TypeOK ==
  /\ phase \in {"down", "restoring", "up", "closing"}
  /\ useTmux \in BOOLEAN
  /\ sessions \subseteq Session /\ reading \subseteq Session
  /\ mem \subseteq Session /\ todo \subseteq Session /\ file \subseteq Session
  /\ pc \in [Worker -> {"idle", "publishing", "storing", "destroying"}]
  /\ arg \in [Worker -> Session]
  /\ alive \subseteq Session
  /\ kind \in [Session -> {"unused", "tmux", "child"}]
  /\ acked \subseteq Session /\ ended \subseteq Session

Init ==
  /\ phase = "down"
  /\ useTmux = FALSE
  /\ sessions = {} /\ reading = {} /\ mem = {} /\ todo = {} /\ file = {}
  /\ pc = [w \in Worker |-> "idle"]
  /\ arg \in [Worker -> Session]
  /\ alive = {}
  /\ kind = [s \in Session |-> "unused"]
  /\ acked = {} /\ ended = {}

Tmux == {s \in Session : kind[s] = "tmux"}

\* DestroySession holds Manager.mu while tmux kills the session.
Locked == \E w \in Worker : pc[w] = "destroying"

\* What a write of these records may leave on disk; its error is ignored.
Written(records) == {records} \cup (IF "disk" \in Faults THEN {{}} ELSE {})

\* TmuxSessionExists may answer this.
MayAnswer(s, exists) ==
  \/ exists = (s \in alive)
  \/ exists = FALSE /\ "has" \in Faults

-----------------------------------------------------------------------------
(* The agent starts *)

\* NewManager and, if there is tmux, Load: without it the file is not read.
Start ==
  /\ phase = "down"
  /\ phase' = "restoring"
  /\ useTmux' \in TmuxFound
  /\ mem' = IF useTmux' THEN file ELSE {}
  /\ todo' = mem'
  /\ UNCHANGED <<sessions, reading, workerVars, file, alive, kind, historyVars>>

\* A session that did not use tmux is passed over, its record stays.
PassOver(s) ==
  /\ phase = "restoring" /\ s \in todo
  /\ s \notin Tmux
  /\ todo' = todo \ {s}
  /\ UNCHANGED <<managerVars, sessions, reading, mem, workerVars, file, alive,
                 kind, historyVars>>

DropRecord(s) ==
  /\ phase = "restoring" /\ s \in todo \cap Tmux
  /\ MayAnswer(s, FALSE)
  /\ todo' = todo \ {s}
  /\ mem' = mem \ {s}
  /\ file' \in Written(mem')
  /\ UNCHANGED <<managerVars, sessions, reading, workerVars, alive, kind, historyVars>>

\* Mutation: the restored session gets no reader.
Reattach_Unread(s) ==
  /\ phase = "restoring" /\ s \in todo \cap Tmux
  /\ MayAnswer(s, TRUE)
  /\ todo' = todo \ {s}
  /\ sessions' = sessions \cup {s}
  /\ file' \in Written(mem)
  /\ UNCHANGED <<managerVars, reading, mem, workerVars, alive, kind, historyVars>>

\* Into the map, a reader, and the record written again.
Reattach(s) ==
  /\ phase = "restoring" /\ s \in todo \cap Tmux
  /\ MayAnswer(s, TRUE)
  /\ todo' = todo \ {s}
  /\ sessions' = sessions \cup {s}
  /\ reading' = reading \cup {s}
  /\ file' \in Written(mem)
  /\ UNCHANGED <<managerVars, mem, workerVars, alive, kind, historyVars>>

\* The API server is started only after RestoreSessions has returned.
Serve ==
  /\ phase = "restoring" /\ todo = {}
  /\ phase' = "up"
  /\ UNCHANGED <<useTmux, sessions, reading, storeVars, workerVars, alive, kind,
                 historyVars>>

-----------------------------------------------------------------------------
(* CreateSession *)

Serving == phase \in {"up", "closing"}

Launch(w, s, k) ==
  /\ kind' = [kind EXCEPT ![s] = k]
  /\ alive' = alive \cup {s}
  /\ arg' = [arg EXCEPT ![w] = s]
  /\ pc' = [pc EXCEPT ![w] = "publishing"]

\* One failure of tmux turns it off for the rest of the run; the PTY the
\* session falls back to may fail as well, which ends the request.
Create(w, s) ==
  /\ Serving
  /\ pc[w] = "idle" /\ kind[s] = "unused"
  /\ \/ /\ useTmux
        /\ Launch(w, s, "tmux")
        /\ UNCHANGED useTmux
     \/ /\ useTmux => "new" \in Faults
        /\ useTmux' = FALSE
        /\ \/ Launch(w, s, "child")
           \/ UNCHANGED <<kind, alive, workerVars>>
  /\ UNCHANGED <<phase, sessions, reading, storeVars, historyVars>>

Publish(w) ==
  /\ pc[w] = "publishing"
  /\ ~Locked
  /\ sessions' = sessions \cup {arg[w]}
  /\ reading' = reading \cup {arg[w]}
  /\ pc' = [pc EXCEPT ![w] = "storing"]
  /\ UNCHANGED <<managerVars, storeVars, arg, alive, kind, historyVars>>

\* Mutation: the session is acknowledged, and its record never written.
Store_Forget(w) ==
  /\ pc[w] = "storing"
  /\ pc' = [pc EXCEPT ![w] = "idle"]
  /\ acked' = acked \cup {arg[w]}
  /\ UNCHANGED <<managerVars, sessions, reading, storeVars, arg, alive, kind, ended>>

\* Put, and the answer to the client.
Store(w) ==
  /\ pc[w] = "storing"
  /\ mem' = mem \cup {arg[w]}
  /\ file' \in Written(mem')
  /\ pc' = [pc EXCEPT ![w] = "idle"]
  /\ acked' = acked \cup {arg[w]}
  /\ UNCHANGED <<managerVars, sessions, reading, todo, arg, alive, kind, ended>>

-----------------------------------------------------------------------------
(* DestroySession *)

\* Mutation: the tmux session is not killed.
Destroy_KeepTmux(w, s) ==
  /\ Serving
  /\ pc[w] = "idle" /\ s \in sessions
  /\ ~Locked
  /\ alive' = IF s \in Tmux THEN alive ELSE alive \ {s}
  /\ ended' = ended \cup {s}
  /\ arg' = [arg EXCEPT ![w] = s]
  /\ pc' = [pc EXCEPT ![w] = "destroying"]
  /\ UNCHANGED <<managerVars, sessions, reading, storeVars, kind, acked>>

\* A failure of kill-session is ignored.
Destroy(w, s) ==
  /\ Serving
  /\ pc[w] = "idle" /\ s \in sessions
  /\ ~Locked
  /\ \/ alive' = alive \ {s}
     \/ s \in Tmux /\ "kill" \in Faults /\ UNCHANGED alive
  /\ ended' = ended \cup {s}
  /\ arg' = [arg EXCEPT ![w] = s]
  /\ pc' = [pc EXCEPT ![w] = "destroying"]
  /\ UNCHANGED <<managerVars, sessions, reading, storeVars, kind, acked>>

\* Mutation: the record is deleted, the entry in the map is not.
Forget_KeepEntry(w) ==
  /\ pc[w] = "destroying"
  /\ mem' = mem \ {arg[w]}
  /\ file' \in Written(mem')
  /\ pc' = [pc EXCEPT ![w] = "idle"]
  /\ UNCHANGED <<managerVars, sessions, reading, todo, arg, alive, kind, historyVars>>

\* Out of the map and the store; Manager.mu is released.
Forget(w) ==
  /\ pc[w] = "destroying"
  /\ sessions' = sessions \ {arg[w]}
  /\ mem' = mem \ {arg[w]}
  /\ file' \in Written(mem')
  /\ pc' = [pc EXCEPT ![w] = "idle"]
  /\ UNCHANGED <<managerVars, reading, todo, arg, alive, kind, historyVars>>

-----------------------------------------------------------------------------
(* Readers, processes, and the end of the agent *)

\* A read fails when the process is gone; the poller asks TmuxSessionExists.
StopReading(s) ==
  /\ s \in reading
  /\ \/ s \in Tmux /\ MayAnswer(s, FALSE)
     \/ s \notin Tmux /\ s \notin alive
  /\ reading' = reading \ {s}
  /\ UNCHANGED <<managerVars, sessions, storeVars, workerVars, alive, kind, historyVars>>

\* The program in the terminal ends by itself.
Exit(s) ==
  /\ s \in alive
  /\ alive' = alive \ {s}
  /\ UNCHANGED <<managerVars, sessions, reading, storeVars, workerVars, kind, historyVars>>

\* CloseAll on SIGINT or SIGTERM: tmux sessions and all records are left.
Shutdown ==
  /\ phase = "up"
  /\ ~Locked
  /\ phase' = "closing"
  /\ alive' = alive \ (sessions \ Tmux)
  /\ sessions' = {}
  /\ UNCHANGED <<useTmux, reading, storeVars, workerVars, kind, historyVars>>

\* sessions.json is being written.
Writing ==
  \/ \E w \in Worker : pc[w] \in {"storing", "destroying"}
  \/ phase = "restoring" /\ todo # {}

\* The process ends, by itself or by a crash; a PTY goes with its master.
Die ==
  /\ phase # "down"
  /\ phase' = "down"
  /\ sessions' = {} /\ reading' = {} /\ mem' = {} /\ todo' = {}
  /\ pc' = [w \in Worker |-> "idle"]
  /\ alive' = alive \cap Tmux
  /\ file' \in {file} \cup (IF Writing /\ "torn" \in Faults THEN {{}} ELSE {})
  /\ UNCHANGED <<useTmux, arg, kind, historyVars>>

-----------------------------------------------------------------------------

Restore == Start \/ Serve \/ \E s \in Session : PassOver(s) \/ DropRecord(s) \/ Reattach(s)

Request(w) ==
  \/ Publish(w) \/ Store(w) \/ Forget(w)
  \/ \E s \in Session : Create(w, s) \/ Destroy(w, s)

Next ==
  \/ Restore
  \/ \E w \in Worker : Request(w)
  \/ \E s \in Session : StopReading(s) \/ Exit(s)
  \/ Shutdown
  \/ Die

Spec == Init /\ [][Next]_vars

\* The pollers' tickers fire, and readers of a dead PTY return.
FairSpec == Spec /\ \A s \in Session : WF_vars(StopReading(s))

-----------------------------------------------------------------------------
(* Properties *)

\* What the agent has promised to keep: acknowledged tmux sessions that
\* neither ended nor were destroyed.
Promised == {s \in acked \cap Tmux \cap alive : s \notin ended}

\* Whatever fails outside, a session in the manager's map is in the store's,
\* or about to be put there: the next write that succeeds records it
\* (manager.go CreateSession, DestroySession, RestoreSessions).
HeldIsStored ==
  sessions \subseteq mem \cup {arg[w] : w \in {v \in Worker : pc[v] = "storing"}}

\* A destroyed session is never offered again, after any number of restarts,
\* even when the destroy fell between the steps of its CreateSession.  Needs
\* kill-session to work (its error is ignored, manager.go:315).
DestroyedForGood ==
  \A s \in ended : s \in sessions => \E w \in Worker : pc[w] = "destroying" /\ arg[w] = s

\* A live session that the agent offers is being read (manager.go readOutput),
\* after a restart as well.  Needs has-session to work: one failure of it ends
\* the poller of a live session (manager.go:200).
LiveSessionsAreRead == sessions \cap alive \subseteq reading

\* The output goroutine of a destroyed session ends (manager.go:200,
\* DestroySession).  Needs kill-session to work.
DestroyedFallsSilent == \A s \in Session : s \in ended ~> s \notin reading

\* sessions persist across agent restarts (2026-05-02 plan:21): the running
\* agent offers every session it has promised.  Violated when the agent dies
\* while it writes sessions.json, which is truncated and then written, and
\* when tmux is not found at one start.
Reattached == phase = "up" => Promised \subseteq sessions
=============================================================================
