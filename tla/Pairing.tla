------------------------------- MODULE Pairing -------------------------------
(***************************************************************************)
(* Pairing a phone with the agent (crypto/pairing.go, crypto/keys.go, the  *)
(* commands init, pair and start of cmd/main.go): the configuration on     *)
(* disk, written in place, the pairing server with one goroutine per       *)
(* phone, and the configuration the running agent goes by.                 *)
(*                                                                         *)
(* A phone makes an id and a key pair for each attempt (pairing_page.dart),*)
(* so that Phone is a set of attempts.  Keys are numbered in the order in  *)
(* which init generates them.                                              *)
(***************************************************************************)
EXTENDS Naturals

CONSTANTS
  Command, \* processes in which init and pair run
  Phone,
  MaxKeys, \* bound: how often init runs to its end
  Nobody   \* no phone

ASSUME PairingAssumption == MaxKeys \in Nat /\ Nobody \notin Phone \cup Command

Key == 1 .. MaxKeys
Config == [key : Key, client : Phone \cup {Nobody}]
Absent == [key |-> 0, client |-> Nobody]

VARIABLES
  file,    \* config.json: a Config, or Absent
  torn,    \* it was cut off by a write that has not come to its end
  keys,    \* key pairs generated so far
  pc,      \* where each command is
  draft,   \* the Config each command works with
  result,  \* resultChan of each pairing flow: a phone or Nobody
  failure, \* errChan of each pairing flow holds an error
  link,    \* where the pairing of each phone is, on the agent's side
  server,  \* the command whose server the phone talks to
  told,    \* the key each phone was sent the confirmation for, 0 if none
  agent,   \* the Config of the running agent, Absent if it does not run
  rivals   \* commands that were pairing when another one saved its result (history)

flowVars == <<result, failure, link, server, told>>
vars == <<file, torn, keys, pc, draft, flowVars, agent, rivals>>

TypeOK ==
  /\ file \in Config \cup {Absent} /\ torn \in BOOLEAN
  /\ keys \in 0 .. MaxKeys
  /\ pc \in [Command -> {"idle", "generating", "writing", "pairing", "paired",
                      "merging", "saving"}]
  /\ draft \in [Command -> Config \cup {Absent}]
  /\ result \in [Command -> Phone \cup {Nobody}] /\ failure \in [Command -> BOOLEAN]
  /\ link \in [Phone -> {"none", "reading", "replied", "over"}]
  /\ server \in [Phone -> Command \cup {Nobody}]
  /\ told \in [Phone -> 0 .. MaxKeys]
  /\ agent \in Config \cup {Absent}
  /\ rivals \subseteq Command

Init ==
  /\ file = Absent /\ torn = FALSE /\ keys = 0
  /\ pc = [p \in Command |-> "idle"] /\ draft = [p \in Command |-> Absent]
  /\ result = [p \in Command |-> Nobody] /\ failure = [p \in Command |-> FALSE]
  /\ link = [h \in Phone |-> "none"] /\ server = [h \in Phone |-> Nobody]
  /\ told = [h \in Phone |-> 0]
  /\ agent = Absent /\ rivals = {}

\* LoadConfig and LoadKeyPair: a file that is cut off does not parse.
Loads == file # Absent /\ ~torn

Go(p, from, to) == pc[p] = from /\ pc' = [pc EXCEPT ![p] = to]

\* The end of a command takes the goroutines of its server with it.
Exit(p) ==
  /\ pc' = [pc EXCEPT ![p] = "idle"]
  /\ draft' = [draft EXCEPT ![p] = Absent]
  /\ result' = [result EXCEPT ![p] = Nobody]
  /\ failure' = [failure EXCEPT ![p] = FALSE]
  /\ link' = [h \in Phone |-> IF server[h] = p THEN "over" ELSE link[h]]

-----------------------------------------------------------------------------
(* init *)

\* os.Stat finds nothing; nobody runs init twice at a time.
BeginInit(p) ==
  /\ file = Absent /\ ~torn /\ keys < MaxKeys
  /\ \A q \in Command : pc[q] \notin {"generating", "writing"}
  /\ Go(p, "idle", "generating")
  /\ UNCHANGED <<file, torn, keys, draft, flowVars, agent, rivals>>

\* SaveConfig: os.WriteFile cuts the file off, then fills it.
BeginSaveConfig(p) ==
  /\ Go(p, "generating", "writing")
  /\ keys' = keys + 1
  /\ draft' = [draft EXCEPT ![p] = [key |-> keys + 1, client |-> Nobody]]
  /\ torn' = TRUE
  /\ UNCHANGED <<file, flowVars, agent, rivals>>

EndSaveConfig(p) ==
  /\ pc[p] = "writing"
  /\ file' = draft[p] /\ torn' = FALSE
  /\ Exit(p)
  /\ UNCHANGED <<keys, server, told, agent, rivals>>

-----------------------------------------------------------------------------
(* pair *)

\* Mutation: pair does not ask whether the agent is paired.
BeginPair_Again(p) ==
  /\ Loads
  /\ Go(p, "idle", "pairing")
  /\ draft' = [draft EXCEPT ![p] = file]
  /\ UNCHANGED <<file, torn, keys, flowVars, agent, rivals>>

\* RunPairingFlow: the QR code shows the public key that was loaded.
BeginPair(p) ==
  /\ Loads /\ file.client = Nobody
  /\ Go(p, "idle", "pairing")
  /\ draft' = [draft EXCEPT ![p] = file]
  /\ UNCHANGED <<file, torn, keys, flowVars, agent, rivals>>

\* A phone reads the QR code and connects.
Scan(h, p) ==
  /\ link[h] = "none" /\ pc[p] = "pairing"
  /\ link' = [link EXCEPT ![h] = "reading"]
  /\ server' = [server EXCEPT ![h] = p]
  /\ UNCHANGED <<file, torn, keys, pc, draft, result, failure, told, agent, rivals>>

\* Mutation: the result is handed over before the confirmation is written.
Confirm_Late(h) ==
  /\ link[h] = "reading"
  /\ result[server[h]] = Nobody
  /\ result' = [result EXCEPT ![server[h]] = h]
  /\ link' = [link EXCEPT ![h] = "replied"]
  /\ UNCHANGED <<file, torn, keys, pc, draft, failure, server, told, agent, rivals>>

\* Its message is in order: the confirmation is written.  The goroutine has the
\* connection for itself, so that server.Close does not end it.
Confirm(h) ==
  /\ link[h] = "reading"
  /\ link' = [link EXCEPT ![h] = "replied"]
  /\ told' = [told EXCEPT ![h] = draft[server[h]].key]
  /\ UNCHANGED <<file, torn, keys, pc, draft, result, failure, server, agent, rivals>>

\* resultChan holds one result, and only one is taken: those after it come to nothing.
Deliver(h) ==
  /\ link[h] = "replied" /\ result[server[h]] = Nobody
  /\ link' = [link EXCEPT ![h] = "over"]
  /\ result' = [result EXCEPT ![server[h]] = h]
  /\ UNCHANGED <<file, torn, keys, pc, draft, failure, server, told, agent, rivals>>

\* A message that is missing after 30 seconds or wrong, or a reply that fails:
\* an error for errChan, which holds one.
Reject(h) ==
  /\ link[h] = "reading" /\ ~failure[server[h]]
  /\ link' = [link EXCEPT ![h] = "over"]
  /\ failure' = [failure EXCEPT ![server[h]] = TRUE]
  /\ UNCHANGED <<file, torn, keys, pc, draft, result, server, told, agent, rivals>>

\* So is any request that is no WebSocket, and a port somebody has taken since
\* it was found free.
Stray(p) ==
  /\ pc[p] = "pairing" /\ ~failure[p]
  /\ failure' = [failure EXCEPT ![p] = TRUE]
  /\ UNCHANGED <<file, torn, keys, pc, draft, result, link, server, told, agent, rivals>>

\* The select of RunPairingFlow: a result, an error, or five minutes.
TakeResult(p) ==
  /\ result[p] # Nobody
  /\ Go(p, "pairing", "paired")
  /\ UNCHANGED <<file, torn, keys, draft, flowVars, agent, rivals>>

\* Mutation: an error leaves the flow waiting.
GiveUp_Wait(p) ==
  /\ pc[p] = "pairing" /\ failure[p]
  /\ failure' = [failure EXCEPT ![p] = FALSE]
  /\ UNCHANGED <<file, torn, keys, pc, draft, result, link, server, told, agent, rivals>>

GiveUp(p) ==
  /\ pc[p] = "pairing" \* an error, or the time is up
  /\ Exit(p)
  /\ UNCHANGED <<file, torn, keys, server, told, agent, rivals>>

\* Mutation: an error of LoadConfig is ignored.
ReadAgain_Ignore(p) ==
  /\ Go(p, "paired", "merging")
  /\ draft' = [draft EXCEPT ![p] =
                 [IF Loads THEN file ELSE Absent EXCEPT !.client = result[p]]]
  /\ UNCHANGED <<file, torn, keys, flowVars, agent, rivals>>

\* SavePairedClient reads the configuration again.
ReadAgain(p) ==
  /\ Loads
  /\ Go(p, "paired", "merging")
  /\ draft' = [draft EXCEPT ![p] = [file EXCEPT !.client = result[p]]]
  /\ UNCHANGED <<file, torn, keys, flowVars, agent, rivals>>

\* saveConfigFile: cut off, then filled, as above.
BeginSavePaired(p) ==
  /\ Go(p, "merging", "saving")
  /\ torn' = TRUE
  /\ UNCHANGED <<file, keys, draft, flowVars, agent, rivals>>

EndSavePaired(p) ==
  /\ pc[p] = "saving"
  /\ file' = draft[p] /\ torn' = FALSE
  /\ Exit(p)
  /\ rivals' = {q \in Command \ {p} : pc[q] # "idle"}
  /\ UNCHANGED <<keys, server, told, agent>>

\* SavePairedClient cannot read the file another command is writing.
SaveFails(p) ==
  /\ pc[p] = "paired" /\ ~Loads
  /\ Exit(p)
  /\ UNCHANGED <<file, torn, keys, server, told, agent, rivals>>

\* A command is killed, or its disk is full: a write stays where it is.
Die(p) ==
  /\ pc[p] # "idle"
  /\ Exit(p)
  /\ UNCHANGED <<file, torn, keys, server, told, agent, rivals>>

\* "Delete config to reinitialize": the user does, when no command runs.
DeleteConfig ==
  /\ file # Absent \/ torn
  /\ \A p \in Command : pc[p] = "idle"
  /\ file' = Absent /\ torn' = FALSE /\ rivals' = {}
  /\ UNCHANGED <<keys, pc, draft, flowVars, agent>>

-----------------------------------------------------------------------------
(* start *)

StartAgent ==
  /\ agent = Absent /\ Loads
  /\ agent' = file
  /\ UNCHANGED <<file, torn, keys, pc, draft, flowVars, rivals>>

StopAgent ==
  /\ agent # Absent
  /\ agent' = Absent
  /\ UNCHANGED <<file, torn, keys, pc, draft, flowVars, rivals>>

-----------------------------------------------------------------------------
InitFlow(p) == BeginSaveConfig(p) \/ EndSaveConfig(p)

Flow(p) ==
  \/ TakeResult(p) \/ GiveUp(p) \/ ReadAgain(p) \/ SaveFails(p)
  \/ BeginSavePaired(p) \/ EndSavePaired(p)

Serve(h) == Confirm(h) \/ Deliver(h) \/ Reject(h)

Next ==
  \/ \E p \in Command :
       \/ BeginInit(p) \/ InitFlow(p) \/ BeginPair(p) \/ Stray(p) \/ Flow(p) \/ Die(p)
  \/ \E h \in Phone : Serve(h) \/ \E p \in Command : Scan(h, p)
  \/ DeleteConfig \/ StartAgent \/ StopAgent

Spec == Init /\ [][Next]_vars

\* A process that can go on does; select takes what is there.
FairSpec == Spec /\ \A p \in Command : WF_vars(InitFlow(p)) /\ WF_vars(Flow(p))

-----------------------------------------------------------------------------
(* Properties *)

Shared(config) == config.client # Nobody => told[config.client] = config.key

\* The phone in the configuration was told so, for the very keys saved with it:
\* both ends derive the same secret, in the file and in the running agent,
\* whatever commands overlap, die or are run again after the keys were deleted.
PairedShares == Shared(file) /\ Shared(agent)

\* "To pair with a new device, delete the config and reinitialize": a saved
\* client stays, unless another pair was under way when it was saved.
SavedForGood ==
  [][file.client # Nobody /\ file' # file
       => file' = Absent \/ \E p \in rivals : pc[p] = "saving"]_vars

\* Every command comes to its end, whatever phones connect, fall silent or fail.
CommandsEnd == \A p \in Command : pc[p] # "idle" ~> pc[p] = "idle"
=============================================================================
