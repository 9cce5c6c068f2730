---------------------------- MODULE PairingProofs ----------------------------
(* Proofs about Pairing.                                                    *)
EXTENDS Pairing, TLAPS

-----------------------------------------------------------------------------
(* The inductive invariant                                                  *)

Initializing == {"generating", "writing"}
Flowing == {"pairing", "paired", "merging", "saving"}

\* init and pair do not run at the same time, nor do two inits.
Inits ==
  /\ \A p \in Command : pc[p] = "generating" => keys < MaxKeys
  /\ \A p \in Command : pc[p] \in Initializing => file = Absent
  /\ \A p \in Command : pc[p] \in Flowing => file # Absent
  /\ \A p, q \in Command : pc[p] \in Initializing /\ pc[q] \in Initializing => p = q

\* Every pairing flow works with the keys in the file.
Keys ==
  /\ \A p \in Command : pc[p] = "writing" => draft[p] \in Config /\ draft[p].client = Nobody
  /\ \A p \in Command : pc[p] \in Flowing => draft[p] \in Config /\ draft[p].key = file.key

\* A phone in touch with a server is in touch with one that runs, and is told
\* once.
Phones ==
  \A h \in Phone :
    /\ told[h] # 0 => link[h] \in {"replied", "over"}
    /\ link[h] \in {"reading", "replied"} => server[h] \in Command /\ pc[server[h]] \in Flowing
    /\ link[h] = "replied" => told[h] = draft[server[h]].key

\* A result is a phone that was told, for the keys of the flow.
Results ==
  \A p \in Command :
    /\ result[p] # Nobody => pc[p] \in Flowing /\ told[result[p]] = draft[p].key
    /\ pc[p] \in {"paired", "merging", "saving"} => result[p] # Nobody
    /\ pc[p] \in {"merging", "saving"} => draft[p].client = result[p]

\* A pair that runs although a client is saved was under way before.
Rivals == file.client # Nobody => \A p \in Command : pc[p] \in Flowing => p \in rivals

IInv == TypeOK /\ Inits /\ Keys /\ Phones /\ Results /\ Rivals /\ PairedShares

\* Nothing is there at the start.
LEMMA IInit == Init => IInv
<1> USE PairingAssumption DEF Init, Absent
<1> SUFFICES ASSUME Init PROVE IInv
  OBVIOUS
<1>1. TypeOK
  <2>1. file \in Config \cup {Absent} /\ draft \in [Command -> Config \cup {Absent}]
        /\ agent \in Config \cup {Absent}
    OBVIOUS
  <2>2. pc \in [Command -> {"idle", "generating", "writing", "pairing", "paired", "merging", "saving"}]
    OBVIOUS
  <2>3. /\ result \in [Command -> Phone \cup {Nobody}] /\ failure \in [Command -> BOOLEAN]
        /\ link \in [Phone -> {"none", "reading", "replied", "over"}]
    OBVIOUS
  <2>4. /\ server \in [Phone -> Command \cup {Nobody}] /\ told \in [Phone -> 0 .. MaxKeys]
    OBVIOUS
  <2>5. torn \in BOOLEAN /\ rivals \subseteq Command
    BY Zenon
  <2>6. keys \in 0 .. MaxKeys
    OBVIOUS
  <2> HIDE DEF Init, Absent
  <2> QED
    BY <2>1, <2>2, <2>3, <2>4, <2>5, <2>6 DEF TypeOK
<1>2. Inits /\ Keys
  BY DEF Inits, Keys, Initializing, Flowing
<1>3. Phones /\ Results /\ Rivals /\ PairedShares
  BY DEF Phones, Results, Rivals, PairedShares, Shared, Flowing
<1> QED
  BY <1>1, <1>2, <1>3 DEF IInv

-----------------------------------------------------------------------------
(* Every step keeps it                                                      *)

\* init.
LEMMA InitStep ==
  ASSUME IInv, NEW p \in Command, BeginInit(p) \/ InitFlow(p) PROVE IInv'
<1> USE PairingAssumption DEF IInv, TypeOK, Inits, Keys, Phones, Results, Rivals, PairedShares, Shared,
         Config, Absent, Key, Initializing, Flowing, flowVars
<1>1. CASE BeginInit(p)
  <2> USE <1>1 DEF BeginInit, Go
  <2>1. TypeOK'
    OBVIOUS
  <2>2. Inits' /\ Keys'
    OBVIOUS
  <2>3. Phones' /\ Results'
    OBVIOUS
  <2>4. Rivals' /\ PairedShares'
    OBVIOUS
  <2> QED
    BY <2>1, <2>2, <2>3, <2>4
<1>2. CASE BeginSaveConfig(p)
  <2> USE <1>2 DEF BeginSaveConfig, Go
  <2>1. TypeOK'
    OBVIOUS
  <2>2. Inits' /\ Keys'
    OBVIOUS
  <2>3. Phones' /\ Results'
    OBVIOUS
  <2>4. Rivals' /\ PairedShares'
    OBVIOUS
  <2> QED
    BY <2>1, <2>2, <2>3, <2>4
<1>3. CASE EndSaveConfig(p)
  <2> USE <1>3 DEF EndSaveConfig, Exit
  <2>1. TypeOK'
    OBVIOUS
  <2>2. Inits' /\ Keys'
    OBVIOUS
  <2>3. Phones' /\ Results'
    OBVIOUS
  <2>4. Rivals' /\ PairedShares'
    OBVIOUS
  <2> QED
    BY <2>1, <2>2, <2>3, <2>4
<1> QED
  BY <1>1, <1>2, <1>3 DEF InitFlow

\* pair, from its start to its end.
LEMMA FlowStep ==
  ASSUME IInv, NEW p \in Command, BeginPair(p) \/ Stray(p) \/ Flow(p) \/ Die(p) PROVE IInv'
<1> USE PairingAssumption DEF IInv, TypeOK, Inits, Keys, Phones, Results, Rivals, PairedShares, Shared,
         Config, Absent, Key, Initializing, Flowing, flowVars
<1>1. CASE BeginPair(p)
  BY <1>1 DEF BeginPair, Loads, Go
<1>2. CASE Stray(p)
  BY <1>2 DEF Stray, Go
<1>3. CASE TakeResult(p)
  BY <1>3 DEF TakeResult, Go
<1>4. CASE GiveUp(p)
  BY <1>4 DEF GiveUp, Exit
<1>5. CASE ReadAgain(p)
  BY <1>5 DEF ReadAgain, Loads, Go
<1>6. CASE SaveFails(p)
  BY <1>6 DEF SaveFails, Exit
<1>7. CASE BeginSavePaired(p)
  <2> USE <1>7 DEF BeginSavePaired, Go
  <2>1. TypeOK'
    OBVIOUS
  <2>2. Inits' /\ Keys'
    OBVIOUS
  <2>3. Phones' /\ Results'
    OBVIOUS
  <2>4. Rivals' /\ PairedShares'
    OBVIOUS
  <2> QED
    BY <2>1, <2>2, <2>3, <2>4
<1>8. CASE EndSavePaired(p)
  <2> USE <1>8 DEF EndSavePaired, Exit
  <2>1. TypeOK'
    OBVIOUS
  <2>2. Inits' /\ Keys'
    OBVIOUS
  <2>3. Phones' /\ Results'
    OBVIOUS
  <2>4. Rivals' /\ PairedShares'
    OBVIOUS
  <2> QED
    BY <2>1, <2>2, <2>3, <2>4
<1>9. CASE Die(p)
  BY <1>9 DEF Die, Exit
<1> QED
  BY <1>1, <1>2, <1>3, <1>4, <1>5, <1>6, <1>7, <1>8, <1>9 DEF Flow

\* A phone and the server it talks to.
LEMMA ServeStep ==
  ASSUME IInv, NEW h \in Phone, NEW p \in Command, Scan(h, p) \/ Serve(h) PROVE IInv'
<1> USE PairingAssumption DEF IInv, TypeOK, Inits, Keys, Phones, Results, Rivals, PairedShares, Shared,
         Config, Absent, Key, Initializing, Flowing, flowVars
<1>1. CASE Scan(h, p)
  BY <1>1 DEF Scan
<1>2. CASE Confirm(h)
  BY <1>2 DEF Confirm
<1>3. CASE Deliver(h)
  BY <1>3 DEF Deliver
<1>4. CASE Reject(h)
  BY <1>4 DEF Reject
<1> QED
  BY <1>1, <1>2, <1>3, <1>4 DEF Serve

\* The user and the running agent.
LEMMA AgentStep ==
  ASSUME IInv, DeleteConfig \/ StartAgent \/ StopAgent PROVE IInv'
<1> USE PairingAssumption DEF IInv, TypeOK, Inits, Keys, Phones, Results, Rivals, PairedShares, Shared,
         Config, Absent, Key, Initializing, Flowing, flowVars
<1>1. CASE DeleteConfig
  BY <1>1 DEF DeleteConfig
<1>2. CASE StartAgent
  BY <1>2 DEF StartAgent, Loads
<1>3. CASE StopAgent
  BY <1>3 DEF StopAgent
<1> QED
  BY <1>1, <1>2, <1>3

\* Any step keeps the invariant.
LEMMA IStep == IInv /\ [Next]_vars => IInv'
<1> SUFFICES ASSUME IInv, [Next]_vars PROVE IInv'
  OBVIOUS
<1>1. CASE UNCHANGED vars
  BY <1>1 DEF vars, flowVars, IInv, TypeOK, Inits, Keys, Phones, Results, Rivals,
              PairedShares, Shared
<1>2. ASSUME NEW h \in Phone, Serve(h) PROVE IInv'
  <2>1. PICK p \in Command : TRUE
    BY <1>2 DEF IInv, Phones, Serve, Confirm, Deliver, Reject
  <2> QED
    BY <1>2, <2>1, ServeStep
<1> QED
  BY <1>1, <1>2, InitStep, FlowStep, ServeStep, AgentStep DEF Next

\* It holds throughout.
LEMMA Invariant == Spec => []IInv
BY IInit, IStep, PTL DEF Spec

-----------------------------------------------------------------------------
(* What follows from it                                                     *)

\* Type correctness, for any number of commands, phones and keys.
THEOREM PairingTypeCorrect == Spec => []TypeOK
<1>1. IInv => TypeOK
  BY DEF IInv
<1> QED
  BY <1>1, Invariant, PTL

\* The phone that is saved, and the one the agent uses, knows the agent's keys.
THEOREM PairedShareKeys == Spec => []PairedShares
<1>1. IInv => PairedShares
  BY DEF IInv
<1> QED
  BY <1>1, Invariant, PTL

\* Only a pair that overlapped another replaces a saved client.
THEOREM SavedStays == Spec => SavedForGood
<1>1. IInv /\ [Next]_vars =>
        [file.client # Nobody /\ file' # file
           => file' = Absent \/ \E p \in rivals : pc[p] = "saving"]_vars
  <2> SUFFICES ASSUME IInv, Next, file.client # Nobody, file' # file, file' # Absent
               PROVE  \E p \in rivals : pc[p] = "saving"
    OBVIOUS
  <2>1. PICK p \in Command : EndSaveConfig(p) \/ EndSavePaired(p)
    BY DEF Next, InitFlow, Flow, Serve, BeginInit, BeginSaveConfig, BeginPair, Stray, TakeResult,
           GiveUp, ReadAgain, SaveFails, BeginSavePaired, Die, Scan, Confirm, Deliver, Reject,
           DeleteConfig, StartAgent, StopAgent
  <2>2. CASE EndSaveConfig(p)
    BY <2>2 DEF EndSaveConfig, IInv, Inits, Initializing, Absent
  <2>3. CASE EndSavePaired(p)
    BY <2>3 DEF EndSavePaired, IInv, Rivals, Flowing
  <2> QED
    BY <2>1, <2>2, <2>3
<1> QED
  BY <1>1, Invariant, PTL DEF Spec, SavedForGood
=============================================================================
