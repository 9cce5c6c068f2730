----------------------------- MODULE Directory -----------------------------
(***************************************************************************)
(* What the relay's registry and its announcements promise together: a     *)
(* directory of device ids in which an id belongs to at most one           *)
(* connection.  Claiming an id owes one online announcement, which is lost *)
(* only if the claimant fails at once; removing an entry owes exactly one  *)
(* offline announcement, by whoever removed it.  Nobody else announces.    *)
(***************************************************************************)
CONSTANTS DeviceId, Conn, Presence, NoConn, Nothing

Actor == Conn \cup {Presence}

VARIABLES
  owner,  \* the connection each device id belongs to
  owes    \* the announcement each actor still has to finish

dirVars == <<owner, owes>>

Announcement == {"online", "offline"} \X DeviceId

DirTypeOK ==
  /\ owner \in [DeviceId -> Conn \cup {NoConn}]
  /\ owes \in [Actor -> Announcement \cup {Nothing}]

DirInit ==
  /\ owner = [d \in DeviceId |-> NoConn]
  /\ owes = [a \in Actor |-> Nothing]

Claim(c, d) ==
  /\ owes[c] = Nothing
  /\ owner' = [owner EXCEPT ![d] = c]
  /\ owes' = [owes EXCEPT ![c] = <<"online", d>>]

\* By the connection that holds the entry, or by the presence check.
Remove(a, d) ==
  /\ owes[a] = Nothing
  /\ owner[d] # NoConn
  /\ a \in {owner[d], Presence}
  /\ owner' = [owner EXCEPT ![d] = NoConn]
  /\ owes' = [owes EXCEPT ![a] = <<"offline", d>>]

Announce(a) ==
  /\ owes[a] # Nothing
  /\ owes' = [owes EXCEPT ![a] = Nothing]
  /\ UNCHANGED owner

DirNext ==
  \/ \E c \in Conn, d \in DeviceId : Claim(c, d)
  \/ \E a \in Actor, d \in DeviceId : Remove(a, d)
  \/ \E a \in Actor : Announce(a)

DirSpec == DirInit /\ [][DirNext]_dirVars

\* Every announcement owed is made or, for a failed claimant, abandoned.
DirFairSpec == DirSpec /\ \A a \in Actor : WF_dirVars(Announce(a))
=============================================================================
