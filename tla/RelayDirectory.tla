--------------------------- MODULE RelayDirectory ---------------------------
(* The relay implements the Directory specification.                        *)
EXTENDS Relay

CONSTANT Nothing  \* no announcement is owed

ASSUME NothingAssumption ==
  Nothing \notin {"online", "offline"} \X (DeviceId \cup {NoDevice})

\* What a goroutine still has to announce: a handler from its Register to the
\* end of its broadcast, whoever removed an entry until the end of its own.
owes ==
  [a \in Actor |->
     CASE pc[a] \in {"replying", "tell_online", "telling_online"} ->
            <<"online", arg[a]>>
       [] pc[a] \in {"kicking", "tell_offline", "telling_offline"} ->
            <<"offline", arg[a]>>
       [] OTHER -> Nothing]

Dir == INSTANCE Directory

\* Every change of the registry (registry.go) is a claim or a removal of the
\* abstract directory, and each is announced at most once, by the goroutine
\* that made it, before that goroutine changes the registry again.
ImplementsDirectory == Dir!DirSpec

\* Under the relay's scheduling every announcement that is owed comes to an
\* end as well: a removal that nobody announces is impossible.
ImplementsFairDirectory == Dir!DirFairSpec
=============================================================================
