-------------------------- MODULE ServerLifecycle --------------------------
(***************************************************************************)
(* What the HTTP server promises about its connections, without sockets,   *)
(* operations or requests: it serves until it is told to stop, every       *)
(* socket becomes a connection at most once and only while it serves, a    *)
(* stop ends all connections at once and for good, and only a stopped      *)
(* server exits.                                                           *)
(***************************************************************************)
CONSTANT Conn

VARIABLES phase,  \* "serving", "stopped", "exited" or "crashed"
          live,   \* the connections being served
          seen    \* the sockets that are or were in the server's hands

vars == <<phase, live, seen>>

Init == phase = "serving" /\ live = {} /\ seen = {}

Open(c) ==
  /\ phase = "serving"
  /\ c \notin seen
  /\ live' = live \cup {c}
  /\ seen' = seen \cup {c}
  /\ UNCHANGED phase

Finish(c) ==
  /\ phase = "serving"
  /\ c \in live
  /\ live' = live \ {c}
  /\ UNCHANGED <<phase, seen>>

Stop ==
  /\ phase = "serving"
  /\ phase' = "stopped"
  /\ live' = {}
  /\ UNCHANGED seen

\* A socket accepted before the stop is dropped after it.
Refuse(c) ==
  /\ phase = "stopped"
  /\ c \notin seen
  /\ seen' = seen \cup {c}
  /\ UNCHANGED <<phase, live>>

Exit ==
  /\ phase = "stopped"
  /\ phase' = "exited"
  /\ UNCHANGED <<live, seen>>

\* A failed assertion ends the process.
Crash ==
  /\ phase \in {"serving", "stopped"}
  /\ phase' = "crashed"
  /\ live' = {}
  /\ UNCHANGED seen

Next == \/ \E c \in Conn : Open(c) \/ Finish(c) \/ Refuse(c)
        \/ Stop \/ Exit \/ Crash

Spec == Init /\ [][Next]_vars
=============================================================================
