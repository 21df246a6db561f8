---------------------------- MODULE SessionPool ----------------------------
(***************************************************************************)
(* What the WebSocket server promises to those who look at a robot through *)
(* it, without ports, frames or messages: while the server and the line to *)
(* the robot work, a client that is being served is given up only for      *)
(* another one that is.  Competing for the serial port may cost all        *)
(* sessions but one; it never costs the last one.                          *)
(***************************************************************************)
CONSTANT Sessions

VARIABLES serving,  \* the sessions that relay what the robot sends
          gone,     \* the sessions whose client has left
          working   \* the server and the serial line work

vars == <<serving, gone, working>>

Init == serving = {} /\ gone = {} /\ working = TRUE

Join(s) ==
  /\ s \notin serving \cup gone
  /\ serving' = serving \cup {s}
  /\ UNCHANGED <<gone, working>>

Leave(s) ==
  /\ gone' = gone \cup {s}
  /\ UNCHANGED <<serving, working>>

Drop(s) ==
  /\ s \in serving
  /\ s \in gone \/ serving \ {s} # {} \/ ~working
  /\ serving' = serving \ {s}
  /\ UNCHANGED <<gone, working>>

\* The line is interrupted, or the server ends and every session with it.
Break ==
  /\ working' = FALSE
  /\ serving' \in {serving, {}}
  /\ UNCHANGED gone

Next == (\E s \in Sessions : Join(s) \/ Leave(s) \/ Drop(s)) \/ Break

Spec == Init /\ [][Next]_vars
=============================================================================
